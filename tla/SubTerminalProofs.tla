------------------------- MODULE SubTerminalProofs -------------------------
(***************************************************************************)
(* The screen of the terminal ROM, for every size of screen and text VRAM  *)
(* that WindowFits allows.                                                 *)
(***************************************************************************)
EXTENDS SubTerminal, WellFoundedInduction, TLAPS

LEMMA FewerRows ==
  ASSUME NEW n \in Nat, NEW r \in Nat, NEW w \in Nat, n <= r
  PROVE  n * w \in 0 .. (r * w) /\ (r - n) * w = r * w - n * w
<1>1. n * w \in Nat /\ r * w \in Nat /\ (r - n) * w \in Nat
  OBVIOUS
<1>2. (r - n) * w = r * w - n * w
  OBVIOUS
<1>3. QED
  BY <1>1, <1>2

USE StrideIsPos, BlankIsGlyph, ParamsAreBytes

(* The cell k places after the start of the window, round the VRAM. *)
At(base, k) == Wrap(base + k)

(* The cursor is in column c of row r, by its address and by CURSOR_COL. *)
Stands(s, r, c) ==
  /\ s \in Screen
  /\ r \in 0 .. (Rows - 1) /\ c \in Column
  /\ s.addr = At(s.base, r * ROW_STRIDE + c)
  /\ s.col = c

OnGrid(s) == \E r \in 0 .. (Rows - 1) : Stands(s, r, s.col)

(* A restored cursor is true if it was saved true in the window that is    *)
(* still there, so what was saved has to be remembered as true.            *)
SavedOnGrid ==
  ~savedIn.strayed =>
    \E r \in 0 .. (Rows - 1) :
      saved.addr = At(savedIn.base, r * ROW_STRIDE + saved.col)

Typed ==
  /\ scr \in Screen
  /\ saved \in [addr: Cell, col: Column]
  /\ savedIn \in [base: Cell, strayed: BOOLEAN]
  /\ strayed \in BOOLEAN

IInv == Typed /\ (~strayed => OnGrid(scr)) /\ SavedOnGrid

(* The GDC's cursor is the ROM's after every byte; before the first one,   *)
(* the screen is as the reset left it.                                     *)
GdcFollows == ead \in Cell /\ (ead # scr.addr => scr = Fresh)

-----------------------------------------------------------------------------
(* Loops: what holds before the first turn and is kept by every turn holds *)
(* after the last.                                                         *)

LEMMA SetInduction ==
  ASSUME NEW T \in SUBSET Nat, 0 \in T, \A n \in T : n + 1 \in T
  PROVE  T = Nat
<1>1. SUFFICES ASSUME Nat \ T # {} PROVE FALSE
  OBVIOUS
<1> DEFINE R == OpToRel(<, Nat)
<1>2. IsWellFoundedOn(R, Nat)
  BY NatLessThanWellFounded
<1>3. \A y, m \in Nat : y < m => <<y, m>> \in R
  BY DEF OpToRel
<1> HIDE DEF R
<1>4. PICK m \in Nat \ T : \A y \in Nat \ T : <<y, m>> \notin R
  BY ONLY <1>1, <1>2, WFMin
<1>5. m \in Nat /\ m - 1 \in Nat \ T /\ m - 1 < m
  OBVIOUS
<1>6. <<m - 1, m>> \in R
  BY <1>3, <1>5
<1>7. QED
  BY <1>4, <1>5, <1>6

LEMMA TurnsReach ==
  ASSUME NEW n \in Nat, NEW I, NEW f, <<0, f[0]>> \in I,
         \A i \in 0 .. (n - 1) : <<i, f[i]>> \in I => <<i + 1, f[i + 1]>> \in I
  PROVE  <<n, f[n]>> \in I
<1> DEFINE T == {i \in Nat : i <= n => <<i, f[i]>> \in I}
<1>1. 0 \in T
  OBVIOUS
<1>2. ASSUME NEW i \in T PROVE i + 1 \in T
  OBVIOUS
<1> HIDE DEF T
<1>3. T = Nat
  BY <1>1, <1>2, SetInduction DEF T
<1>4. QED
  BY <1>3 DEF T

Turned(f, G, s, n) ==
  /\ f[0] = s
  /\ \A i \in 1 .. n : f[i] = G[f[i - 1]]

LEMMA TurnsExist ==
  ASSUME NEW A, NEW G \in [A -> A], NEW s \in A, NEW n \in Nat
  PROVE  \E f \in [0 .. n -> A] : Turned(f, G, s, n)
<1> DEFINE Turns(m, f) == f = [i \in 0 .. m |-> IF i = 0 THEN s ELSE G[f[i - 1]]]
           T == {m \in Nat : \E f \in [0 .. m -> A] : Turns(m, f)}
<1>1. 0 \in T
  <2>1. /\ [i \in 0 .. 0 |-> s] \in [0 .. 0 -> A]
        /\ Turns(0, [i \in 0 .. 0 |-> s])
    OBVIOUS
  <2>2. QED
    BY <2>1
<1>2. ASSUME NEW m \in T PROVE m + 1 \in T
  <2>1. PICK f \in [0 .. m -> A] : Turns(m, f)
    OBVIOUS
  <2> DEFINE g == [i \in 0 .. (m + 1) |-> IF i \in 0 .. m THEN f[i] ELSE G[f[m]]]
  <2>2. g \in [0 .. (m + 1) -> A]
    OBVIOUS
  <2>3. \A i \in 0 .. (m + 1) : g[i] = IF i = 0 THEN s ELSE G[g[i - 1]]
    <3>1. \A i \in 0 .. m : f[i] = IF i = 0 THEN s ELSE G[f[i - 1]]
      BY <2>1
    <3>2. QED
      BY <3>1
  <2>4. Turns(m + 1, g)
    BY <2>3
  <2> HIDE DEF Turns, g
  <2>5. QED
    BY <2>2, <2>4
<1> HIDE DEF T
<1>3. T = Nat
  BY <1>1, <1>2, SetInduction DEF T
<1>4. PICK f \in [0 .. n -> A] : Turns(n, f)
  BY <1>3 DEF T
<1>5. \A i \in 0 .. n : f[i] = IF i = 0 THEN s ELSE G[f[i - 1]]
  BY <1>4
<1>6. QED
  BY <1>5 DEF Turned

-----------------------------------------------------------------------------
(* Rows and columns: a place in the window is a row and a column in one    *)
(* way only.                                                               *)

LEMMA Sizes ==
  /\ ROW_STRIDE \in Nat \ {0} /\ Rows \in Nat \ {0} /\ TVRAM_CELLS \in Nat
  /\ TEXT_LIMIT \in Nat /\ LAST_ROW_ADDR \in Nat
  /\ TEXT_LIMIT = LAST_ROW_ADDR + ROW_STRIDE
  /\ TEXT_LIMIT < TVRAM_CELLS /\ TVRAM_CELLS < TEXT_LIMIT + ROW_STRIDE
BY WindowFits DEF TEXT_LIMIT, LAST_ROW_ADDR

LEMMA PlaceOf ==
  ASSUME NEW r \in 0 .. (Rows - 1), NEW c \in Column
  PROVE  /\ r * ROW_STRIDE + c \in 0 .. (TEXT_LIMIT - 1)
         /\ r * ROW_STRIDE + c \in Cell /\ c \in Nat
         /\ r * ROW_STRIDE \in 0 .. LAST_ROW_ADDR /\ r * ROW_STRIDE \in Nat
         /\ (r * ROW_STRIDE + c) \div ROW_STRIDE = r
         /\ (r * ROW_STRIDE + c) % ROW_STRIDE = c
         /\ (r + 1) * ROW_STRIDE = r * ROW_STRIDE + ROW_STRIDE
         /\ r = Rows - 1 => r * ROW_STRIDE = LAST_ROW_ADDR
         /\ r < Rows - 1 => r * ROW_STRIDE + ROW_STRIDE <= LAST_ROW_ADDR
<1>1. c < ROW_STRIDE /\ c \in Nat
  BY DEF Column
<1>2. r * ROW_STRIDE <= (Rows - 1) * ROW_STRIDE /\ r * ROW_STRIDE \in Nat
  OBVIOUS
<1>3. /\ (r * ROW_STRIDE + c) \div ROW_STRIDE = r
      /\ (r * ROW_STRIDE + c) % ROW_STRIDE = c
  BY <1>1
<1>4. (r + 1) * ROW_STRIDE = r * ROW_STRIDE + ROW_STRIDE
  OBVIOUS
<1>5. r < Rows - 1 => (r + 1) * ROW_STRIDE <= (Rows - 1) * ROW_STRIDE
  OBVIOUS
<1>6. r * ROW_STRIDE + c < TEXT_LIMIT /\ r * ROW_STRIDE + c \in Nat
  BY <1>1, <1>2, Sizes DEF LAST_ROW_ADDR
<1>7. r * ROW_STRIDE + c \in Cell
  BY <1>6, Sizes DEF Cell
<1>8. QED
  BY <1>1, <1>2, <1>3, <1>4, <1>5, <1>6, <1>7, Sizes DEF LAST_ROW_ADDR

LEMMA RowOf ==
  ASSUME NEW k \in 0 .. (TEXT_LIMIT - 1)
  PROVE  /\ k \div ROW_STRIDE \in 0 .. (Rows - 1)
         /\ k % ROW_STRIDE \in Column
         /\ k = (k \div ROW_STRIDE) * ROW_STRIDE + (k % ROW_STRIDE)
<1>1. k < Rows * ROW_STRIDE /\ k \in Nat
  BY DEF TEXT_LIMIT
<1>2. /\ k % ROW_STRIDE \in 0 .. (ROW_STRIDE - 1)
      /\ k = (k \div ROW_STRIDE) * ROW_STRIDE + (k % ROW_STRIDE)
      /\ k \div ROW_STRIDE \in Nat
  BY <1>1
<1>3. k \div ROW_STRIDE < Rows
  BY <1>1, <1>2
<1>4. QED
  BY <1>2, <1>3 DEF Column

LEMMA FirstPlace ==
  /\ 0 \in 0 .. (Rows - 1) /\ Rows - 1 \in 0 .. (Rows - 1) /\ 0 \in Column
  /\ 0 * ROW_STRIDE + 0 = 0 /\ (Rows - 1) * ROW_STRIDE + 0 = LAST_ROW_ADDR
BY DEF LAST_ROW_ADDR, Column

-----------------------------------------------------------------------------
(* Round the VRAM.                                                         *)

LEMMA WrapIs ==
  ASSUME NEW a \in 0 .. (2 * TVRAM_CELLS - 1)
  PROVE  Wrap(a) \in Cell /\ Wrap(a) = a % TVRAM_CELLS
BY Sizes DEF Wrap, Cell

LEMMA Round ==
  ASSUME NEW base \in Cell, NEW k \in Cell
  PROVE  At(base, k) \in Cell /\ Back(At(base, k), base) = k
BY Sizes DEF At, Wrap, Back, Cell

LEMMA Places ==
  ASSUME NEW base \in Cell, NEW a \in Cell
  PROVE  Back(a, base) \in Cell /\ At(base, Back(a, base)) = a
BY Sizes DEF At, Wrap, Back, Cell

LEMMA Ahead ==
  ASSUME NEW base \in Cell, NEW k \in Nat, NEW n \in Nat, k + n < TVRAM_CELLS
  PROVE  Wrap(At(base, k) + n) = At(base, k + n) /\ At(base, k) + n < 2 * TVRAM_CELLS
BY Sizes DEF At, Wrap, Cell

LEMMA Behind ==
  ASSUME NEW base \in Cell, NEW k \in Cell, NEW n \in 0 .. k
  PROVE  Back(At(base, k), n) = At(base, k - n)
BY Sizes DEF At, Wrap, Back, Cell

LEMMA Between ==
  ASSUME NEW base \in Cell, NEW j \in Cell, NEW k \in Cell
  PROVE  Back(At(base, k), At(base, j)) = IF k >= j THEN k - j ELSE k + TVRAM_CELLS - j
BY Sizes DEF At, Wrap, Back, Cell

-----------------------------------------------------------------------------
(* The cursor movements, as the row and the column they go to.             *)

Moved(s, r, c) ==
  [s EXCEPT !.addr = At(s.base, r * ROW_STRIDE + c), !.col = c]

LEMMA MovedStands ==
  ASSUME NEW s \in Screen, NEW r \in 0 .. (Rows - 1), NEW c \in Column
  PROVE  Stands(Moved(s, r, c), r, c)
<1>1. r * ROW_STRIDE + c \in Cell
  BY PlaceOf
<1>2. s.base \in Cell
  BY DEF Screen
<1>3. At(s.base, r * ROW_STRIDE + c) \in Cell
  BY <1>1, <1>2, Round
<1>4. QED
  BY <1>3 DEF Stands, Moved, Screen

LEMMA StandsAt ==
  ASSUME NEW s, NEW r, NEW c, Stands(s, r, c)
  PROVE  /\ s.base \in Cell /\ s.col = c
         /\ r \in 0 .. (Rows - 1) /\ c \in Column
         /\ r * ROW_STRIDE \in Nat /\ r * ROW_STRIDE + c < TEXT_LIMIT
         /\ s.addr = At(s.base, r * ROW_STRIDE + c)
         /\ cursor_relative(s) = r * ROW_STRIDE + c
         /\ cursor_line_start(s) = At(s.base, r * ROW_STRIDE)
<1>1. s.base \in Cell /\ s.col = c /\ r \in 0 .. (Rows - 1) /\ c \in Column
  BY DEF Stands, Screen
<1>2. r * ROW_STRIDE \in Nat /\ r * ROW_STRIDE + c < TEXT_LIMIT /\ c \in Nat
  BY <1>1, PlaceOf, Sizes DEF Column
<1>3. s.addr = At(s.base, r * ROW_STRIDE + c)
  BY DEF Stands
<1>4. r * ROW_STRIDE + c \in Cell /\ c \in 0 .. (r * ROW_STRIDE + c)
  BY <1>2, Sizes DEF Cell
<1>5. (r * ROW_STRIDE + c) - c = r * ROW_STRIDE
  BY <1>2
<1>6. QED
  BY <1>1, <1>2, <1>3, <1>4, <1>5, Round, Behind
     DEF cursor_relative, cursor_line_start

LEMMA AgreeIsOnGrid ==
  ASSUME NEW s \in Screen
  PROVE  Agree(s) <=> OnGrid(s)
<1>1. ASSUME Agree(s) PROVE OnGrid(s)
  <2> DEFINE k == cursor_relative(s)
  <2>1. s.base \in Cell /\ s.addr \in Cell
    BY DEF Screen
  <2>2. k \in 0 .. (TEXT_LIMIT - 1) /\ s.addr = At(s.base, k)
    <3>1. k \in Cell /\ s.addr = At(s.base, k) /\ k < TEXT_LIMIT
      BY <1>1, <2>1, Places DEF Agree, cursor_relative
    <3>2. QED
      BY <3>1, Sizes DEF Cell
  <2> HIDE DEF k
  <2>3. /\ k \div ROW_STRIDE \in 0 .. (Rows - 1)
        /\ s.col \in Column
        /\ k = (k \div ROW_STRIDE) * ROW_STRIDE + s.col
    BY <1>1, <2>2, RowOf DEF Agree, k
  <2>4. QED
    BY <2>2, <2>3 DEF OnGrid, Stands
<1>2. ASSUME OnGrid(s) PROVE Agree(s)
  <2>1. PICK r \in 0 .. (Rows - 1) : Stands(s, r, s.col)
    BY <1>2 DEF OnGrid
  <2>2. /\ cursor_relative(s) = r * ROW_STRIDE + s.col /\ s.col \in Column
        /\ r * ROW_STRIDE + s.col < TEXT_LIMIT
    BY <2>1, StandsAt
  <2>3. (r * ROW_STRIDE + s.col) % ROW_STRIDE = s.col
    BY <2>2, PlaceOf
  <2>4. QED
    BY <2>2, <2>3 DEF Agree
<1>3. QED
  BY <1>1, <1>2

LEMMA Coords ==
  ASSUME NEW p \in Nat, NEW size \in Nat \ {0}
  PROVE  Coord(p, size) \in 0 .. (size - 1)
BY DEF Coord, Least

LEMMA CountIsPos == ASSUME NEW p \in Nat PROVE Count(p) \in Nat \ {0}
BY DEF Count

LEMMA CrMoves ==
  ASSUME NEW s, NEW r, NEW c, Stands(s, r, c)
  PROVE  handle_cr(s) = Moved(s, r, 0)
<1>1. r * ROW_STRIDE + 0 = r * ROW_STRIDE
  BY StandsAt
<1>2. cursor_line_start(s) = At(s.base, r * ROW_STRIDE + 0)
  BY <1>1, StandsAt
<1>3. QED
  BY <1>2 DEF handle_cr, Moved

LEMMA PositionMoves ==
  ASSUME NEW s \in Screen, NEW p \in Nat, NEW q \in Nat
  PROVE  ansi_cursor_position(s, p, q) = Moved(s, Coord(p, Rows), Coord(q, ROW_STRIDE))
<1> DEFINE r == Coord(p, Rows)
           c == Coord(q, ROW_STRIDE)
<1>1. r \in 0 .. (Rows - 1) /\ c \in Column
  BY Coords DEF Column
<1> HIDE DEF r, c
<1>2. r * ROW_STRIDE + c \in Cell /\ r * ROW_STRIDE \in Nat /\ c \in Nat
  BY <1>1, PlaceOf
<1>3. s.base + (r * ROW_STRIDE + c) \in 0 .. (2 * TVRAM_CELLS - 1)
  <2>1. s.base \in Cell
    BY DEF Screen
  <2> DEFINE k == r * ROW_STRIDE + c
  <2>2. k \in Cell
    BY <1>2
  <2> HIDE DEF k
  <2>3. s.base + k \in 0 .. (2 * TVRAM_CELLS - 1)
    BY <2>1, <2>2, Sizes DEF Cell
  <2>4. QED
    BY <2>3 DEF k
<1>4. s.base + r * ROW_STRIDE + c = s.base + (r * ROW_STRIDE + c)
  <2>1. s.base \in Nat
    BY Sizes DEF Cell, Screen
  <2>2. QED
    BY <1>2, <2>1
<1>5. QED
  BY <1>3, <1>4, WrapIs DEF ansi_cursor_position, Moved, At, r, c

LEMMA ColumnMoves ==
  ASSUME NEW s, NEW r, NEW c, Stands(s, r, c), NEW p \in Nat
  PROVE  ansi_cursor_column(s, p) = Moved(s, r, Coord(p, ROW_STRIDE))
<1>1. Coord(p, ROW_STRIDE) \in Column
  BY Coords DEF Column
<1> DEFINE d == Coord(p, ROW_STRIDE)
<1> HIDE DEF d
<1>2. r * ROW_STRIDE + d < TVRAM_CELLS /\ r * ROW_STRIDE \in Nat /\ d \in Nat
  BY <1>1, StandsAt, PlaceOf, Sizes DEF d
<1>3. Wrap(cursor_line_start(s) + d) = At(s.base, r * ROW_STRIDE + d)
  BY <1>2, StandsAt, Ahead
<1>4. QED
  BY <1>3 DEF ansi_cursor_column, Moved, d

LEMMA UpMoves ==
  ASSUME NEW s, NEW r, NEW c, Stands(s, r, c), NEW p \in Nat
  PROVE  ansi_cursor_up(s, p) = Moved(s, r - Least(Count(p), r), c)
<1> DEFINE n == Least(Count(p), r)
<1>1. n \in 0 .. r
  BY CountIsPos, StandsAt, Sizes DEF Least
<1> HIDE DEF n
<1>2. cursor_relative(s) \div ROW_STRIDE = r
  BY StandsAt, PlaceOf
<1>3. /\ n * ROW_STRIDE \in 0 .. (r * ROW_STRIDE)
      /\ (r - n) * ROW_STRIDE = r * ROW_STRIDE - n * ROW_STRIDE
  <2>1. n \in Nat /\ r \in Nat /\ n <= r
    BY <1>1, StandsAt
  <2>2. QED
    BY <2>1, Sizes, FewerRows
<1>4. /\ r * ROW_STRIDE + c \in Cell /\ n * ROW_STRIDE \in 0 .. (r * ROW_STRIDE + c)
      /\ (r * ROW_STRIDE + c) - n * ROW_STRIDE = (r - n) * ROW_STRIDE + c
  BY <1>3, StandsAt, Sizes DEF Cell, Column
<1>5. Back(s.addr, n * ROW_STRIDE) = At(s.base, (r - n) * ROW_STRIDE + c)
  BY <1>4, StandsAt, Behind
<1>6. ansi_cursor_up(s, p) = [s EXCEPT !.addr = Back(s.addr, n * ROW_STRIDE)]
  BY <1>2 DEF ansi_cursor_up, n
<1>7. QED
  BY <1>5, <1>6, StandsAt DEF Moved, Stands, Screen, n

LEMMA DownMoves ==
  ASSUME NEW s, NEW r, NEW c, Stands(s, r, c), NEW p \in Nat
  PROVE  ansi_cursor_down(s, p) = Moved(s, Least(r + Count(p), Rows - 1), c)
<1> DEFINE rel == cursor_relative(s)
           turns == IF rel >= LAST_ROW_ADDR THEN 0
                    ELSE (LAST_ROW_ADDR - rel + ROW_STRIDE - 1) \div ROW_STRIDE
           n == Least(Count(p), turns)
<1>1. r \in 0 .. (Rows - 1) /\ c \in Column /\ rel = r * ROW_STRIDE + c
  BY StandsAt
<1>2. turns = Rows - 1 - r
  <2>1. CASE r = Rows - 1
    BY <1>1, <2>1, PlaceOf, Sizes DEF Column
  <2>2. CASE r < Rows - 1
    <3> DEFINE q == Rows - 1 - r
               rest == ROW_STRIDE - 1 - c
    <3>1. q \in Nat /\ rest \in 0 .. (ROW_STRIDE - 1)
      BY <1>1, <2>2 DEF Column
    <3>2. LAST_ROW_ADDR = r * ROW_STRIDE + q * ROW_STRIDE
      BY <1>1 DEF LAST_ROW_ADDR
    <3>3. r * ROW_STRIDE \in Nat /\ q * ROW_STRIDE \in Nat
      BY <1>1, <3>1
    <3>4. LAST_ROW_ADDR - rel + ROW_STRIDE - 1 = q * ROW_STRIDE + rest
      BY <1>1, <3>2, <3>3 DEF Column
    <3>5. rel < LAST_ROW_ADDR
      <4>1. r * ROW_STRIDE + ROW_STRIDE <= LAST_ROW_ADDR /\ r * ROW_STRIDE \in Nat
        BY <1>1, <2>2, PlaceOf
      <4>2. QED
        BY <1>1, <4>1, Sizes DEF Column
    <3> HIDE DEF q, rest
    <3>6. (q * ROW_STRIDE + rest) \div ROW_STRIDE = q
      BY <3>1
    <3>7. turns = (LAST_ROW_ADDR - rel + ROW_STRIDE - 1) \div ROW_STRIDE
      BY <1>1, <3>3, <3>5, Sizes DEF Column
    <3> HIDE DEF turns, rel
    <3>8. QED
      BY <3>4, <3>6, <3>7 DEF q
  <2>3. QED
    BY <1>1, <2>1, <2>2
<1> HIDE DEF turns
<1>3. n \in 0 .. (Rows - 1 - r) /\ r + n = Least(r + Count(p), Rows - 1)
  BY <1>1, <1>2, CountIsPos DEF Least
<1> HIDE DEF n
<1>4. (r + n) * ROW_STRIDE = r * ROW_STRIDE + n * ROW_STRIDE /\ n * ROW_STRIDE \in Nat
  BY <1>1, <1>3
<1>5. /\ (r * ROW_STRIDE + c) + n * ROW_STRIDE = (r + n) * ROW_STRIDE + c
      /\ r * ROW_STRIDE + c \in Nat
  BY <1>1, <1>4 DEF Column
<1>6. (r + n) * ROW_STRIDE + c < TVRAM_CELLS
  <2>1. r + n \in 0 .. (Rows - 1)
    BY <1>1, <1>3
  <2>2. (r + n) * ROW_STRIDE + c \in Cell
    BY <1>1, <2>1, PlaceOf
  <2>3. QED
    BY <2>2, Sizes DEF Cell
<1>7. Wrap(s.addr + n * ROW_STRIDE) = At(s.base, (r + n) * ROW_STRIDE + c)
  BY <1>4, <1>5, <1>6, StandsAt, Ahead
<1>8. ansi_cursor_down(s, p) = [s EXCEPT !.addr = Wrap(s.addr + n * ROW_STRIDE)]
  BY DEF ansi_cursor_down, n, turns
<1>9. QED
  BY <1>3, <1>7, <1>8, StandsAt DEF Moved, Stands, Screen

LEMMA RightMoves ==
  ASSUME NEW s, NEW r, NEW c, Stands(s, r, c), NEW p \in Nat
  PROVE  ansi_cursor_right(s, p) = Moved(s, r, Least(c + Count(p), ROW_STRIDE - 1))
<1> DEFINE n == Least(Count(p), ROW_STRIDE - 1 - c)
<1>1. /\ n \in Nat /\ c \in Nat /\ c + n = Least(c + Count(p), ROW_STRIDE - 1)
      /\ c + n \in Column
  BY StandsAt, CountIsPos DEF Least, Column
<1> HIDE DEF n
<1>2. (r * ROW_STRIDE + c) + n = r * ROW_STRIDE + (c + n)
  BY <1>1, StandsAt
<1>3. (r * ROW_STRIDE + c) + n < TVRAM_CELLS /\ r * ROW_STRIDE + c \in Nat
  <2>1. r * ROW_STRIDE + (c + n) \in Cell /\ r * ROW_STRIDE + c \in Cell
    BY <1>1, StandsAt, PlaceOf
  <2>2. QED
    BY <1>2, <2>1, Sizes DEF Cell
<1>4. Wrap(s.addr + n) = At(s.base, r * ROW_STRIDE + (c + n))
  BY <1>1, <1>2, <1>3, StandsAt, Ahead
<1>5. ansi_cursor_right(s, p) = [s EXCEPT !.col = c + n, !.addr = Wrap(s.addr + n)]
  BY StandsAt DEF ansi_cursor_right, n
<1>6. QED
  BY <1>1, <1>4, <1>5 DEF Moved, Stands, Screen

LEMMA LeftMoves ==
  ASSUME NEW s, NEW r, NEW c, Stands(s, r, c), NEW p \in Nat
  PROVE  ansi_cursor_left(s, p) = Moved(s, r, c - Least(Count(p), c))
<1> DEFINE n == Least(Count(p), c)
<1>1. n \in 0 .. c /\ c \in Nat
  BY StandsAt, CountIsPos DEF Least, Column
<1> HIDE DEF n
<1>2. /\ r * ROW_STRIDE + c \in Cell /\ n \in 0 .. (r * ROW_STRIDE + c)
      /\ (r * ROW_STRIDE + c) - n = r * ROW_STRIDE + (c - n)
  BY <1>1, StandsAt, Sizes DEF Cell
<1>3. Back(s.addr, n) = At(s.base, r * ROW_STRIDE + (c - n))
  BY <1>2, StandsAt, Behind
<1>4. ansi_cursor_left(s, p) = [s EXCEPT !.col = c - n, !.addr = Back(s.addr, n)]
  BY StandsAt DEF ansi_cursor_left, n
<1>5. QED
  BY <1>3, <1>4 DEF Moved, Stands, Screen, n

LEMMA BackIn ==
  ASSUME NEW s \in Screen, NEW r \in 0 .. (Rows - 1), NEW c \in Column,
         NEW k \in 0 .. (Rows - 1), NEW d \in Column
  PROVE  Moved(Moved(s, r, c), k, d) = Moved(s, k, d)
BY DEF Moved, Screen

-----------------------------------------------------------------------------
(* Writing and scrolling.                                                  *)

LEMMA BlankedIs ==
  ASSUME NEW t \in [Cell -> Glyph], NEW from, NEW n
  PROVE  Blanked(t, from, n) \in [Cell -> Glyph]
BY DEF Blanked

Place(s, a) == [s EXCEPT !.addr = a]

LEMMA ScrollStands ==
  ASSUME NEW s \in Screen
  PROVE  /\ scroll_one_line(s) \in Screen
         /\ s.col = 0 => Stands(scroll_one_line(s), Rows - 1, 0)
         /\ \A a : scroll_one_line(Place(s, a)) = scroll_one_line(s)
<1> DEFINE base == Wrap(s.base + ROW_STRIDE)
           line == Wrap(base + LAST_ROW_ADDR)
<1>1. s.base \in Cell
  BY DEF Screen
<1>2. s.base + ROW_STRIDE \in 0 .. (2 * TVRAM_CELLS - 1)
  BY <1>1, Sizes DEF Cell
<1>3. base \in Cell
  BY <1>2, WrapIs
<1> HIDE DEF base
<1>4. LAST_ROW_ADDR \in Cell
  BY Sizes DEF Cell
<1>5. line \in Cell /\ line = At(base, LAST_ROW_ADDR)
  BY <1>3, <1>4, Round DEF At
<1>6. scroll_one_line(s) = [s EXCEPT !.base = base, !.addr = line,
                              !.tvram = Blanked(s.tvram, line, ROW_STRIDE)]
  BY DEF scroll_one_line, base
<1>7. Blanked(s.tvram, line, ROW_STRIDE) \in [Cell -> Glyph]
  BY BlankedIs DEF Screen
<1> HIDE DEF line
<1>8. scroll_one_line(s) \in Screen
  BY <1>3, <1>5, <1>6, <1>7 DEF Screen
<1>9. s.col = 0 => Stands(scroll_one_line(s), Rows - 1, 0)
  <2>1. scroll_one_line(s).addr = At(base, (Rows - 1) * ROW_STRIDE + 0)
    BY <1>5, <1>6, FirstPlace DEF Screen
  <2>2. QED
    BY <1>6, <1>8, <2>1, FirstPlace DEF Stands, Screen
<1>10. \A a : scroll_one_line(Place(s, a)) = scroll_one_line(s)
  BY DEF scroll_one_line, Place, Screen
<1>11. QED
  BY <1>8, <1>9, <1>10

LEMMA NormalizeStays ==
  ASSUME NEW s \in Screen, NEW hl \in 0 .. (2 * TVRAM_CELLS - 1)
  PROVE  normalize_cursor(s, hl) \in Screen
<1>1. Place(s, Wrap(hl)) \in Screen
  BY WrapIs DEF Place, Screen
<1>2. QED
  BY <1>1, ScrollStands DEF normalize_cursor, Place

LEMMA NormalizeMoves ==
  ASSUME NEW s \in Screen, NEW k \in Cell, NEW hl, Wrap(hl) = At(s.base, k)
  PROVE  normalize_cursor(s, hl) =
           IF k < TEXT_LIMIT THEN Place(s, At(s.base, k)) ELSE scroll_one_line(s)
<1> DEFINE t == Place(s, Wrap(hl))
<1>1. s.base \in Cell /\ t.base = s.base /\ t.addr = At(s.base, k)
  BY DEF Screen, Place
<1>2. cursor_relative(t) = k
  BY <1>1, Round DEF cursor_relative
<1>3. normalize_cursor(s, hl) =
        IF cursor_relative(t) < TEXT_LIMIT THEN t ELSE scroll_one_line(t)
  BY DEF normalize_cursor, Place
<1>4. scroll_one_line(t) = scroll_one_line(s)
  BY ScrollStands
<1>5. QED
  BY <1>2, <1>3, <1>4

(* The place after (r, c), or below it, may be the first of a row below    *)
(* the screen.                                                             *)
LEMMA LfMoves ==
  ASSUME NEW s, NEW r, NEW c, Stands(s, r, c), r < Rows - 1 \/ c = 0
  PROVE  handle_lf(s) = IF r < Rows - 1 THEN Moved(s, r + 1, c) ELSE scroll_one_line(s)
<1> DEFINE k == r * ROW_STRIDE + c
<1>1. /\ s \in Screen /\ s.base \in Cell /\ s.addr = At(s.base, k)
      /\ r \in 0 .. (Rows - 1) /\ c \in Column /\ s.col = c
  BY StandsAt DEF Stands
<1>2. k + ROW_STRIDE < TVRAM_CELLS /\ k \in Nat
  BY <1>1, PlaceOf, Sizes DEF Column
<1>3. k + ROW_STRIDE = (r + 1) * ROW_STRIDE + c
  BY <1>1, PlaceOf
<1> HIDE DEF k
<1>4. Wrap(s.addr + ROW_STRIDE) = At(s.base, k + ROW_STRIDE) /\ k + ROW_STRIDE \in Cell
  BY <1>1, <1>2, Ahead, Sizes DEF Cell
<1>5. k + ROW_STRIDE < TEXT_LIMIT <=> r < Rows - 1
  BY <1>1, PlaceOf, Sizes DEF k, Column
<1>6. handle_lf(s) =
        IF r < Rows - 1 THEN Place(s, At(s.base, k + ROW_STRIDE)) ELSE scroll_one_line(s)
  BY <1>1, <1>4, <1>5, NormalizeMoves DEF handle_lf
<1>7. QED
  BY <1>1, <1>3, <1>6 DEF Place, Moved, Screen

Put(s, g) == [s EXCEPT !.tvram[s.addr] = g]

LEMMA PutStands ==
  ASSUME NEW s, NEW r, NEW c, Stands(s, r, c), NEW g \in Glyph
  PROVE  Stands(Put(s, g), r, c)
BY DEF Stands, Put, Screen

LEMMA WriteMoves ==
  ASSUME NEW s, NEW r, NEW c, Stands(s, r, c), NEW g \in Glyph
  PROVE  write_char(s, g) =
           IF c + 1 < ROW_STRIDE THEN Moved(Put(s, g), r, c + 1)
           ELSE IF r < Rows - 1 THEN Moved(Put(s, g), r + 1, 0)
           ELSE scroll_one_line(Moved(Put(s, g), r, 0))
<1> DEFINE t == Put(s, g)
           k == r * ROW_STRIDE + c
           d == IF c + 1 < ROW_STRIDE THEN c + 1 ELSE 0
           u == [t EXCEPT !.col = d]
<1>1. /\ t \in Screen /\ t.base \in Cell /\ t.addr = At(t.base, k) /\ t.col = c
      /\ r \in 0 .. (Rows - 1) /\ c \in Column /\ d \in Column
  <2>1. Stands(t, r, c)
    BY PutStands
  <2> HIDE DEF t
  <2>2. t \in Screen /\ t.base \in Cell /\ t.addr = At(t.base, k) /\ t.col = c
    BY <2>1, StandsAt DEF Stands
  <2>3. r \in 0 .. (Rows - 1) /\ c \in Column
    BY StandsAt
  <2>4. d \in Column
    BY <2>3 DEF Column
  <2>5. QED
    BY <2>2, <2>3, <2>4
<1>2. k + 1 < TVRAM_CELLS /\ k \in Nat /\ k + 1 \in Cell /\ k + 1 <= TEXT_LIMIT
  <2>1. k \in 0 .. (TEXT_LIMIT - 1)
    BY <1>1, PlaceOf
  <2> HIDE DEF k
  <2>2. QED
    BY <2>1, Sizes DEF Cell
<1>3. c + 1 >= ROW_STRIDE => k + 1 = (r + 1) * ROW_STRIDE + 0
  BY <1>1, PlaceOf DEF Column
<1>4. c + 1 < ROW_STRIDE => k + 1 = r * ROW_STRIDE + (c + 1) /\ k + 1 < TEXT_LIMIT
  BY <1>1, PlaceOf, Sizes DEF Column
<1>5. c + 1 >= ROW_STRIDE => (k + 1 < TEXT_LIMIT <=> r < Rows - 1)
  BY <1>1, <1>3, PlaceOf, Sizes DEF Column
<1> HIDE DEF k, d, t
<1>6. u \in Screen /\ u.base = t.base
  BY <1>1 DEF Screen
<1>7. Wrap(t.addr + 1) = At(u.base, k + 1)
  BY <1>1, <1>2, <1>6, Ahead
<1>8. write_char(s, g) =
        IF k + 1 < TEXT_LIMIT THEN Place(u, At(u.base, k + 1)) ELSE scroll_one_line(u)
  <2>1. write_char(s, g) = normalize_cursor(u, t.addr + 1)
    BY <1>1 DEF write_char, advance_cursor, d, t, Put
  <2>2. QED
    BY <1>2, <1>6, <1>7, <2>1, NormalizeMoves
<1>9. CASE c + 1 < ROW_STRIDE
  BY <1>1, <1>4, <1>6, <1>8, <1>9 DEF Moved, Place, d, Screen, t
<1>10. CASE c + 1 >= ROW_STRIDE /\ r < Rows - 1
  <2>1. ~(c + 1 < ROW_STRIDE) /\ d = 0
    BY <1>1, <1>10 DEF d, Column
  <2>2. write_char(s, g) = Place(u, At(t.base, (r + 1) * ROW_STRIDE + 0))
    BY <1>3, <1>5, <1>6, <1>8, <1>10
  <2>3. Place(u, At(t.base, (r + 1) * ROW_STRIDE + 0)) = Moved(t, r + 1, 0)
    BY <1>1, <2>1 DEF Moved, Place, Screen
  <2>4. QED
    BY <1>10, <2>1, <2>2, <2>3 DEF t
<1>11. CASE c + 1 >= ROW_STRIDE /\ r = Rows - 1
  <2>0. ~(c + 1 < ROW_STRIDE) /\ d = 0
    BY <1>1, <1>11 DEF d, Column
  <2>1. Moved(t, r, 0) = Place(u, At(t.base, r * ROW_STRIDE + 0))
    BY <1>1, <2>0 DEF Moved, Place, Screen
  <2>2. scroll_one_line(Moved(t, r, 0)) = scroll_one_line(u)
    BY <1>6, <2>1, ScrollStands
  <2>3. QED
    BY <1>1, <1>5, <1>8, <1>11, <2>0, <2>2 DEF t
<1>12. QED
  BY <1>1, <1>9, <1>10, <1>11 DEF Column

LEMMA BsMoves ==
  ASSUME NEW s, NEW r, NEW c, Stands(s, r, c), c # 0
  PROVE  handle_bs(s) = Put(Moved(s, r, c - 1), Blank)
<1>1. /\ s \in Screen /\ s.base \in Cell /\ s.addr = At(s.base, r * ROW_STRIDE + c)
      /\ r \in 0 .. (Rows - 1) /\ c \in Column /\ s.col = c
  BY StandsAt DEF Stands
<1>2. /\ r * ROW_STRIDE + c \in Cell /\ 1 \in 0 .. (r * ROW_STRIDE + c)
      /\ (r * ROW_STRIDE + c) - 1 = r * ROW_STRIDE + (c - 1)
  BY <1>1, PlaceOf DEF Column
<1>3. Back(s.addr, 1) = At(s.base, r * ROW_STRIDE + (c - 1))
  BY <1>1, <1>2, Behind
<1>4. QED
  BY <1>1, <1>3 DEF handle_bs, Put, Moved, Screen

-----------------------------------------------------------------------------
(* Whether the cursor is true or not, nothing leaves the VRAM.             *)

LEMMA SumInTwo ==
  ASSUME NEW a \in Cell, NEW n \in 0 .. TVRAM_CELLS
  PROVE  a + n \in 0 .. (2 * TVRAM_CELLS - 1)
BY Sizes DEF Cell

LEMMA BackStays ==
  ASSUME NEW a \in Cell, NEW n \in 0 .. TVRAM_CELLS
  PROVE  Back(a, n) \in Cell
BY Sizes DEF Back, Cell

LEMMA WriteStays ==
  ASSUME NEW s \in Screen, NEW g \in Glyph
  PROVE  write_char(s, g) \in Screen
<1> DEFINE d == IF s.col + 1 < ROW_STRIDE THEN s.col + 1 ELSE 0
           u == [Put(s, g) EXCEPT !.col = d]
<1>1. u \in Screen
  <2>1. d \in Column
    BY DEF Screen, Column
  <2> HIDE DEF d
  <2>2. QED
    BY <2>1 DEF Put, Screen
<1>2. s.addr + 1 \in 0 .. (2 * TVRAM_CELLS - 1)
  BY Sizes DEF Screen, Cell
<1>3. write_char(s, g) = normalize_cursor(u, s.addr + 1)
  BY DEF write_char, advance_cursor, Put, Screen
<1> HIDE DEF u
<1>4. QED
  BY <1>1, <1>2, <1>3, NormalizeStays

LEMMA LfStays ==
  ASSUME NEW s \in Screen
  PROVE  handle_lf(s) \in Screen
BY NormalizeStays, Sizes DEF handle_lf, Screen, Cell

LEMMA CrStays ==
  ASSUME NEW s \in Screen
  PROVE  cursor_line_start(s) \in Cell /\ handle_cr(s) \in Screen
<1>1. s.addr \in Cell /\ s.col \in 0 .. TVRAM_CELLS
  BY Sizes DEF Screen, Cell, Column
<1>2. cursor_line_start(s) \in Cell
  BY <1>1, BackStays DEF cursor_line_start
<1>3. QED
  BY <1>2, FirstPlace DEF handle_cr, Screen

LEMMA BsStays ==
  ASSUME NEW s \in Screen
  PROVE  handle_bs(s) \in Screen
<1>1. CASE s.col = 0
  BY <1>1 DEF handle_bs
<1>2. CASE s.col # 0
  <2>1. Back(s.addr, 1) \in Cell
    BY BackStays, Sizes DEF Screen
  <2>2. s.col - 1 \in Column
    BY <1>2 DEF Screen, Column
  <2>3. QED
    BY <1>2, <2>1, <2>2 DEF handle_bs, Screen
<1>3. QED
  BY <1>1, <1>2

LEMMA UpStays ==
  ASSUME NEW s \in Screen, NEW p \in Nat
  PROVE  ansi_cursor_up(s, p) \in Screen
<1> DEFINE rel == cursor_relative(s)
           q == rel \div ROW_STRIDE
           n == Least(Count(p), q)
<1>1. rel \in Cell /\ s.addr \in Cell
  BY Places DEF Screen, cursor_relative
<1> HIDE DEF rel
<1>2. rel \in Nat /\ rel < TVRAM_CELLS
  BY <1>1, Sizes DEF Cell
<1>3. q \in Nat /\ q * ROW_STRIDE <= rel
  BY <1>2
<1> HIDE DEF q
<1>4. n \in 0 .. q
  BY <1>3, CountIsPos DEF Least
<1> HIDE DEF n
<1>5. n * ROW_STRIDE \in Nat /\ n * ROW_STRIDE <= q * ROW_STRIDE
  BY <1>3, <1>4
<1>6. Back(s.addr, n * ROW_STRIDE) \in Cell
  <2> DEFINE m == n * ROW_STRIDE
             l == q * ROW_STRIDE
  <2>1. m \in Nat /\ m <= l /\ l <= rel /\ l \in Int
    BY <1>3, <1>5
  <2> HIDE DEF m, l
  <2>2. m \in 0 .. TVRAM_CELLS
    BY <1>2, <2>1, Sizes
  <2>3. QED
    BY <1>1, <2>2, BackStays DEF m
<1>7. QED
  BY <1>6 DEF ansi_cursor_up, Screen, n, q, rel

LEMMA DownStays ==
  ASSUME NEW s \in Screen, NEW p \in Nat
  PROVE  ansi_cursor_down(s, p) \in Screen
<1> DEFINE rel == cursor_relative(s)
           rest == LAST_ROW_ADDR - rel + ROW_STRIDE - 1
           turns == IF rel >= LAST_ROW_ADDR THEN 0 ELSE rest \div ROW_STRIDE
           n == Least(Count(p), turns)
<1>1. rel \in Cell /\ s.addr \in Cell
  BY Places DEF Screen, cursor_relative
<1>2. ansi_cursor_down(s, p) = [s EXCEPT !.addr = Wrap(s.addr + n * ROW_STRIDE)]
  BY DEF ansi_cursor_down
<1> HIDE DEF rel
<1>3. rel < LAST_ROW_ADDR => rest \in 0 .. TVRAM_CELLS
  BY <1>1, Sizes DEF Cell
<1> HIDE DEF rest
<1>4. turns \in Nat /\ turns * ROW_STRIDE <= TVRAM_CELLS
  <2>1. CASE rel >= LAST_ROW_ADDR
    BY <2>1, Sizes
  <2>2. CASE ~(rel >= LAST_ROW_ADDR)
    <3>1. rest \in Nat /\ rest <= TVRAM_CELLS
      BY <1>1, <1>3, <2>2, Sizes DEF Cell
    <3>2. rest \div ROW_STRIDE \in Nat /\ (rest \div ROW_STRIDE) * ROW_STRIDE <= rest
      BY <3>1
    <3>3. QED
      BY <2>2, <3>1, <3>2, Sizes
  <2>3. QED
    BY <2>1, <2>2
<1> HIDE DEF turns
<1>5. n \in 0 .. turns
  BY <1>4, CountIsPos DEF Least
<1> HIDE DEF n
<1>6. n * ROW_STRIDE \in Nat /\ n * ROW_STRIDE <= turns * ROW_STRIDE
  BY <1>4, <1>5
<1>7. n * ROW_STRIDE \in 0 .. TVRAM_CELLS
  <2> DEFINE m == n * ROW_STRIDE
             l == turns * ROW_STRIDE
  <2>1. m \in Nat /\ m <= l /\ l <= TVRAM_CELLS /\ l \in Int
    BY <1>4, <1>6
  <2> HIDE DEF m, l
  <2>2. m \in 0 .. TVRAM_CELLS
    BY <2>1, Sizes
  <2>3. QED
    BY <2>2 DEF m
<1>8. Wrap(s.addr + n * ROW_STRIDE) \in Cell
  BY <1>1, <1>7, SumInTwo, WrapIs
<1>9. QED
  BY <1>2, <1>8 DEF Screen

LEMMA MovesStay ==
  ASSUME NEW s \in Screen, NEW p \in Nat, NEW q \in Nat
  PROVE  /\ ansi_cursor_position(s, p, q) \in Screen
         /\ ansi_cursor_column(s, p) \in Screen
         /\ ansi_cursor_right(s, p) \in Screen
         /\ ansi_cursor_left(s, p) \in Screen
         /\ ansi_cursor_prev_line(s, p) \in Screen
         /\ ansi_erase_display(s, p) \in Screen
         /\ ansi_erase_line(s, p) \in Screen
<1>1. /\ s.addr \in Cell /\ s.col \in Column /\ s.col \in Nat /\ s.col < ROW_STRIDE
      /\ s.tvram \in [Cell -> Glyph]
  BY DEF Screen, Column
<1>2. \A n \in 0 .. ROW_STRIDE : n \in 0 .. TVRAM_CELLS
  BY Sizes
<1>3. ansi_cursor_position(s, p, q) \in Screen
  <2>1. Coord(p, Rows) \in 0 .. (Rows - 1) /\ Coord(q, ROW_STRIDE) \in Column
    BY Coords DEF Column
  <2>2. QED
    BY <2>1, PositionMoves, MovedStands DEF Stands
<1>4. ansi_cursor_column(s, p) \in Screen
  <2>1. Coord(p, ROW_STRIDE) \in Column /\ Coord(p, ROW_STRIDE) \in 0 .. ROW_STRIDE
    BY Coords DEF Column
  <2>2. Wrap(cursor_line_start(s) + Coord(p, ROW_STRIDE)) \in Cell
    BY <1>2, <2>1, CrStays, SumInTwo, WrapIs
  <2>3. QED
    BY <2>1, <2>2 DEF ansi_cursor_column, Screen
<1>5. ansi_cursor_right(s, p) \in Screen
  <2> DEFINE n == Least(Count(p), ROW_STRIDE - 1 - s.col)
  <2>1. n \in 0 .. ROW_STRIDE /\ s.col + n \in Column
    BY <1>1, CountIsPos DEF Least, Column
  <2> HIDE DEF n
  <2>2. Wrap(s.addr + n) \in Cell
    BY <1>1, <1>2, <2>1, SumInTwo, WrapIs
  <2>3. QED
    BY <2>1, <2>2 DEF ansi_cursor_right, Screen, n
<1>6. ansi_cursor_left(s, p) \in Screen
  <2> DEFINE n == Least(Count(p), s.col)
  <2>1. n \in 0 .. ROW_STRIDE /\ s.col - n \in Column
    BY <1>1, CountIsPos DEF Least, Column
  <2> HIDE DEF n
  <2>2. Back(s.addr, n) \in Cell
    BY <1>1, <1>2, <2>1, BackStays
  <2>3. QED
    BY <2>1, <2>2 DEF ansi_cursor_left, Screen, n
<1>7. ansi_cursor_prev_line(s, p) \in Screen
  BY CrStays, UpStays DEF ansi_cursor_prev_line
<1>8. ansi_erase_display(s, p) \in Screen /\ ansi_erase_line(s, p) \in Screen
  <2>1. \A from, n : [s EXCEPT !.tvram = Blanked(s.tvram, from, n)] \in Screen
    BY <1>1, BlankedIs DEF Screen
  <2>2. QED
    BY <2>1 DEF ansi_erase_display, ansi_erase_line
<1>9. QED
  BY <1>3, <1>4, <1>5, <1>6, <1>7, <1>8

-----------------------------------------------------------------------------
(* The two loops, turn by turn.                                            *)

TabTurns(s) == TAB_STOP - (s.col % TAB_STOP)

LEMMA TabCount ==
  ASSUME NEW s \in Screen
  PROVE  /\ TabTurns(s) \in Nat \ {0}
         /\ s.col + TabTurns(s) <= ROW_STRIDE
<1> DEFINE c == s.col
           q == c \div TAB_STOP
           m == ROW_STRIDE \div TAB_STOP
<1>1. TAB_STOP \in Nat \ {0} /\ ROW_STRIDE % TAB_STOP = 0
  BY TabDividesRow
<1>2. c \in Nat /\ c < ROW_STRIDE
  BY DEF Screen, Column
<1> HIDE DEF c
<1>3. /\ q \in Nat /\ c = TAB_STOP * q + (c % TAB_STOP)
      /\ c % TAB_STOP \in 0 .. (TAB_STOP - 1)
  BY <1>1, <1>2
<1>4. m \in Nat /\ ROW_STRIDE = TAB_STOP * m
  BY <1>1
<1> HIDE DEF q, m
<1>5. q < m
  BY <1>1, <1>2, <1>3, <1>4
<1>6. TAB_STOP * q + TAB_STOP <= TAB_STOP * m
  BY <1>1, <1>3, <1>4, <1>5
<1>7. TAB_STOP * q \in Nat
  BY <1>1, <1>3
<1> DEFINE l == TAB_STOP * q
           d == c % TAB_STOP
<1>8. l \in Nat /\ c = l + d /\ l + TAB_STOP <= ROW_STRIDE /\ d \in 0 .. (TAB_STOP - 1)
  BY <1>3, <1>4, <1>6, <1>7
<1>9. TabTurns(s) = TAB_STOP - d
  BY DEF TabTurns, c
<1> HIDE DEF l, d
<1>10. QED
  BY <1>1, <1>8, <1>9 DEF c

LEMMA TabByTurns ==
  ASSUME NEW s \in Screen
  PROVE  \E f : /\ f[0] = s
                /\ handle_tab(s) = f[TabTurns(s)]
                /\ \A i \in 0 .. (TabTurns(s) - 1) : f[i + 1] = write_char(f[i], Blank)
<1> DEFINE n == TabTurns(s)
           Turns(f) ==
             f = [i \in 0 .. n |-> IF i = 0 THEN s ELSE write_char(f[i - 1], Blank)]
           f == CHOOSE f : Turns(f)
           G == [t \in Screen |-> write_char(t, Blank)]
<1>1. handle_tab(s) = f[n]
  BY DEF handle_tab, Repeated, TabTurns
<1>2. n \in Nat
  BY TabCount
<1> HIDE DEF n
<1>3. G \in [Screen -> Screen]
  BY WriteStays
<1>4. \E g : Turns(g)
  <2> HIDE DEF G
  <2>1. PICK g \in [0 .. n -> Screen] : Turned(g, G, s, n)
    BY <1>2, <1>3, TurnsExist
  <2>2. \A i \in 0 .. n : i # 0 => g[i - 1] \in Screen
    BY <1>2
  <2>3. \A i \in 0 .. n : i # 0 => G[g[i - 1]] = write_char(g[i - 1], Blank)
    BY <2>2 DEF G
  <2>4. g = [i \in 0 .. n |-> IF i = 0 THEN s ELSE write_char(g[i - 1], Blank)]
    BY <2>1, <2>3 DEF Turned
  <2>5. QED
    BY <2>4, ZenonT(30)
<1>5. Turns(f)
  BY <1>4
<1> HIDE DEF f
<1>6. \A i \in 0 .. n : f[i] = IF i = 0 THEN s ELSE write_char(f[i - 1], Blank)
  BY <1>5
<1>7. f[0] = s /\ \A i \in 0 .. (n - 1) : f[i + 1] = write_char(f[i], Blank)
  BY <1>2, <1>6
<1>8. QED
  BY <1>1, <1>7 DEF n

LEMMA NextLineByTurns ==
  ASSUME NEW s \in Screen, NEW p \in Nat
  PROVE  \E f : /\ f[0] = handle_cr(s)
                /\ ansi_cursor_next_line(s, p) = f[Count(p)]
                /\ \A i \in 0 .. (Count(p) - 1) : f[i + 1] = handle_lf(f[i])
<1> DEFINE n == Count(p)
           u == handle_cr(s)
           Turns(f) == f = [i \in 0 .. n |-> IF i = 0 THEN u ELSE handle_lf(f[i - 1])]
           f == CHOOSE f : Turns(f)
           G == [t \in Screen |-> handle_lf(t)]
<1>1. ansi_cursor_next_line(s, p) = f[n]
  BY DEF ansi_cursor_next_line, Repeated
<1>2. n \in Nat /\ u \in Screen
  BY CountIsPos, CrStays
<1> HIDE DEF n, u
<1>3. G \in [Screen -> Screen]
  BY LfStays
<1>4. \E g : Turns(g)
  <2> HIDE DEF G
  <2>1. PICK g \in [0 .. n -> Screen] : Turned(g, G, u, n)
    BY <1>2, <1>3, TurnsExist
  <2>2. \A i \in 0 .. n : i # 0 => g[i - 1] \in Screen
    BY <1>2
  <2>3. \A i \in 0 .. n : i # 0 => G[g[i - 1]] = handle_lf(g[i - 1])
    BY <2>2 DEF G
  <2>4. g = [i \in 0 .. n |-> IF i = 0 THEN u ELSE handle_lf(g[i - 1])]
    BY <2>1, <2>3 DEF Turned
  <2>5. QED
    BY <2>4, ZenonT(30)
<1>5. Turns(f)
  BY <1>4
<1> HIDE DEF f
<1>6. \A i \in 0 .. n : f[i] = IF i = 0 THEN u ELSE handle_lf(f[i - 1])
  BY <1>5
<1>7. f[0] = u /\ \A i \in 0 .. (n - 1) : f[i + 1] = handle_lf(f[i])
  BY <1>2, <1>6
<1>8. QED
  BY <1>1, <1>7 DEF n, u

-----------------------------------------------------------------------------
(* What the control functions do to the text the window shows.             *)

Row == 0 .. (Rows - 1)

Text(s) ==
  [r \in Row |-> [c \in Column |->
     s.tvram[(s.base + r * ROW_STRIDE + c) % TVRAM_CELLS]]]

BlankRow == [c \in Column |-> Blank]

LiftedBy(g, n) == [r \in Row |-> IF r + n \in Row THEN g[r + n] ELSE BlankRow]

Wrote(g, r, c, n, x) ==
  [g EXCEPT ![r] = [d \in Column |-> IF d \in c .. (c + n - 1) THEN x ELSE @[d]]]

(* The places from j to k, both included. *)
Wiped(g, j, k) ==
  [r \in Row |-> [c \in Column |->
     IF r * ROW_STRIDE + c \in j .. k THEN Blank ELSE g[r][c]]]

LEMMA TextIs ==
  ASSUME NEW s \in Screen
  PROVE  /\ Text(s) = [r \in Row |-> [c \in Column |->
                         s.tvram[At(s.base, r * ROW_STRIDE + c)]]]
         /\ Text(s) \in [Row -> [Column -> Glyph]]
<1>1. ASSUME NEW r \in Row, NEW c \in Column
      PROVE  /\ (s.base + r * ROW_STRIDE + c) % TVRAM_CELLS = At(s.base, r * ROW_STRIDE + c)
             /\ At(s.base, r * ROW_STRIDE + c) \in Cell
  <2> DEFINE k == r * ROW_STRIDE + c
  <2>1. k \in Cell /\ r * ROW_STRIDE \in Nat /\ c \in Nat /\ s.base \in Cell
    BY PlaceOf DEF Row, Screen
  <2>2. s.base + r * ROW_STRIDE + c = s.base + k
    BY <2>1, Sizes DEF Cell
  <2> HIDE DEF k
  <2>3. s.base + k \in 0 .. (2 * TVRAM_CELLS - 1)
    BY <2>1, Sizes DEF Cell
  <2>4. QED
    BY <2>2, <2>3, WrapIs DEF At, k
<1>2. s.tvram \in [Cell -> Glyph]
  BY DEF Screen
<1>3. QED
  BY <1>1, <1>2 DEF Text

LEMMA TextAt ==
  ASSUME NEW s \in Screen, NEW r \in Row, NEW c \in Column
  PROVE  Text(s)[r][c] = s.tvram[At(s.base, r * ROW_STRIDE + c)]
BY TextIs

LEMMA TextKept ==
  ASSUME NEW s, NEW t, t.base = s.base, t.tvram = s.tvram
  PROVE  Text(t) = Text(s)
BY DEF Text

LEMMA TextMoved ==
  ASSUME NEW s \in Screen, NEW r, NEW c
  PROVE  Text(Moved(s, r, c)) = Text(s)
BY TextKept DEF Moved, Screen

LEMMA OnePlace ==
  ASSUME NEW base \in Cell, NEW r \in Row, NEW c \in Column, NEW k \in Row, NEW d \in Column,
         At(base, r * ROW_STRIDE + c) = At(base, k * ROW_STRIDE + d)
  PROVE  r = k /\ c = d
<1>1. r * ROW_STRIDE + c \in Cell /\ k * ROW_STRIDE + d \in Cell
  BY PlaceOf DEF Row
<1>2. r * ROW_STRIDE + c = k * ROW_STRIDE + d
  BY <1>1, Round
<1>3. /\ (r * ROW_STRIDE + c) \div ROW_STRIDE = r
      /\ (r * ROW_STRIDE + c) % ROW_STRIDE = c
  BY PlaceOf DEF Row
<1>4. /\ (k * ROW_STRIDE + d) \div ROW_STRIDE = k
      /\ (k * ROW_STRIDE + d) % ROW_STRIDE = d
  BY PlaceOf DEF Row
<1>5. QED
  BY <1>2, <1>3, <1>4

LEMMA TextPut ==
  ASSUME NEW s, NEW r, NEW c, Stands(s, r, c), NEW x \in Glyph
  PROVE  Text(Put(s, x)) = Wrote(Text(s), r, c, 1, x)
<1> DEFINE t == Put(s, x)
           w == Wrote(Text(s), r, c, 1, x)
<1>1. /\ s \in Screen /\ t \in Screen /\ r \in Row /\ c \in Column /\ c \in Nat
      /\ s.base \in Cell /\ t.base = s.base
      /\ s.addr = At(s.base, r * ROW_STRIDE + c) /\ s.addr \in Cell
      /\ s.tvram \in [Cell -> Glyph] /\ t.tvram = [s.tvram EXCEPT ![s.addr] = x]
  BY StandsAt, PutStands DEF Stands, Row, Put, Screen, Column
<1> HIDE DEF t
<1>2. Text(s) \in [Row -> [Column -> Glyph]] /\ Text(t) \in [Row -> [Column -> Glyph]]
  BY <1>1, TextIs
<1>3. w \in [Row -> [Column -> Glyph]]
  BY <1>1, <1>2 DEF Wrote
<1>4. ASSUME NEW k \in Row, NEW d \in Column
      PROVE  Text(t)[k][d] = w[k][d]
  <2> DEFINE a == At(s.base, k * ROW_STRIDE + d)
  <2>1. a \in Cell
    BY <1>1, PlaceOf, Round DEF Row
  <2>2. Text(t)[k][d] = t.tvram[a] /\ Text(s)[k][d] = s.tvram[a]
    <3>1. t \in Screen /\ s \in Screen /\ t.base = s.base
      BY <1>1
    <3>2. QED
      BY ONLY <3>1, TextAt, k \in Row, d \in Column
  <2>3. a = s.addr <=> k = r /\ d = c
    BY <1>1, OnePlace
  <2>4. w[k][d] = IF k = r /\ d = c THEN x ELSE Text(s)[k][d]
    <3>1. \A e \in Column : e \in c .. (c + 1 - 1) <=> e = c
      BY <1>1 DEF Column
    <3>2. QED
      BY <1>1, <1>2, <3>1 DEF Wrote
  <2> HIDE DEF a, w
  <2>5. QED
    BY <1>1, <2>1, <2>2, <2>3, <2>4
<1> HIDE DEF w
<1>5. \A k \in Row : Text(t)[k] = w[k]
  BY <1>2, <1>3, <1>4
<1>6. QED
  BY <1>2, <1>3, <1>5 DEF t, w

LEMMA TextScroll ==
  ASSUME NEW s \in Screen
  PROVE  Text(scroll_one_line(s)) = LiftedBy(Text(s), 1)
<1> DEFINE b == Wrap(s.base + ROW_STRIDE)
           line == Wrap(b + LAST_ROW_ADDR)
           t == scroll_one_line(s)
<1>1. s.base \in Cell /\ s.tvram \in [Cell -> Glyph] /\ t \in Screen
  BY ScrollStands DEF Screen
<1>2. b \in Cell /\ b = At(s.base, ROW_STRIDE)
  <2>1. ROW_STRIDE \in Cell
    BY Sizes DEF Cell
  <2>2. QED
    BY <1>1, <2>1, Round DEF At
<1>3. t.base = b /\ t.tvram = Blanked(s.tvram, line, ROW_STRIDE)
  BY DEF scroll_one_line, Screen
<1> HIDE DEF b, t
<1>4. line = At(b, LAST_ROW_ADDR) /\ LAST_ROW_ADDR \in Cell
  BY Sizes DEF At, Cell
<1> HIDE DEF line
<1>5. ASSUME NEW r \in Row, NEW c \in Column
      PROVE  Text(t)[r][c] = LiftedBy(Text(s), 1)[r][c]
  <2> DEFINE k == r * ROW_STRIDE + c
             a == At(b, k)
  <2>1. /\ k \in Cell /\ r \in 0 .. (Rows - 1) /\ c \in 0 .. (ROW_STRIDE - 1)
        /\ r * ROW_STRIDE \in Nat
    BY PlaceOf DEF Row, Column
  <2>2. a \in Cell /\ Text(t)[r][c] = t.tvram[a]
    BY <1>1, <1>2, <1>3, <2>1, Round, TextIs
  <2>3. Back(a, line) = IF k >= LAST_ROW_ADDR THEN k - LAST_ROW_ADDR
                        ELSE k + TVRAM_CELLS - LAST_ROW_ADDR
    BY <1>2, <1>4, <2>1, Between
  <2>4. t.tvram[a] = IF Back(a, line) < ROW_STRIDE THEN Blank ELSE s.tvram[a]
    BY <1>3, <2>2 DEF Blanked
  <2>5. CASE r = Rows - 1
    <3>1. k >= LAST_ROW_ADDR /\ k - LAST_ROW_ADDR < ROW_STRIDE
      BY <2>1, <2>5, FirstPlace, Sizes
    <3>2. r + 1 \notin Row
      BY <2>5, Sizes DEF Row
    <3> HIDE DEF k, a
    <3>3. LiftedBy(Text(s), 1)[r][c] = Blank
      BY <3>2 DEF LiftedBy, BlankRow
    <3>4. QED
      BY <2>2, <2>3, <2>4, <3>1, <3>3
  <2>6. CASE r < Rows - 1
    <3>1. r * ROW_STRIDE + ROW_STRIDE <= LAST_ROW_ADDR
          /\ (r + 1) * ROW_STRIDE = r * ROW_STRIDE + ROW_STRIDE
      BY <2>1, <2>6, PlaceOf
    <3>2. k < LAST_ROW_ADDR /\ ~(k + TVRAM_CELLS - LAST_ROW_ADDR < ROW_STRIDE)
      BY <2>1, <3>1, Sizes
    <3>3. r + 1 \in Row
      BY <2>1, <2>6 DEF Row
    <3>4. Text(s)[r + 1][c] = s.tvram[At(s.base, (r + 1) * ROW_STRIDE + c)]
      BY <3>3, TextIs
    <3>5. ROW_STRIDE + k = (r + 1) * ROW_STRIDE + c /\ k \in Nat /\ ROW_STRIDE + k < TVRAM_CELLS
      BY <2>1, <3>1, <3>2, Sizes
    <3> HIDE DEF k
    <3>6. a = At(s.base, (r + 1) * ROW_STRIDE + c)
      BY <1>1, <1>2, <3>5, Ahead DEF At
    <3> HIDE DEF a
    <3>7. LiftedBy(Text(s), 1)[r][c] = Text(s)[r + 1][c]
      BY <3>3 DEF LiftedBy
    <3>8. QED
      BY <2>1, <2>2, <2>3, <2>4, <3>2, <3>4, <3>6, <3>7, Sizes DEF Cell
  <2>7. QED
    BY <2>1, <2>5, <2>6
<1>6. /\ Text(t) \in [Row -> [Column -> Glyph]]
      /\ LiftedBy(Text(s), 1) \in [Row -> [Column -> Glyph]]
  <2>1. Text(s) \in [Row -> [Column -> Glyph]] /\ BlankRow \in [Column -> Glyph]
    BY TextIs DEF BlankRow
  <2>2. QED
    BY <1>1, <2>1, TextIs DEF LiftedBy
<1> DEFINE g == LiftedBy(Text(s), 1)
<1> HIDE DEF g
<1>7. \A r \in Row : Text(t)[r] = g[r]
  BY <1>5, <1>6 DEF g
<1>8. QED
  BY <1>6, <1>7 DEF g, t

(* Blanking from a place in the window, not past its end. *)
LEMMA TextBlanked ==
  ASSUME NEW s \in Screen, NEW j \in Nat, NEW n \in Nat, j < TEXT_LIMIT, j + n <= TEXT_LIMIT
  PROVE  Text([s EXCEPT !.tvram = Blanked(s.tvram, At(s.base, j), n)])
           = Wiped(Text(s), j, j + n - 1)
<1> DEFINE t == [s EXCEPT !.tvram = Blanked(s.tvram, At(s.base, j), n)]
           w == Wiped(Text(s), j, j + n - 1)
<1>1. /\ s.base \in Cell /\ s.tvram \in [Cell -> Glyph] /\ j \in Cell
      /\ t \in Screen /\ t.base = s.base
      /\ t.tvram = Blanked(s.tvram, At(s.base, j), n)
  <2>1. s.base \in Cell /\ s.tvram \in [Cell -> Glyph] /\ j \in Cell
    BY Sizes DEF Screen, Cell
  <2>2. Blanked(s.tvram, At(s.base, j), n) \in [Cell -> Glyph]
    BY <2>1, BlankedIs
  <2>3. QED
    BY <2>1, <2>2 DEF Screen
<1> HIDE DEF t
<1>2. /\ Text(s) \in [Row -> [Column -> Glyph]] /\ Text(t) \in [Row -> [Column -> Glyph]]
      /\ w \in [Row -> [Column -> Glyph]]
  <2>1. Text(s) \in [Row -> [Column -> Glyph]] /\ Text(t) \in [Row -> [Column -> Glyph]]
    BY <1>1, TextIs
  <2>2. QED
    BY <2>1 DEF Wiped
<1>3. ASSUME NEW r \in Row, NEW c \in Column
      PROVE  Text(t)[r][c] = w[r][c]
  <2> DEFINE k == r * ROW_STRIDE + c
             a == At(s.base, k)
  <2>1. k \in Cell /\ k \in 0 .. (TEXT_LIMIT - 1)
    BY PlaceOf DEF Row
  <2>2. a \in Cell /\ Text(t)[r][c] = t.tvram[a] /\ Text(s)[r][c] = s.tvram[a]
    <3>1. t \in Screen /\ s \in Screen /\ t.base = s.base
      BY <1>1
    <3>2. Text(t)[r][c] = t.tvram[a] /\ Text(s)[r][c] = s.tvram[a]
      BY ONLY <3>1, TextAt, r \in Row, c \in Column
    <3>3. QED
      BY <1>1, <2>1, <3>2, Round
  <2>3. w[r][c] = IF k \in j .. (j + n - 1) THEN Blank ELSE Text(s)[r][c]
    BY DEF Wiped
  <2> HIDE DEF k, w
  <2>4. Back(a, At(s.base, j)) = IF k >= j THEN k - j ELSE k + TVRAM_CELLS - j
    BY <1>1, <2>1, Between
  <2>5. t.tvram[a] = IF Back(a, At(s.base, j)) < n THEN Blank ELSE s.tvram[a]
    BY <1>1, <2>2 DEF Blanked
  <2> HIDE DEF a
  <2>6. k \in j .. (j + n - 1) <=> Back(a, At(s.base, j)) < n
    BY <2>1, <2>4, Sizes
  <2>7. QED
    BY <2>2, <2>3, <2>5, <2>6
<1> HIDE DEF w
<1>4. \A r \in Row : Text(t)[r] = w[r]
  BY <1>2, <1>3
<1>5. Text(t) = w
  BY <1>2, <1>4
<1>6. QED
  BY <1>5 DEF t, w

-----------------------------------------------------------------------------
(* Text written from column c on, up to the end of the row, which takes    *)
(* the cursor to the next.                                                 *)

WroteTo(s, r, c, n, x, t) ==
  LET w == Wrote(Text(s), r, c, n, x)
  IN  /\ c + n < ROW_STRIDE => Stands(t, r, c + n) /\ Text(t) = w
      /\ c + n = ROW_STRIDE /\ r < Rows - 1 => Stands(t, r + 1, 0) /\ Text(t) = w
      /\ c + n = ROW_STRIDE /\ r = Rows - 1 =>
           Stands(t, Rows - 1, 0) /\ Text(t) = LiftedBy(w, 1)

LEMMA WriteWrites ==
  ASSUME NEW s, NEW r, NEW c, Stands(s, r, c), NEW x \in Glyph
  PROVE  WroteTo(s, r, c, 1, x, write_char(s, x))
<1> DEFINE p == Put(s, x)
           w == Wrote(Text(s), r, c, 1, x)
           t == write_char(s, x)
<1>1. /\ p \in Screen /\ Text(p) = w
      /\ r \in 0 .. (Rows - 1) /\ c \in Column /\ c \in Nat /\ r \in Nat
  <2>1. p \in Screen
    BY PutStands DEF Stands
  <2>2. Text(p) = w
    BY TextPut
  <2>3. r \in 0 .. (Rows - 1) /\ c \in Column /\ c \in Nat
    BY StandsAt DEF Column
  <2> HIDE DEF p, w
  <2>4. QED
    BY <2>1, <2>2, <2>3
<1>2. t = IF c + 1 < ROW_STRIDE THEN Moved(p, r, c + 1)
          ELSE IF r < Rows - 1 THEN Moved(p, r + 1, 0)
          ELSE scroll_one_line(Moved(p, r, 0))
  BY WriteMoves
<1> HIDE DEF p, w, t
<1>3. CASE c + 1 < ROW_STRIDE
  <2>1. t = Moved(p, r, c + 1) /\ c + 1 \in Column
    BY <1>1, <1>2, <1>3 DEF Column
  <2>2. Stands(t, r, c + 1) /\ Text(t) = w
    BY <1>1, <2>1, MovedStands, TextMoved
  <2>3. QED
    BY <1>1, <1>3, <2>2 DEF WroteTo, w, t
<1>4. CASE c + 1 = ROW_STRIDE /\ r < Rows - 1
  <2>1. t = Moved(p, r + 1, 0) /\ r + 1 \in 0 .. (Rows - 1)
    BY <1>1, <1>2, <1>4
  <2>2. Stands(t, r + 1, 0) /\ Text(t) = w
    BY <1>1, <2>1, FirstPlace, MovedStands, TextMoved
  <2>3. QED
    BY <1>1, <1>4, <2>2 DEF WroteTo, w, t
<1>5. CASE c + 1 = ROW_STRIDE /\ r = Rows - 1
  <2> DEFINE u == Moved(p, r, 0)
  <2>1. t = scroll_one_line(u)
    BY <1>1, <1>2, <1>5
  <2>2. Stands(u, r, 0) /\ Text(u) = w
    BY <1>1, FirstPlace, MovedStands, TextMoved
  <2> HIDE DEF u
  <2>3. u \in Screen /\ u.col = 0
    BY <2>2 DEF Stands
  <2>4. Stands(t, Rows - 1, 0) /\ Text(t) = LiftedBy(w, 1)
    BY <2>1, <2>2, <2>3, ScrollStands, TextScroll
  <2>5. QED
    BY <1>1, <1>5, <2>4 DEF WroteTo, w, t
<1>6. QED
  BY <1>1, <1>3, <1>4, <1>5 DEF Column

LEMMA WroteMore ==
  ASSUME NEW g \in [Row -> [Column -> Glyph]], NEW r \in Row, NEW c \in Nat,
         NEW n \in Nat, NEW x \in Glyph
  PROVE  /\ Wrote(g, r, c, 0, x) = g
         /\ Wrote(Wrote(g, r, c, n, x), r, c + n, 1, x) = Wrote(g, r, c, n + 1, x)
<1>1. Wrote(g, r, c, 0, x) = g
  <2>1. [d \in Column |-> IF d \in c .. (c + 0 - 1) THEN x ELSE g[r][d]] = g[r]
    <3>1. \A d \in Column : d \notin c .. (c + 0 - 1)
      BY DEF Column
    <3>2. g[r] \in [Column -> Glyph]
      OBVIOUS
    <3>3. QED
      BY <3>1, <3>2
  <2>2. QED
    BY <2>1 DEF Wrote
<1>2. Wrote(Wrote(g, r, c, n, x), r, c + n, 1, x) = Wrote(g, r, c, n + 1, x)
  <2> DEFINE h == Wrote(g, r, c, n, x)
             row == [d \in Column |-> IF d \in c .. (c + n - 1) THEN x ELSE g[r][d]]
  <2>1. h = [g EXCEPT ![r] = row] /\ h[r] = row
    BY DEF Wrote
  <2>2. [d \in Column |-> IF d \in (c + n) .. (c + n + 1 - 1) THEN x ELSE row[d]]
          = [d \in Column |-> IF d \in c .. (c + (n + 1) - 1) THEN x ELSE g[r][d]]
    <3>1. ASSUME NEW d \in Column
          PROVE  (IF d \in (c + n) .. (c + n + 1 - 1) THEN x ELSE row[d])
                   = IF d \in c .. (c + (n + 1) - 1) THEN x ELSE g[r][d]
      BY DEF Column
    <3>2. QED
      BY <3>1
  <2>3. Wrote(h, r, c + n, 1, x)
          = [h EXCEPT ![r] = [d \in Column |->
               IF d \in (c + n) .. (c + n + 1 - 1) THEN x ELSE row[d]]]
    BY <2>1 DEF Wrote
  <2> HIDE DEF h, row
  <2>4. QED
    BY <2>1, <2>2, <2>3 DEF Wrote, h
<1>3. QED
  BY <1>1, <1>2

LEMMA TabWrites ==
  ASSUME NEW s, NEW r, NEW c, Stands(s, r, c)
  PROVE  WroteTo(s, r, c, TabTurns(s), Blank, handle_tab(s))
<1> DEFINE n == TabTurns(s)
           g == Text(s)
           I == {z \in Nat \X Screen : z[1] <= n => WroteTo(s, r, c, z[1], Blank, z[2])}
<1>1. /\ s \in Screen /\ s.col = c /\ g \in [Row -> [Column -> Glyph]]
      /\ r \in Row /\ c \in Column /\ c \in Nat
  BY StandsAt, TextIs DEF Stands, Row, Column
<1>2. n \in Nat \ {0} /\ c + n <= ROW_STRIDE
  BY <1>1, TabCount
<1>3. PICK f : /\ f[0] = s
               /\ handle_tab(s) = f[n]
               /\ \A i \in 0 .. (n - 1) : f[i + 1] = write_char(f[i], Blank)
  BY <1>1, TabByTurns
<1> HIDE DEF n, g
<1>4. <<0, f[0]>> \in I
  <2>1. WroteTo(s, r, c, 0, Blank, s)
    BY <1>1, WroteMore DEF WroteTo, g, Column
  <2>2. QED
    BY <1>1, <1>3, <2>1
<1>5. ASSUME NEW i \in 0 .. (n - 1), <<i, f[i]>> \in I
      PROVE  <<i + 1, f[i + 1]>> \in I
  <2> DEFINE t == f[i]
             u == f[i + 1]
  <2>1. /\ i \in Nat /\ i < n /\ c + i < ROW_STRIDE /\ t \in Screen
        /\ WroteTo(s, r, c, i, Blank, t) /\ u = write_char(t, Blank)
    BY <1>1, <1>2, <1>3, <1>5
  <2> HIDE DEF t, u
  <2>2. Stands(t, r, c + i) /\ Text(t) = Wrote(g, r, c, i, Blank)
    BY <2>1 DEF WroteTo, g
  <2>3. WroteTo(t, r, c + i, 1, Blank, u)
    BY <2>1, <2>2, WriteWrites
  <2>4. Wrote(Text(t), r, c + i, 1, Blank) = Wrote(g, r, c, i + 1, Blank)
    BY <1>1, <2>1, <2>2, WroteMore
  <2>5. c + i + 1 = c + (i + 1)
    BY <1>1, <2>1
  <2>6. WroteTo(s, r, c, i + 1, Blank, u)
    BY <2>3, <2>4, <2>5 DEF WroteTo, g
  <2>7. u \in Screen
    BY <2>1, WriteStays
  <2>8. QED
    BY <2>1, <2>6, <2>7 DEF u
<1> HIDE DEF I
<1>6. <<n, f[n]>> \in I
  BY <1>2, <1>4, <1>5, TurnsReach
<1>7. QED
  BY <1>2, <1>3, <1>6 DEF I, n

(* A cursor at the start of row r moved on by n lines. *)
Lead(i, j) == IF i >= j THEN i - j ELSE 0

LinesDown(g, r, c, n, t) ==
  /\ Stands(t, Least(r + n, Rows - 1), c)
  /\ Text(t) = LiftedBy(g, Lead(r + n, Rows - 1))

LEMMA LiftedMore ==
  ASSUME NEW g \in [Row -> [Column -> Glyph]], NEW n \in Nat
  PROVE  LiftedBy(g, 0) = g /\ LiftedBy(LiftedBy(g, n), 1) = LiftedBy(g, n + 1)
<1>1. LiftedBy(g, 0) = g
  BY DEF LiftedBy, Row
<1>2. ASSUME NEW r \in Row
      PROVE  LiftedBy(LiftedBy(g, n), 1)[r] = LiftedBy(g, n + 1)[r]
  BY DEF LiftedBy, Row
<1>3. QED
  BY <1>1, <1>2 DEF LiftedBy

LEMMA LfGoesDown ==
  ASSUME NEW s, NEW r, NEW c, Stands(s, r, c), r < Rows - 1 \/ c = 0
  PROVE  LinesDown(Text(s), r, c, 1, handle_lf(s))
<1>1. s \in Screen /\ r \in 0 .. (Rows - 1) /\ c \in Column /\ s.col = c
      /\ Text(s) \in [Row -> [Column -> Glyph]]
  BY StandsAt, TextIs DEF Stands
<1>2. CASE r < Rows - 1
  <2>1. handle_lf(s) = Moved(s, r + 1, c) /\ r + 1 \in 0 .. (Rows - 1)
    BY <1>1, <1>2, LfMoves
  <2>2. Least(r + 1, Rows - 1) = r + 1 /\ Lead(r + 1, Rows - 1) = 0
    BY <1>1, <1>2 DEF Least, Lead
  <2>3. Stands(handle_lf(s), r + 1, c) /\ Text(handle_lf(s)) = Text(s)
    BY <1>1, <2>1, MovedStands, TextMoved
  <2>4. QED
    BY <1>1, <2>2, <2>3, LiftedMore DEF LinesDown
<1>3. CASE r = Rows - 1
  <2>1. handle_lf(s) = scroll_one_line(s) /\ c = 0
    BY <1>1, <1>3, LfMoves
  <2>2. Least(r + 1, Rows - 1) = Rows - 1 /\ Lead(r + 1, Rows - 1) = 1
    BY <1>1, <1>3 DEF Least, Lead
  <2>3. QED
    BY <1>1, <2>1, <2>2, ScrollStands, TextScroll DEF LinesDown
<1>4. QED
  BY <1>1, <1>2, <1>3

LEMMA NextLineGoesDown ==
  ASSUME NEW s, NEW r, NEW c, Stands(s, r, c), NEW p \in Nat
  PROVE  LinesDown(Text(s), r, 0, Count(p), ansi_cursor_next_line(s, p))
<1> DEFINE n == Count(p)
           g == Text(s)
           I == {z \in Nat \X Screen : LinesDown(g, r, 0, z[1], z[2])}
<1>1. s \in Screen /\ r \in 0 .. (Rows - 1) /\ g \in [Row -> [Column -> Glyph]]
  BY StandsAt, TextIs DEF Stands
<1>2. PICK f : /\ f[0] = handle_cr(s)
               /\ ansi_cursor_next_line(s, p) = f[n]
               /\ \A i \in 0 .. (n - 1) : f[i + 1] = handle_lf(f[i])
  BY <1>1, NextLineByTurns
<1>3. n \in Nat
  BY CountIsPos
<1> HIDE DEF n
<1>4. <<0, f[0]>> \in I
  <2>1. f[0] = Moved(s, r, 0)
    BY <1>2, CrMoves
  <2>2. Stands(f[0], r, 0) /\ Text(f[0]) = g
    BY <1>1, <2>1, FirstPlace, MovedStands, TextMoved
  <2> HIDE DEF g
  <2>3. Least(r + 0, Rows - 1) = r /\ Lead(r + 0, Rows - 1) = 0
    BY <1>1 DEF Least, Lead
  <2>4. LinesDown(g, r, 0, 0, f[0]) /\ f[0] \in Screen
    BY <1>1, <2>2, <2>3, LiftedMore DEF LinesDown, Stands
  <2>5. QED
    BY <2>4
<1> HIDE DEF g
<1>5. ASSUME NEW i \in 0 .. (n - 1), <<i, f[i]>> \in I
      PROVE  <<i + 1, f[i + 1]>> \in I
  <2> DEFINE t == f[i]
             u == f[i + 1]
             k == Least(r + i, Rows - 1)
             l == Lead(r + i, Rows - 1)
  <2>1. /\ i \in Nat /\ t \in Screen /\ u = handle_lf(t)
        /\ Stands(t, k, 0) /\ Text(t) = LiftedBy(g, l)
    BY <1>2, <1>3, <1>5 DEF LinesDown
  <2> HIDE DEF t, u
  <2>2. k \in 0 .. (Rows - 1) /\ l \in Nat
    BY <1>1, <2>1 DEF Least, Lead
  <2>3. LinesDown(LiftedBy(g, l), k, 0, 1, u) /\ u \in Screen
    BY <2>1, LfGoesDown, LfStays
  <2>4. Least(k + 1, Rows - 1) = Least(r + (i + 1), Rows - 1)
    BY <1>1, <2>1 DEF Least
  <2>5. LiftedBy(LiftedBy(g, l), Lead(k + 1, Rows - 1))
          = LiftedBy(g, Lead(r + (i + 1), Rows - 1))
    <3>1. CASE r + i < Rows - 1
      <4>1. l = 0 /\ Lead(k + 1, Rows - 1) = 0 /\ Lead(r + (i + 1), Rows - 1) = 0
        BY <1>1, <2>1, <3>1 DEF Least, Lead
      <4>2. QED
        BY <1>1, <4>1, LiftedMore
    <3>2. CASE r + i >= Rows - 1
      <4>1. Lead(k + 1, Rows - 1) = 1 /\ Lead(r + (i + 1), Rows - 1) = l + 1
        BY <1>1, <2>1, <3>2 DEF Least, Lead
      <4> HIDE DEF l
      <4>2. QED
        BY <1>1, <2>2, <4>1, LiftedMore
    <3>3. QED
      BY <1>1, <2>1, <3>1, <3>2
  <2>6. LinesDown(g, r, 0, i + 1, u)
    BY <2>3, <2>4, <2>5 DEF LinesDown
  <2>7. QED
    BY <2>1, <2>3, <2>6 DEF u
<1> HIDE DEF I
<1>6. <<n, f[n]>> \in I
  BY <1>3, <1>4, <1>5, TurnsReach
<1>7. QED
  BY <1>2, <1>6 DEF I, n, g

-----------------------------------------------------------------------------
(* Type correctness and the cursor.                                        *)

LEMMA StandsOnGrid ==
  ASSUME NEW s, NEW r, NEW c, Stands(s, r, c)
  PROVE  OnGrid(s) /\ s \in Screen
BY DEF Stands, OnGrid

LEMMA LoopsStay ==
  ASSUME NEW s \in Screen, NEW p \in Nat
  PROVE  handle_tab(s) \in Screen /\ ansi_cursor_next_line(s, p) \in Screen
<1> DEFINE I == Nat \X Screen
<1>1. handle_tab(s) \in Screen
  <2>1. PICK f : /\ f[0] = s
                 /\ handle_tab(s) = f[TabTurns(s)]
                 /\ \A i \in 0 .. (TabTurns(s) - 1) : f[i + 1] = write_char(f[i], Blank)
    BY TabByTurns
  <2>2. TabTurns(s) \in Nat
    BY TabCount
  <2>3. \A i \in 0 .. (TabTurns(s) - 1) : <<i, f[i]>> \in I => <<i + 1, f[i + 1]>> \in I
    BY <2>1, WriteStays
  <2>4. <<TabTurns(s), f[TabTurns(s)]>> \in I
    BY <2>1, <2>2, <2>3, TurnsReach
  <2>5. QED
    BY <2>1, <2>4
<1>2. ansi_cursor_next_line(s, p) \in Screen
  <2>1. PICK f : /\ f[0] = handle_cr(s)
                 /\ ansi_cursor_next_line(s, p) = f[Count(p)]
                 /\ \A i \in 0 .. (Count(p) - 1) : f[i + 1] = handle_lf(f[i])
    BY NextLineByTurns
  <2>2. Count(p) \in Nat /\ f[0] \in Screen
    BY <2>1, CountIsPos, CrStays
  <2>3. \A i \in 0 .. (Count(p) - 1) : <<i, f[i]>> \in I => <<i + 1, f[i + 1]>> \in I
    BY <2>1, LfStays
  <2>4. <<Count(p), f[Count(p)]>> \in I
    BY <2>2, <2>3, TurnsReach
  <2>5. QED
    BY <2>1, <2>4
<1>3. QED
  BY <1>1, <1>2

LEMMA WroteOnGrid ==
  ASSUME NEW s, NEW r, NEW c, Stands(s, r, c), NEW n \in Nat, c + n <= ROW_STRIDE,
         NEW x, NEW t, WroteTo(s, r, c, n, x, t)
  PROVE  OnGrid(t)
<1>1. r \in 0 .. (Rows - 1) /\ c \in Nat
  BY StandsAt DEF Column
<1>2. \E k, d : Stands(t, k, d)
  BY <1>1 DEF WroteTo
<1>3. QED
  BY <1>2, StandsOnGrid

(* What takes a true cursor to a true cursor: everything but a line feed   *)
(* inside the last row.                                                    *)
LEMMA OnGridStays ==
  ASSUME NEW s, NEW r, NEW c, Stands(s, r, c), NEW p \in Nat, NEW x \in Glyph
  PROVE  /\ OnGrid(write_char(s, x)) /\ OnGrid(handle_tab(s))
         /\ OnGrid(handle_cr(s)) /\ OnGrid(handle_bs(s))
         /\ OnGrid(ansi_cursor_column(s, p)) /\ OnGrid(ansi_cursor_up(s, p))
         /\ OnGrid(ansi_cursor_down(s, p)) /\ OnGrid(ansi_cursor_right(s, p))
         /\ OnGrid(ansi_cursor_left(s, p)) /\ OnGrid(ansi_cursor_next_line(s, p))
         /\ OnGrid(ansi_cursor_prev_line(s, p))
         /\ OnGrid(ansi_erase_display(s, p)) /\ OnGrid(ansi_erase_line(s, p))
<1>1. s \in Screen /\ r \in 0 .. (Rows - 1) /\ c \in Column /\ r \in Nat /\ c \in Nat
  BY StandsAt DEF Stands, Column
<1>2. ASSUME NEW k \in 0 .. (Rows - 1), NEW d \in Column
      PROVE  OnGrid(Moved(s, k, d))
  BY <1>1, MovedStands, StandsOnGrid
<1>3. /\ Coord(p, ROW_STRIDE) \in Column /\ 0 \in Column
      /\ r - Least(Count(p), r) \in 0 .. (Rows - 1)
      /\ Least(r + Count(p), Rows - 1) \in 0 .. (Rows - 1)
      /\ Least(c + Count(p), ROW_STRIDE - 1) \in Column
      /\ c - Least(Count(p), c) \in Column
  <2>1. Coord(p, ROW_STRIDE) \in Column /\ 0 \in Column
    BY Coords, FirstPlace DEF Column
  <2>2. Count(p) \in Nat /\ c \in 0 .. (ROW_STRIDE - 1)
    BY <1>1, CountIsPos DEF Column
  <2>3. /\ r - Least(Count(p), r) \in 0 .. (Rows - 1)
        /\ Least(r + Count(p), Rows - 1) \in 0 .. (Rows - 1)
    BY <1>1, <2>2 DEF Least
  <2>4. /\ Least(c + Count(p), ROW_STRIDE - 1) \in Column
        /\ c - Least(Count(p), c) \in Column
    BY <2>2 DEF Least, Column
  <2>5. QED
    BY <2>1, <2>3, <2>4
<1>4. OnGrid(write_char(s, x))
  BY <1>1, WriteWrites, WroteOnGrid DEF Column
<1>5. OnGrid(handle_tab(s))
  <2>1. TabTurns(s) \in Nat /\ c + TabTurns(s) <= ROW_STRIDE
    BY <1>1, StandsAt, TabCount
  <2>2. QED
    BY <2>1, TabWrites, WroteOnGrid
<1>6. OnGrid(handle_cr(s))
  BY <1>1, <1>2, <1>3, CrMoves
<1>7. OnGrid(handle_bs(s))
  <2>1. CASE c = 0
    BY <2>1, StandsAt, StandsOnGrid DEF handle_bs
  <2>2. CASE c # 0
    <3>1. c - 1 \in Column
      BY <1>1, <2>2 DEF Column
    <3>2. Stands(Moved(s, r, c - 1), r, c - 1)
      BY <1>1, <3>1, MovedStands
    <3>3. Stands(Put(Moved(s, r, c - 1), Blank), r, c - 1)
      BY <3>2, PutStands
    <3>4. QED
      BY <2>2, <3>3, BsMoves, StandsOnGrid
  <2>3. QED
    BY <2>1, <2>2
<1>8. /\ OnGrid(ansi_cursor_column(s, p)) /\ OnGrid(ansi_cursor_up(s, p))
      /\ OnGrid(ansi_cursor_down(s, p)) /\ OnGrid(ansi_cursor_right(s, p))
      /\ OnGrid(ansi_cursor_left(s, p))
  <2>1. /\ OnGrid(Moved(s, r, Coord(p, ROW_STRIDE)))
        /\ OnGrid(Moved(s, r - Least(Count(p), r), c))
        /\ OnGrid(Moved(s, Least(r + Count(p), Rows - 1), c))
        /\ OnGrid(Moved(s, r, Least(c + Count(p), ROW_STRIDE - 1)))
        /\ OnGrid(Moved(s, r, c - Least(Count(p), c)))
    BY <1>1, <1>2, <1>3
  <2>2. /\ ansi_cursor_column(s, p) = Moved(s, r, Coord(p, ROW_STRIDE))
        /\ ansi_cursor_up(s, p) = Moved(s, r - Least(Count(p), r), c)
        /\ ansi_cursor_down(s, p) = Moved(s, Least(r + Count(p), Rows - 1), c)
        /\ ansi_cursor_right(s, p) = Moved(s, r, Least(c + Count(p), ROW_STRIDE - 1))
        /\ ansi_cursor_left(s, p) = Moved(s, r, c - Least(Count(p), c))
    BY ColumnMoves, UpMoves, DownMoves, RightMoves, LeftMoves
  <2>3. QED
    BY <2>1, <2>2
<1>9. OnGrid(ansi_cursor_next_line(s, p))
  BY NextLineGoesDown, StandsOnGrid DEF LinesDown
<1>10. OnGrid(ansi_cursor_prev_line(s, p))
  <2>1. Stands(handle_cr(s), r, 0)
    BY <1>1, <1>3, CrMoves, MovedStands
  <2>2. ansi_cursor_prev_line(s, p) = Moved(handle_cr(s), r - Least(Count(p), r), 0)
    BY <2>1, UpMoves DEF ansi_cursor_prev_line
  <2>3. handle_cr(s) \in Screen
    BY <2>1 DEF Stands
  <2>4. Stands(Moved(handle_cr(s), r - Least(Count(p), r), 0), r - Least(Count(p), r), 0)
    BY <1>3, <2>3, MovedStands
  <2>5. QED
    BY <2>2, <2>4, StandsOnGrid
<1>11. OnGrid(ansi_erase_display(s, p)) /\ OnGrid(ansi_erase_line(s, p))
  <2>1. \A from, n : Stands([s EXCEPT !.tvram = Blanked(s.tvram, from, n)], r, c)
    <3>1. TAKE from, n
    <3>2. Blanked(s.tvram, from, n) \in [Cell -> Glyph]
      BY <1>1, BlankedIs DEF Screen
    <3>3. QED
      BY <1>1, <3>2 DEF Stands, Screen
  <2>2. \A from, n : OnGrid([s EXCEPT !.tvram = Blanked(s.tvram, from, n)])
    BY <2>1, StandsOnGrid
  <2>3. QED
    BY <2>2 DEF ansi_erase_display, ansi_erase_line
<1>12. QED
  BY <1>4, <1>5, <1>6, <1>7, <1>8, <1>9, <1>10, <1>11

LEMMA Initially == Init => IInv
<1> SUFFICES ASSUME Init PROVE IInv
  OBVIOUS
<1>1. 0 \in Cell /\ 0 \in Column /\ At(0, 0 * ROW_STRIDE + 0) = 0
  BY FirstPlace, Sizes DEF Cell, At, Wrap
<1>2. Cleared \in [Cell -> Glyph]
  BY DEF Cleared
<1>3. Typed
  BY <1>1, <1>2 DEF Init, Fresh, Typed, Screen
<1>4. OnGrid(scr)
  BY <1>1, <1>3, FirstPlace DEF Init, Fresh, OnGrid, Stands, Typed
<1>5. SavedOnGrid
  BY <1>1, FirstPlace DEF Init, SavedOnGrid
<1>6. QED
  BY <1>3, <1>4, <1>5 DEF IInv

LEMMA KeepsIsSafe ==
  ASSUME IInv, NEW t \in Screen, OnGrid(scr) => OnGrid(t), Keeps(t)
  PROVE  IInv'
<1>1. scr' = t /\ saved' = saved /\ savedIn' = savedIn /\ strayed' = strayed
  BY DEF Keeps, Does
<1>2. Typed'
  BY <1>1 DEF IInv, Typed
<1>3. ~strayed' => OnGrid(scr')
  BY <1>1 DEF IInv
<1>4. SavedOnGrid'
  BY <1>1 DEF IInv, SavedOnGrid
<1>5. QED
  BY <1>2, <1>3, <1>4 DEF IInv, OnGrid, Stands

LEMMA WriteStep ==
  ASSUME IInv, NEW g \in Glyph, Keeps(write_char(scr, g))
  PROVE  IInv'
<1>1. write_char(scr, g) \in Screen
  BY WriteStays DEF IInv, Typed
<1>2. OnGrid(scr) => OnGrid(write_char(scr, g))
  BY OnGridStays, 0 \in Nat DEF OnGrid
<1>3. QED
  BY <1>1, <1>2, KeepsIsSafe

LEMMA PlainStep ==
  ASSUME IInv,
         Keeps(handle_tab(scr)) \/ Keeps(handle_cr(scr)) \/ Keeps(handle_bs(scr))
  PROVE  IInv'
<1>1. /\ handle_tab(scr) \in Screen /\ handle_cr(scr) \in Screen
      /\ handle_bs(scr) \in Screen
  BY LoopsStay, CrStays, BsStays, 0 \in Nat DEF IInv, Typed
<1>2. OnGrid(scr) => /\ OnGrid(handle_tab(scr)) /\ OnGrid(handle_cr(scr))
                     /\ OnGrid(handle_bs(scr))
  BY OnGridStays, 0 \in Nat DEF OnGrid
<1>3. QED
  BY <1>1, <1>2, KeepsIsSafe

LEMMA ControlStep ==
  ASSUME IInv, NEW p \in Nat,
         \/ Keeps(ansi_cursor_column(scr, p))
         \/ Keeps(ansi_cursor_up(scr, p)) \/ Keeps(ansi_cursor_down(scr, p))
         \/ Keeps(ansi_cursor_right(scr, p)) \/ Keeps(ansi_cursor_left(scr, p))
         \/ Keeps(ansi_cursor_next_line(scr, p)) \/ Keeps(ansi_cursor_prev_line(scr, p))
         \/ Keeps(ansi_erase_display(scr, p)) \/ Keeps(ansi_erase_line(scr, p))
  PROVE  IInv'
<1> DEFINE Good(t) == t \in Screen /\ (OnGrid(scr) => OnGrid(t))
<1>1. scr \in Screen
  BY DEF IInv, Typed
<1>2. ASSUME NEW r, NEW c, Stands(scr, r, c)
      PROVE  /\ OnGrid(ansi_cursor_column(scr, p)) /\ OnGrid(ansi_cursor_up(scr, p))
             /\ OnGrid(ansi_cursor_down(scr, p)) /\ OnGrid(ansi_cursor_right(scr, p))
             /\ OnGrid(ansi_cursor_left(scr, p)) /\ OnGrid(ansi_cursor_next_line(scr, p))
             /\ OnGrid(ansi_cursor_prev_line(scr, p))
             /\ OnGrid(ansi_erase_display(scr, p)) /\ OnGrid(ansi_erase_line(scr, p))
  BY <1>2, OnGridStays
<1>3. /\ Good(ansi_cursor_column(scr, p)) /\ Good(ansi_cursor_up(scr, p))
      /\ Good(ansi_cursor_down(scr, p)) /\ Good(ansi_cursor_right(scr, p))
      /\ Good(ansi_cursor_left(scr, p)) /\ Good(ansi_cursor_next_line(scr, p))
      /\ Good(ansi_cursor_prev_line(scr, p))
      /\ Good(ansi_erase_display(scr, p)) /\ Good(ansi_erase_line(scr, p))
  <2>1. OnGrid(scr) => \E r, c : Stands(scr, r, c)
    BY DEF OnGrid
  <2>2. /\ ansi_cursor_column(scr, p) \in Screen /\ ansi_cursor_up(scr, p) \in Screen
        /\ ansi_cursor_down(scr, p) \in Screen /\ ansi_cursor_right(scr, p) \in Screen
        /\ ansi_cursor_left(scr, p) \in Screen /\ ansi_cursor_next_line(scr, p) \in Screen
        /\ ansi_cursor_prev_line(scr, p) \in Screen
        /\ ansi_erase_display(scr, p) \in Screen /\ ansi_erase_line(scr, p) \in Screen
    BY <1>1, MovesStay, UpStays, DownStays, LoopsStay
  <2>3. QED
    BY <1>2, <2>1, <2>2
<1>4. \A t : Good(t) /\ Keeps(t) => IInv'
  BY KeepsIsSafe
<1> HIDE DEF Good
<1>5. QED
  BY <1>3, <1>4

(* A line feed that does not stray is sent above the last row, or from the *)
(* start of it.                                                            *)
LEMMA LineFeedStays ==
  ASSUME NEW r, NEW c, Stands(scr, r, c), ~(OnLastRow /\ scr.col # 0)
  PROVE  r < Rows - 1 \/ c = 0
<1>1. /\ scr.col = c /\ c \in Nat /\ r \in 0 .. (Rows - 1)
      /\ cursor_relative(scr) = r * ROW_STRIDE + c
  BY StandsAt DEF Column
<1>2. CASE r = Rows - 1
  <2>1. r * ROW_STRIDE = LAST_ROW_ADDR
    BY <1>1, <1>2, FirstPlace, PlaceOf
  <2>2. r * ROW_STRIDE + c >= LAST_ROW_ADDR
    BY <1>1, <2>1, Sizes
  <2>3. QED
    BY <1>1, <2>2 DEF OnLastRow
<1>3. QED
  BY <1>1, <1>2

LEMMA LineFeedStep ==
  ASSUME IInv, LineFeed
  PROVE  IInv'
<1>1. /\ scr \in Screen /\ scr' = handle_lf(scr)
      /\ saved' = saved /\ savedIn' = savedIn
      /\ strayed \in BOOLEAN /\ strayed' = (strayed \/ (OnLastRow /\ scr.col # 0))
  BY DEF IInv, Typed, LineFeed, Does
<1>2. Typed'
  BY <1>1, LfStays DEF IInv, Typed
<1>3. ASSUME ~strayed' PROVE OnGrid(scr')
  <2>1. ~strayed /\ ~(OnLastRow /\ scr.col # 0)
    BY <1>1, <1>3
  <2>2. PICK r \in 0 .. (Rows - 1) : Stands(scr, r, scr.col)
    BY <2>1 DEF IInv, OnGrid
  <2>3. r < Rows - 1 \/ scr.col = 0
    BY <2>1, <2>2, LineFeedStays
  <2>4. QED
    BY <1>1, <2>2, <2>3, LfGoesDown, StandsOnGrid DEF LinesDown
<1>4. SavedOnGrid'
  BY <1>1 DEF IInv, SavedOnGrid
<1>5. QED
  BY <1>2, <1>3, <1>4 DEF IInv, OnGrid, Stands

LEMMA PositionStep ==
  ASSUME IInv, NEW p \in Nat, NEW q \in Nat, Position(p, q)
  PROVE  IInv'
<1> DEFINE t == ansi_cursor_position(scr, p, q)
<1>1. /\ scr \in Screen /\ scr' = t /\ saved' = saved /\ savedIn' = savedIn
      /\ strayed' = FALSE
  BY DEF IInv, Typed, Position, Does
<1>2. Coord(p, Rows) \in 0 .. (Rows - 1) /\ Coord(q, ROW_STRIDE) \in Column
  BY Coords DEF Column
<1>3. Stands(t, Coord(p, Rows), Coord(q, ROW_STRIDE))
  BY <1>1, <1>2, PositionMoves, MovedStands
<1>4. t \in Screen /\ OnGrid(t)
  BY <1>3, StandsOnGrid
<1> HIDE DEF t
<1>5. Typed' /\ SavedOnGrid'
  BY <1>1, <1>4 DEF IInv, Typed, SavedOnGrid
<1>6. QED
  BY <1>1, <1>4, <1>5 DEF IInv, OnGrid, Stands

LEMMA CursorStep ==
  ASSUME IInv, SaveCursor \/ RestoreCursor
  PROVE  IInv'
<1>1. CASE SaveCursor
  <2>1. /\ saved' = [addr |-> scr.addr, col |-> scr.col]
        /\ savedIn' = [base |-> scr.base, strayed |-> strayed]
        /\ scr' = scr /\ strayed' = strayed
    BY <1>1 DEF SaveCursor
  <2>2. Typed'
    BY <2>1 DEF IInv, Typed, Screen
  <2>3. SavedOnGrid'
    BY <2>1 DEF IInv, SavedOnGrid, OnGrid, Stands
  <2>4. QED
    BY <2>1, <2>2, <2>3 DEF IInv, OnGrid, Stands
<1>2. CASE RestoreCursor
  <2>1. /\ scr' = [scr EXCEPT !.addr = saved.addr, !.col = saved.col]
        /\ strayed' = (savedIn.strayed \/ scr.base # savedIn.base)
        /\ saved' = saved /\ savedIn' = savedIn
        /\ scr \in Screen /\ saved \in [addr: Cell, col: Column]
        /\ savedIn.strayed \in BOOLEAN
    BY <1>2 DEF RestoreCursor, IInv, Typed
  <2>2. Typed'
    BY <2>1 DEF IInv, Typed, Screen
  <2>3. SavedOnGrid'
    BY <2>1 DEF IInv, SavedOnGrid
  <2>4. ASSUME ~strayed' PROVE OnGrid(scr')
    <3>1. ~savedIn.strayed /\ scr.base = savedIn.base
      BY <2>1, <2>4
    <3>2. PICK r \in 0 .. (Rows - 1) : saved.addr = At(scr.base, r * ROW_STRIDE + saved.col)
      BY <3>1 DEF IInv, SavedOnGrid
    <3>3. Stands(scr', r, saved.col)
      BY <2>1, <3>2 DEF Stands, Screen
    <3>4. QED
      BY <3>3, StandsOnGrid
  <2>5. QED
    BY <2>2, <2>3, <2>4 DEF IInv, OnGrid, Stands
<1>3. QED
  BY <1>1, <1>2

LEMMA ResetStep ==
  ASSUME IInv, Reset
  PROVE  IInv'
<1>1. 0 \in Cell /\ 0 \in Column /\ At(0, 0 * ROW_STRIDE + 0) = 0
  BY FirstPlace, Sizes DEF Cell, At, Wrap
<1>2. Cleared \in [Cell -> Glyph]
  BY DEF Cleared
<1>3. Typed' /\ SavedOnGrid'
  BY <1>1, <1>2 DEF Reset, Fresh, IInv, Typed, Screen, SavedOnGrid
<1>4. Stands(scr', 0, 0)
  BY <1>1, <1>3, FirstPlace DEF Reset, Fresh, Stands, Typed
<1>5. QED
  BY <1>3, <1>4, StandsOnGrid DEF IInv, OnGrid, Stands

LEMMA Inductive == IInv /\ [Next]_vars => IInv'
<1> SUFFICES ASSUME IInv, [Next]_vars PROVE IInv'
  OBVIOUS
<1>1. \A p \in Params : p \in Nat
  OBVIOUS
<1>2. CASE \E g \in Glyph : Keeps(write_char(scr, g))
  BY <1>2, WriteStep
<1>3. CASE Keeps(handle_tab(scr)) \/ Keeps(handle_cr(scr)) \/ Keeps(handle_bs(scr))
  BY <1>3, PlainStep
<1>a. CASE NoControl
  BY <1>a, KeepsIsSafe DEF NoControl, IInv, Typed
<1>4. CASE LineFeed
  BY <1>4, LineFeedStep
<1>5. CASE \E p, q \in Params : Position(p, q)
  BY <1>1, <1>5, PositionStep
<1>6. ASSUME NEW p \in Params,
             \/ Keeps(ansi_cursor_column(scr, p))
             \/ Keeps(ansi_cursor_up(scr, p)) \/ Keeps(ansi_cursor_down(scr, p))
             \/ Keeps(ansi_cursor_right(scr, p)) \/ Keeps(ansi_cursor_left(scr, p))
             \/ Keeps(ansi_cursor_next_line(scr, p))
             \/ Keeps(ansi_cursor_prev_line(scr, p))
             \/ Keeps(ansi_erase_display(scr, p)) \/ Keeps(ansi_erase_line(scr, p))
      PROVE  IInv'
  BY <1>1, <1>6, ControlStep
<1>7. CASE SaveCursor \/ RestoreCursor
  BY <1>7, CursorStep
<1>8. CASE Reset
  BY <1>8, ResetStep
<1>9. CASE UNCHANGED vars
  BY <1>9 DEF vars, IInv, Typed, OnGrid, Stands, SavedOnGrid
<1>10. QED
  BY <1>2, <1>3, <1>a, <1>4, <1>5, <1>6, <1>7, <1>8, <1>9 DEF Next

(* Each step but a reset ends with the GDC being told.                     *)
LEMMA GdcStep == IInv /\ GdcFollows /\ [Next]_vars => GdcFollows'
<1> SUFFICES ASSUME IInv, GdcFollows, [Next]_vars PROVE GdcFollows'
  OBVIOUS
<1>1. CASE update_cursor_gdc
  <2>1. scr'.addr \in Cell
    BY Inductive DEF IInv, Typed, Screen
  <2>2. QED
    BY <1>1, <2>1 DEF update_cursor_gdc, GdcFollows
<1>2. CASE Reset
  BY <1>2, PrimedIsCell DEF Reset, GdcFollows
<1>3. CASE UNCHANGED vars
  BY <1>3 DEF vars, GdcFollows
<1>4. \A t : Keeps(t) => update_cursor_gdc
  BY DEF Keeps, Does
<1>5. LineFeed \/ (\E p, q \in Params : Position(p, q)) => update_cursor_gdc
  BY DEF LineFeed, Position, Does
<1>6. SaveCursor \/ RestoreCursor => update_cursor_gdc
  BY DEF SaveCursor, RestoreCursor
<1>7. QED
  BY <1>1, <1>2, <1>3, <1>4, <1>5, <1>6 DEF Next, NoControl

LEMMA GdcStays == Spec => []GdcFollows
<1>1. Init => GdcFollows
  BY PrimedIsCell DEF Init, GdcFollows
<1>2. QED
  BY <1>1, Initially, Inductive, GdcStep, PTL DEF Spec

(* Whatever the programs send, the ROM reads and writes inside the text    *)
(* VRAM.                                                                   *)
THEOREM TypeCorrect == Spec => []TypeOK
<1>1. IInv /\ GdcFollows => TypeOK
  BY DEF IInv, Typed, GdcFollows, TypeOK
<1>2. QED
  BY <1>1, Initially, Inductive, GdcStays, PTL DEF Spec

(* The address and the column of the cursor name one place on the screen,  *)
(* on every size of screen and through every wrap of the window round the  *)
(* VRAM, unless a program has parted them in one of the two known ways.    *)
THEOREM CursorStaysTrue == Spec => []CursorTrue
<1>1. IInv => CursorTrue
  BY AgreeIsOnGrid DEF IInv, Typed, CursorTrue
<1>2. QED
  BY <1>1, Initially, Inductive, PTL DEF Spec

-----------------------------------------------------------------------------
(* Each control function does to the plain screen of TextScreen what it    *)
(* does to the VRAM.  The cursor is on the grid before and after.          *)

row == cursor_relative(scr) \div ROW_STRIDE
savedPlace == <<SavedRow, saved.col>>

LEMMA ShownIsText == Shown = Text(scr) /\ Shown' = Text(scr')
BY DEF Shown, Text, Row, Column

LEMMA View ==
  ASSUME NEW r, NEW c, Stands(scr, r, c), NEW k, NEW d, Stands(scr', k, d)
  PROVE  /\ row = r /\ scr.col = c
         /\ row' = k /\ scr'.col = d
         /\ r \in Row /\ c \in Column /\ k \in Row /\ d \in Column
         /\ Text(scr) \in [Row -> [Column -> Glyph]]
<1>1. /\ cursor_relative(scr) = r * ROW_STRIDE + c /\ scr.col = c
      /\ r \in 0 .. (Rows - 1) /\ c \in Column /\ scr \in Screen
  BY StandsAt DEF Stands
<1>2. /\ cursor_relative(scr') = k * ROW_STRIDE + d /\ scr'.col = d
      /\ k \in 0 .. (Rows - 1) /\ d \in Column
  BY StandsAt
<1>3. row = r /\ cursor_relative(scr') \div ROW_STRIDE = k
  BY <1>1, <1>2, PlaceOf DEF row
<1>4. row' = cursor_relative(scr') \div ROW_STRIDE
  BY DEF row, cursor_relative, Back
<1>5. QED
  BY <1>1, <1>2, <1>3, <1>4, TextIs DEF Row

SavedKept == saved' = saved /\ savedIn' = savedIn

LEMMA SavedStays == ASSUME SavedKept PROVE savedPlace' = savedPlace
BY DEF SavedKept, savedPlace, SavedRow, Back

LEMMA MoveMaps ==
  ASSUME NEW r, NEW c, Stands(scr, r, c), NEW k \in 0 .. (Rows - 1), NEW d \in Column,
         scr' = Moved(scr, k, d), SavedKept
  PROVE  Terminal!MoveTo(k, d)
<1>1. Stands(scr', k, d) /\ Text(scr') = Text(scr)
  BY MovedStands, TextMoved DEF Stands
<1>2. row' = k /\ scr'.col = d
  BY <1>1, View
<1>3. QED
  BY <1>1, <1>2, ShownIsText, SavedStays DEF Terminal!MoveTo, row, savedPlace

LEMMA WriteMaps ==
  ASSUME NEW r, NEW c, Stands(scr, r, c), NEW n \in Nat, c + n <= ROW_STRIDE,
         NEW x, WroteTo(scr, r, c, n, x, scr'), SavedKept
  PROVE  Terminal!WriteTo(n, x)
<1> DEFINE w == Wrote(Text(scr), r, c, n, x)
           wraps == c + n = ROW_STRIDE
           lifts == wraps /\ r = Rows - 1
           k == IF wraps /\ ~lifts THEN r + 1 ELSE r
           d == IF wraps THEN 0 ELSE c + n
<1>1. r \in 0 .. (Rows - 1) /\ c \in Nat
  BY StandsAt DEF Column
<1>2. Stands(scr', k, d) /\ Text(scr') = IF lifts THEN LiftedBy(w, 1) ELSE w
  BY <1>1 DEF WroteTo
<1>3. row = r /\ scr.col = c /\ row' = k /\ scr'.col = d
  BY <1>2, View
<1>4. w = [Shown EXCEPT ![row] =
             [e \in Terminal!Col |-> IF e \in scr.col .. (scr.col + n - 1) THEN x ELSE @[e]]]
  BY <1>3, ShownIsText DEF Wrote, Terminal!Col, Column
<1>5. LiftedBy(w, 1) = [i \in Terminal!Row |->
                          IF i + 1 \in Terminal!Row THEN w[i + 1]
                          ELSE [e \in Terminal!Col |-> Blank]]
  BY DEF LiftedBy, BlankRow, Terminal!Row, Terminal!Col, Row, Column
<1> HIDE DEF w
<1>6. QED
  BY <1>2, <1>3, <1>4, <1>5, ShownIsText, SavedStays
     DEF Terminal!WriteTo, row, savedPlace

LEMMA LinesMap ==
  ASSUME NEW r, NEW c, Stands(scr, r, c), NEW d, NEW n \in Nat,
         LinesDown(Text(scr), r, d, n, scr'), SavedKept
  PROVE  /\ Terminal!Lines(n) /\ scr'.col = d
         /\ savedPlace' = savedPlace
<1> DEFINE k == Least(r + n, Rows - 1)
           l == Lead(r + n, Rows - 1)
<1>1. Stands(scr', k, d) /\ Text(scr') = LiftedBy(Text(scr), l)
  BY DEF LinesDown
<1>2. row = r /\ row' = k /\ scr'.col = d
  BY <1>1, View
<1>3. Terminal!Least(row + n, Rows - 1) = k /\ Terminal!Lead(row + n, Rows - 1) = l
  BY <1>2 DEF Terminal!Least, Terminal!Lead, Least, Lead
<1>4. Terminal!Lifted(l) = LiftedBy(Text(scr), l)
  BY ShownIsText
     DEF Terminal!Lifted, Terminal!Row, Terminal!Col, LiftedBy, BlankRow, Row, Column
<1> HIDE DEF k, l
<1>5. QED
  BY <1>1, <1>2, <1>3, <1>4, ShownIsText, SavedStays DEF Terminal!Lines, row

(* In reading order a place comes before another if it has the smaller     *)
(* number.                                                                 *)
LEMMA InOrder ==
  ASSUME NEW r \in Row, NEW c \in Column, NEW k \in Row, NEW d \in Column
  PROVE  Terminal!Before(r, c, k, d) <=> r * ROW_STRIDE + c <= k * ROW_STRIDE + d
<1>1. /\ r \in Nat /\ k \in Nat /\ c \in Nat /\ d \in Nat
      /\ c < ROW_STRIDE /\ d < ROW_STRIDE
      /\ r * ROW_STRIDE \in Nat /\ k * ROW_STRIDE \in Nat
  BY PlaceOf DEF Row, Column
<1>2. r < k => r * ROW_STRIDE + ROW_STRIDE <= k * ROW_STRIDE
  <2>1. r < k => (r + 1) * ROW_STRIDE <= k * ROW_STRIDE
    BY <1>1
  <2>2. (r + 1) * ROW_STRIDE = r * ROW_STRIDE + ROW_STRIDE
    BY PlaceOf DEF Row
  <2>3. QED
    BY <2>1, <2>2
<1>3. k < r => k * ROW_STRIDE + ROW_STRIDE <= r * ROW_STRIDE
  <2>1. k < r => (k + 1) * ROW_STRIDE <= r * ROW_STRIDE
    BY <1>1
  <2>2. (k + 1) * ROW_STRIDE = k * ROW_STRIDE + ROW_STRIDE
    BY PlaceOf DEF Row
  <2>3. QED
    BY <2>1, <2>2
<1>4. CASE r < k
  BY <1>1, <1>2, <1>4 DEF Terminal!Before
<1>5. CASE k < r
  BY <1>1, <1>3, <1>5 DEF Terminal!Before
<1>6. CASE r = k
  BY <1>1, <1>6 DEF Terminal!Before
<1>7. QED
  BY <1>1, <1>4, <1>5, <1>6

LEMMA WipedIsErased ==
  ASSUME NEW r0 \in Row, NEW c0 \in Column, NEW r1 \in Row, NEW c1 \in Column
  PROVE  Wiped(Text(scr), r0 * ROW_STRIDE + c0, r1 * ROW_STRIDE + c1)
           = Terminal!Erased(r0, c0, r1, c1)
<1>1. ASSUME NEW r \in Row, NEW c \in Column
      PROVE  r * ROW_STRIDE + c \in (r0 * ROW_STRIDE + c0) .. (r1 * ROW_STRIDE + c1)
               <=> Terminal!Before(r0, c0, r, c) /\ Terminal!Before(r, c, r1, c1)
  <2>1. /\ r * ROW_STRIDE + c \in Int /\ r0 * ROW_STRIDE + c0 \in Int
        /\ r1 * ROW_STRIDE + c1 \in Int
    BY PlaceOf DEF Row, Column
  <2>2. /\ Terminal!Before(r0, c0, r, c) <=> r0 * ROW_STRIDE + c0 <= r * ROW_STRIDE + c
        /\ Terminal!Before(r, c, r1, c1) <=> r * ROW_STRIDE + c <= r1 * ROW_STRIDE + c1
    BY InOrder
  <2>3. QED
    BY <2>1, <2>2
<1>2. QED
  BY <1>1, ShownIsText
     DEF Wiped, Terminal!Erased, Terminal!Row, Terminal!Col, Row, Column

LEMMA KeepsKeeps ==
  ASSUME NEW t, Keeps(t)
  PROVE  scr' = t /\ SavedKept /\ strayed' = strayed
BY DEF Keeps, Does, SavedKept

LEMMA PutMaps ==
  ASSUME NEW r, NEW c, Stands(scr, r, c), NEW x \in Glyph, Keeps(write_char(scr, x))
  PROVE  Terminal!Put(x)
<1>1. WroteTo(scr, r, c, 1, x, scr') /\ SavedKept
  BY WriteWrites, KeepsKeeps
<1>2. c + 1 <= ROW_STRIDE
  BY StandsAt DEF Column
<1>3. QED
  BY <1>1, <1>2, WriteMaps DEF Terminal!Put

LEMMA TabMaps ==
  ASSUME NEW r, NEW c, Stands(scr, r, c), Keeps(handle_tab(scr))
  PROVE  Terminal!Tab
<1>1. WroteTo(scr, r, c, TabTurns(scr), Blank, scr') /\ SavedKept
  BY TabWrites, KeepsKeeps
<1>2. TabTurns(scr) \in Nat /\ c + TabTurns(scr) <= ROW_STRIDE
  BY TabCount, StandsAt DEF Stands
<1>3. QED
  BY <1>1, <1>2, WriteMaps DEF Terminal!Tab, TabTurns

LEMMA BsMaps ==
  ASSUME NEW r, NEW c, Stands(scr, r, c), Keeps(handle_bs(scr))
  PROVE  Terminal!Backspace \/ UNCHANGED Terminal!screen
<1>1. /\ scr \in Screen /\ scr.col = c /\ r \in 0 .. (Rows - 1) /\ r \in Row
      /\ c \in Column /\ SavedKept /\ scr' = handle_bs(scr)
  BY StandsAt, KeepsKeeps DEF Stands, Row
<1>2. CASE c = 0
  <2>1. scr' = scr
    BY <1>1, <1>2 DEF handle_bs
  <2>2. QED
    BY <1>1, <2>1, SavedStays, ShownIsText
       DEF Terminal!screen, savedPlace, cursor_relative, Back
<1>3. CASE c # 0
  <2> DEFINE t == Moved(scr, r, c - 1)
  <2>1. c - 1 \in Column /\ scr' = Put(t, Blank)
    BY <1>1, <1>3, BsMoves DEF Column
  <2>2. Stands(t, r, c - 1) /\ Text(t) = Text(scr)
    BY <1>1, <2>1, MovedStands, TextMoved
  <2> HIDE DEF t
  <2>3. Stands(scr', r, c - 1) /\ Text(scr') = Wrote(Text(scr), r, c - 1, 1, Blank)
    BY <2>1, <2>2, PutStands, TextPut
  <2>4. /\ row = r /\ row' = r /\ scr'.col = c - 1
        /\ Text(scr) \in [Row -> [Column -> Glyph]]
    BY <2>3, View
  <2>5. Wrote(Text(scr), r, c - 1, 1, Blank) = [Text(scr) EXCEPT ![r][c - 1] = Blank]
    <3>1. \A e \in Column : e \in (c - 1) .. (c - 1 + 1 - 1) <=> e = c - 1
      BY <1>1 DEF Column
    <3>2. [e \in Column |-> IF e \in (c - 1) .. (c - 1 + 1 - 1) THEN Blank ELSE Text(scr)[r][e]]
            = [Text(scr)[r] EXCEPT ![c - 1] = Blank]
      BY <1>1, <2>1, <2>4, <3>1
    <3>3. QED
      BY <1>1, <2>4, <3>2 DEF Wrote
  <2>6. Terminal!Backspace
    BY <1>1, <1>3, <2>3, <2>4, <2>5, ShownIsText, SavedStays
       DEF Terminal!Backspace, row, savedPlace
  <2>7. QED
    BY <2>6
<1>4. QED
  BY <1>2, <1>3

LEMMA CoordIs ==
  ASSUME NEW p \in Nat, NEW size \in Nat \ {0}
  PROVE  Terminal!Coord(p, size) = Coord(p, size)
BY DEF Terminal!Coord, Terminal!Least, Terminal!Lead, Coord, Least

LEMMA MovesMap ==
  ASSUME NEW r, NEW c, Stands(scr, r, c), NEW p \in Nat, SavedKept
  PROVE  /\ scr' = handle_cr(scr) => Terminal!CarriageReturn
         /\ scr' = ansi_cursor_column(scr, p) => Terminal!Column(p)
         /\ scr' = ansi_cursor_up(scr, p) => Terminal!Up(p)
         /\ scr' = ansi_cursor_down(scr, p) => Terminal!Down(p)
         /\ scr' = ansi_cursor_right(scr, p) => Terminal!Right(p)
         /\ scr' = ansi_cursor_left(scr, p) => Terminal!Left(p)
         /\ scr' = ansi_cursor_prev_line(scr, p) => Terminal!PreviousLine(p)
<1>1. /\ scr \in Screen /\ r \in 0 .. (Rows - 1) /\ c \in Column /\ scr.col = c
      /\ r \in Nat /\ c \in 0 .. (ROW_STRIDE - 1) /\ Count(p) \in Nat \ {0}
      /\ cursor_relative(scr) \div ROW_STRIDE = r
  <2>1. /\ scr \in Screen /\ r \in 0 .. (Rows - 1) /\ c \in Column /\ scr.col = c
        /\ cursor_relative(scr) = r * ROW_STRIDE + c
    BY StandsAt DEF Stands
  <2>2. (r * ROW_STRIDE + c) \div ROW_STRIDE = r
    BY <2>1, PlaceOf
  <2>3. QED
    BY <2>1, <2>2, CountIsPos DEF Column
<1>2. ASSUME NEW k \in 0 .. (Rows - 1), NEW d \in Column
      PROVE  scr' = Moved(scr, k, d) => Terminal!MoveTo(k, d)
  BY MoveMaps
<1>3. Terminal!Count(p) = Count(p)
  BY DEF Terminal!Count, Count
<1> DEFINE up == r - Least(Count(p), r)
           down == Least(r + Count(p), Rows - 1)
           right == Least(c + Count(p), ROW_STRIDE - 1)
           left == c - Least(Count(p), c)
<1>4. /\ up \in 0 .. (Rows - 1) /\ down \in 0 .. (Rows - 1)
      /\ up = Terminal!Lead(r, Count(p)) /\ down = Terminal!Least(r + Count(p), Rows - 1)
  BY <1>1 DEF Least, Terminal!Lead, Terminal!Least
<1>5. /\ right \in Column /\ left \in Column /\ 0 \in Column
      /\ left = Terminal!Lead(c, Count(p)) /\ right = Terminal!Least(c + Count(p), ROW_STRIDE - 1)
  BY <1>1 DEF Least, Terminal!Lead, Terminal!Least, Column
<1>6. /\ Coord(p, ROW_STRIDE) \in Column
      /\ Terminal!Coord(p, ROW_STRIDE) = Coord(p, ROW_STRIDE)
  BY Coords, CoordIs DEF Column
<1>7. /\ handle_cr(scr) = Moved(scr, r, 0)
      /\ ansi_cursor_column(scr, p) = Moved(scr, r, Coord(p, ROW_STRIDE))
      /\ ansi_cursor_up(scr, p) = Moved(scr, up, c)
      /\ ansi_cursor_down(scr, p) = Moved(scr, down, c)
      /\ ansi_cursor_right(scr, p) = Moved(scr, r, right)
      /\ ansi_cursor_left(scr, p) = Moved(scr, r, left)
  BY CrMoves, ColumnMoves, UpMoves, DownMoves, RightMoves, LeftMoves
<1>8. ansi_cursor_prev_line(scr, p) = Moved(scr, up, 0)
  <2>1. Stands(handle_cr(scr), r, 0)
    BY <1>1, <1>5, <1>7, MovedStands
  <2>2. ansi_cursor_prev_line(scr, p) = Moved(handle_cr(scr), up, 0)
    BY <2>1, UpMoves DEF ansi_cursor_prev_line
  <2> HIDE DEF up
  <2>3. QED
    BY <1>1, <1>4, <1>5, <1>7, <2>2, BackIn
<1> HIDE DEF up, down, right, left
<1>9. /\ scr' = handle_cr(scr) => Terminal!MoveTo(r, 0)
      /\ scr' = ansi_cursor_column(scr, p) => Terminal!MoveTo(r, Coord(p, ROW_STRIDE))
      /\ scr' = ansi_cursor_up(scr, p) => Terminal!MoveTo(up, c)
      /\ scr' = ansi_cursor_down(scr, p) => Terminal!MoveTo(down, c)
      /\ scr' = ansi_cursor_right(scr, p) => Terminal!MoveTo(r, right)
      /\ scr' = ansi_cursor_left(scr, p) => Terminal!MoveTo(r, left)
      /\ scr' = ansi_cursor_prev_line(scr, p) => Terminal!MoveTo(up, 0)
  BY <1>1, <1>2, <1>4, <1>5, <1>6, <1>7, <1>8, ZenonT(30)
<1>10. QED
  BY <1>1, <1>3, <1>4, <1>5, <1>6, <1>9
     DEF Terminal!CarriageReturn, Terminal!Column, Terminal!Up, Terminal!Down,
         Terminal!Right, Terminal!Left, Terminal!PreviousLine

LEMMA PositionMaps ==
  ASSUME scr \in Screen, NEW p \in Nat, NEW q \in Nat, Position(p, q)
  PROVE  Terminal!Position(p, q)
<1> DEFINE k == Coord(p, Rows)
           d == Coord(q, ROW_STRIDE)
<1>1. k \in 0 .. (Rows - 1) /\ d \in Column
  BY Coords DEF Column
<1>2. k = Terminal!Coord(p, Rows) /\ d = Terminal!Coord(q, ROW_STRIDE)
  BY CoordIs
<1>3. scr' = Moved(scr, k, d) /\ SavedKept
  BY PositionMoves DEF Position, Does, SavedKept
<1> HIDE DEF k, d
<1>4. Stands(scr', k, d) /\ Text(scr') = Text(scr)
  BY <1>1, <1>3, MovedStands, TextMoved
<1>5. cursor_relative(scr') \div ROW_STRIDE = k /\ scr'.col = d
  BY <1>1, <1>4, StandsAt, PlaceOf
<1>6. row' = k
  BY <1>5 DEF row, cursor_relative, Back
<1>7. QED
  BY <1>2, <1>3, <1>4, <1>5, <1>6, ShownIsText, SavedStays
     DEF Terminal!Position, Terminal!MoveTo, row, savedPlace

LEMMA LineFeedMaps ==
  ASSUME NEW r, NEW c, Stands(scr, r, c), LineFeed, ~(OnLastRow /\ scr.col # 0)
  PROVE  Terminal!LineFeed
<1>1. scr' = handle_lf(scr) /\ SavedKept
  BY DEF LineFeed, Does, SavedKept
<1>2. r < Rows - 1 \/ c = 0
  BY LineFeedStays
<1>3. LinesDown(Text(scr), r, c, 1, scr')
  BY <1>1, <1>2, LfGoesDown
<1>4. QED
  BY <1>1, <1>3, LinesMap, StandsAt DEF Terminal!LineFeed, savedPlace

LEMMA NextLineMaps ==
  ASSUME NEW r, NEW c, Stands(scr, r, c), NEW p \in Nat,
         Keeps(ansi_cursor_next_line(scr, p))
  PROVE  Terminal!NextLine(p)
<1>1. LinesDown(Text(scr), r, 0, Count(p), scr') /\ SavedKept
  BY NextLineGoesDown, KeepsKeeps
<1>2. Count(p) \in Nat /\ Terminal!Count(p) = Count(p)
  BY CountIsPos DEF Terminal!Count, Count
<1>3. QED
  BY <1>1, <1>2, LinesMap DEF Terminal!NextLine, savedPlace

LEMMA EraseMaps ==
  ASSUME NEW r, NEW c, Stands(scr, r, c), NEW j \in Nat, NEW n \in Nat,
         j < TEXT_LIMIT, j + n <= TEXT_LIMIT,
         scr' = [scr EXCEPT !.tvram = Blanked(scr.tvram, At(scr.base, j), n)]
  PROVE  /\ row = r /\ scr.col = c /\ row' = r /\ scr'.col = c
         /\ Shown' = Wiped(Text(scr), j, j + n - 1)
<1>1. scr \in Screen
  BY DEF Stands
<1>2. Blanked(scr.tvram, At(scr.base, j), n) \in [Cell -> Glyph]
  BY <1>1, BlankedIs DEF Screen
<1>3. Stands(scr', r, c)
  BY <1>1, <1>2 DEF Stands, Screen
<1>4. row = r /\ scr.col = c /\ row' = r /\ scr'.col = c
  BY <1>3, View
<1>5. Text(scr') = Wiped(Text(scr), j, j + n - 1)
  BY <1>1, TextBlanked
<1>6. QED
  BY <1>4, <1>5, ShownIsText

(* The first and the last place of the screen and of the cursor's row. *)
LEMMA Corners ==
  ASSUME NEW r \in Row, NEW c \in Column
  PROVE  /\ 0 \in Row /\ Rows - 1 \in Row /\ 0 \in Column /\ ROW_STRIDE - 1 \in Column
         /\ 0 * ROW_STRIDE + 0 = 0
         /\ (Rows - 1) * ROW_STRIDE + (ROW_STRIDE - 1) = TEXT_LIMIT - 1
         /\ r * ROW_STRIDE + 0 = r * ROW_STRIDE
         /\ r * ROW_STRIDE \in Nat /\ c \in Nat /\ c < ROW_STRIDE
         /\ r * ROW_STRIDE + ROW_STRIDE <= TEXT_LIMIT
<1>1. (Rows - 1) * ROW_STRIDE = LAST_ROW_ADDR
  BY DEF LAST_ROW_ADDR
<1>2. r * ROW_STRIDE \in 0 .. LAST_ROW_ADDR /\ r * ROW_STRIDE \in Nat
  BY PlaceOf DEF Row
<1>3. r * ROW_STRIDE + 0 = r * ROW_STRIDE /\ r * ROW_STRIDE + ROW_STRIDE <= TEXT_LIMIT
  BY <1>2, Sizes
<1>4. (Rows - 1) * ROW_STRIDE + (ROW_STRIDE - 1) = TEXT_LIMIT - 1
  BY <1>1, Sizes
<1>5. QED
  BY <1>2, <1>3, <1>4, FirstPlace DEF Row, Column

LEMMA EraseDisplayMaps ==
  ASSUME NEW r, NEW c, Stands(scr, r, c), NEW p \in Nat,
         Keeps(ansi_erase_display(scr, p))
  PROVE  Terminal!EraseDisplay(p)
<1> DEFINE rel == r * ROW_STRIDE + c
           Erases(j, n) ==
             scr' = [scr EXCEPT !.tvram = Blanked(scr.tvram, At(scr.base, j), n)]
<1>1. /\ scr' = ansi_erase_display(scr, p) /\ savedPlace' = savedPlace
      /\ cursor_relative(scr) = rel /\ scr.addr = At(scr.base, rel)
      /\ rel \in Nat /\ rel < TEXT_LIMIT /\ r \in Row /\ c \in Column
      /\ scr.base \in Cell
  <2>1. /\ scr' = ansi_erase_display(scr, p) /\ savedPlace' = savedPlace
    BY KeepsKeeps, SavedStays
  <2>2. r \in Row /\ c \in Column /\ rel \in Nat
    BY StandsAt DEF Row, Column
  <2>3. QED
    BY <2>1, <2>2, StandsAt
<1>2. At(scr.base, 0) = scr.base
  BY <1>1, Sizes DEF At, Wrap, Cell
<1>3. (65536 + TEXT_LIMIT - rel) % 65536 = TEXT_LIMIT - rel
  BY <1>1, Sizes, AddressesFit
<1>4. CASE p = 1
  <2>1. Erases(0, rel + 1)
    BY <1>1, <1>2, <1>4 DEF ansi_erase_display
  <2> HIDE DEF rel
  <2>2. 0 < TEXT_LIMIT /\ rel + 1 \in Nat /\ 0 + (rel + 1) <= TEXT_LIMIT
        /\ 0 + (rel + 1) - 1 = rel
    BY <1>1, Sizes
  <2>3. /\ row = r /\ scr.col = c /\ row' = r /\ scr'.col = c
        /\ Shown' = Wiped(Text(scr), 0, 0 + (rel + 1) - 1)
    BY <2>1, <2>2, EraseMaps
  <2>4. Shown' = Terminal!Erased(0, 0, r, c)
    BY <1>1, <2>2, <2>3, Corners, WipedIsErased DEF rel
  <2>5. QED
    BY <1>1, <1>4, <2>3, <2>4 DEF Terminal!EraseDisplay, row, savedPlace
<1>5. CASE p \in {2, 3}
  <2>1. Erases(0, TEXT_LIMIT)
    BY <1>1, <1>2, <1>5 DEF ansi_erase_display
  <2>2. 0 < TEXT_LIMIT /\ TEXT_LIMIT \in Nat /\ 0 + TEXT_LIMIT <= TEXT_LIMIT
        /\ 0 + TEXT_LIMIT - 1 = TEXT_LIMIT - 1
    BY Sizes
  <2>3. /\ row = r /\ scr.col = c /\ row' = r /\ scr'.col = c
        /\ Shown' = Wiped(Text(scr), 0, 0 + TEXT_LIMIT - 1)
    BY <2>1, <2>2, EraseMaps
  <2>4. Shown' = Terminal!Erased(0, 0, Rows - 1, ROW_STRIDE - 1)
    BY <1>1, <2>2, <2>3, Corners, WipedIsErased
  <2>5. QED
    BY <1>1, <1>5, <2>3, <2>4 DEF Terminal!EraseDisplay, row, savedPlace
<1>6. CASE p \notin {1, 2, 3}
  <2>1. Erases(rel, TEXT_LIMIT - rel)
    BY <1>1, <1>3, <1>6 DEF ansi_erase_display
  <2> HIDE DEF rel
  <2>2. TEXT_LIMIT - rel \in Nat /\ rel + (TEXT_LIMIT - rel) <= TEXT_LIMIT
        /\ rel + (TEXT_LIMIT - rel) - 1 = TEXT_LIMIT - 1
    BY <1>1, Sizes
  <2>3. /\ row = r /\ scr.col = c /\ row' = r /\ scr'.col = c
        /\ Shown' = Wiped(Text(scr), rel, rel + (TEXT_LIMIT - rel) - 1)
    BY <1>1, <2>1, <2>2, EraseMaps
  <2>4. Shown' = Terminal!Erased(r, c, Rows - 1, ROW_STRIDE - 1)
    BY <1>1, <2>2, <2>3, Corners, WipedIsErased DEF rel
  <2>5. QED
    BY <1>1, <1>6, <2>3, <2>4 DEF Terminal!EraseDisplay, row, savedPlace
<1>7. QED
  BY <1>4, <1>5, <1>6

LEMMA EraseLineMaps ==
  ASSUME NEW r, NEW c, Stands(scr, r, c), NEW p \in Nat,
         Keeps(ansi_erase_line(scr, p))
  PROVE  Terminal!EraseLine(p)
<1> DEFINE start == r * ROW_STRIDE
           Erases(j, n) ==
             scr' = [scr EXCEPT !.tvram = Blanked(scr.tvram, At(scr.base, j), n)]
<1>1. /\ scr' = ansi_erase_line(scr, p) /\ savedPlace' = savedPlace
      /\ cursor_line_start(scr) = At(scr.base, start)
      /\ scr.addr = At(scr.base, start + c) /\ scr.col = c
      /\ r \in Row /\ c \in Column
  BY StandsAt, KeepsKeeps, SavedStays DEF Row
<1>2. /\ start \in Nat /\ c \in Nat /\ c < ROW_STRIDE /\ start + ROW_STRIDE <= TEXT_LIMIT
      /\ start + 0 = start
  BY <1>1, Corners
<1>3. CASE p = 1
  <2>1. Erases(start, c + 1)
    BY <1>1, <1>3 DEF ansi_erase_line
  <2> HIDE DEF start
  <2>2. /\ start < TEXT_LIMIT /\ c + 1 \in Nat /\ start + (c + 1) <= TEXT_LIMIT
        /\ start + (c + 1) - 1 = start + c
    BY <1>2, Sizes
  <2>3. /\ row = r /\ scr.col = c /\ row' = r /\ scr'.col = c
        /\ Shown' = Wiped(Text(scr), start, start + (c + 1) - 1)
    BY <1>2, <2>1, <2>2, EraseMaps
  <2>4. Wiped(Text(scr), start + 0, start + c) = Terminal!Erased(r, 0, r, c)
    BY <1>1, Corners, WipedIsErased DEF start
  <2>5. QED
    BY <1>1, <1>2, <1>3, <2>2, <2>3, <2>4 DEF Terminal!EraseLine, row, savedPlace
<1>4. CASE p = 2
  <2>1. Erases(start, ROW_STRIDE)
    BY <1>1, <1>4 DEF ansi_erase_line
  <2> HIDE DEF start
  <2>2. /\ start < TEXT_LIMIT /\ start + ROW_STRIDE <= TEXT_LIMIT
        /\ start + ROW_STRIDE - 1 = start + (ROW_STRIDE - 1)
    BY <1>2, Sizes
  <2>3. /\ row = r /\ scr.col = c /\ row' = r /\ scr'.col = c
        /\ Shown' = Wiped(Text(scr), start, start + ROW_STRIDE - 1)
    BY <1>2, <2>1, <2>2, EraseMaps
  <2>4. Wiped(Text(scr), start + 0, start + (ROW_STRIDE - 1))
          = Terminal!Erased(r, 0, r, ROW_STRIDE - 1)
    BY <1>1, Corners, WipedIsErased DEF start
  <2>5. QED
    BY <1>1, <1>2, <1>4, <2>2, <2>3, <2>4 DEF Terminal!EraseLine, row, savedPlace
<1>5. CASE p \notin {1, 2}
  <2>1. Erases(start + c, ROW_STRIDE - c)
    BY <1>1, <1>5 DEF ansi_erase_line
  <2> HIDE DEF start
  <2>2. /\ start + c \in Nat /\ ROW_STRIDE - c \in Nat
        /\ start + c < TEXT_LIMIT /\ (start + c) + (ROW_STRIDE - c) <= TEXT_LIMIT
        /\ (start + c) + (ROW_STRIDE - c) - 1 = start + (ROW_STRIDE - 1)
    BY <1>2, Sizes
  <2>3. /\ row = r /\ scr.col = c /\ row' = r /\ scr'.col = c
        /\ Shown' = Wiped(Text(scr), start + c, (start + c) + (ROW_STRIDE - c) - 1)
    BY <2>1, <2>2, EraseMaps
  <2>4. Wiped(Text(scr), start + c, start + (ROW_STRIDE - 1))
          = Terminal!Erased(r, c, r, ROW_STRIDE - 1)
    BY <1>1, Corners, WipedIsErased DEF start
  <2>5. QED
    BY <1>1, <1>2, <1>5, <2>2, <2>3, <2>4 DEF Terminal!EraseLine, row, savedPlace
<1>6. QED
  BY <1>3, <1>4, <1>5

LEMMA SaveMaps ==
  ASSUME IInv, ~strayed, SaveCursor
  PROVE  Terminal!Save
<1>1. PICK r \in 0 .. (Rows - 1) : Stands(scr, r, scr.col)
  BY DEF IInv, OnGrid
<1>2. /\ scr' = scr /\ saved' = [addr |-> scr.addr, col |-> scr.col]
      /\ savedIn' = [base |-> scr.base, strayed |-> strayed]
  BY DEF SaveCursor
<1>3. row = r /\ row' = r
  BY <1>1, <1>2, View
<1>4. SavedRow' = cursor_relative(scr) \div ROW_STRIDE /\ saved'.col = scr.col
  BY <1>2 DEF SavedRow, Back, cursor_relative
<1>5. QED
  BY <1>2, <1>3, <1>4, ShownIsText DEF Terminal!Save, row

LEMMA RestoreMaps ==
  ASSUME IInv, ~strayed', RestoreCursor
  PROVE  Terminal!Restore
<1>1. /\ scr' = [scr EXCEPT !.addr = saved.addr, !.col = saved.col]
      /\ strayed' = (savedIn.strayed \/ scr.base # savedIn.base)
      /\ SavedKept /\ scr \in Screen
  BY DEF RestoreCursor, IInv, Typed, SavedKept
<1>2. scr.base = savedIn.base
  BY <1>1
<1>3. /\ scr'.base = scr.base /\ scr'.addr = saved.addr /\ scr'.col = saved.col
      /\ scr'.tvram = scr.tvram
  BY <1>1 DEF Screen
<1>4. row' = SavedRow
  BY <1>2, <1>3 DEF row, SavedRow, cursor_relative, Back
<1>5. Text(scr') = Text(scr)
  BY <1>3, TextKept
<1>6. QED
  BY <1>1, <1>3, <1>4, <1>5, ShownIsText, SavedStays
     DEF Terminal!Restore, Terminal!MoveTo, row, savedPlace

LEMMA ClearedText ==
  ASSUME NEW s, s \in Screen, s.tvram = Cleared
  PROVE  Text(s) = [r \in Row |-> BlankRow]
<1>1. ASSUME NEW r \in Row, NEW c \in Column
      PROVE  Text(s)[r][c] = Blank
  <2>1. At(s.base, r * ROW_STRIDE + c) \in Cell
    BY PlaceOf, Round DEF Row, Screen
  <2>2. QED
    BY <2>1, TextAt DEF Cleared
<1>2. Text(s) \in [Row -> [Column -> Glyph]]
  BY TextIs
<1>3. \A r \in Row : Text(s)[r] = BlankRow
  BY <1>1, <1>2 DEF BlankRow
<1>4. QED
  BY <1>2, <1>3

LEMMA ResetMaps ==
  ASSUME IInv', Reset
  PROVE  Terminal!Clear
<1>1. /\ scr' = [base |-> 0, addr |-> 0, col |-> 0, tvram |-> Cleared] /\ SavedKept
      /\ scr' \in Screen
  BY DEF Reset, Fresh, SavedKept, IInv, Typed
<1>2. Text(scr') = [r \in Row |-> BlankRow]
  BY <1>1, ClearedText
<1>3. cursor_relative(scr') = 0 /\ 0 \div ROW_STRIDE = 0
  BY <1>1 DEF cursor_relative, Back
<1>4. row' = 0
  BY <1>3 DEF row, cursor_relative, Back
<1>5. QED
  BY <1>1, <1>2, <1>4, ShownIsText, SavedStays
     DEF Terminal!Clear, Terminal!Row, Terminal!Col, Row, Column, BlankRow,
         row, savedPlace

LEMMA TerminalStep ==
  ASSUME IInv, Next, ~strayed'
  PROVE  Terminal!Next \/ UNCHANGED Terminal!screen
<1>1. IInv' /\ scr \in Screen
  BY Inductive DEF IInv, Typed
<1>2. \A p \in Params : p \in Nat
  OBVIOUS
<1>3. ASSUME ~strayed
      PROVE  \E r, c : Stands(scr, r, c)
  BY <1>3 DEF IInv, OnGrid
<1>4. CASE \E g \in Glyph : Keeps(write_char(scr, g))
  <2>1. PICK g \in Glyph : Keeps(write_char(scr, g))
    BY <1>4
  <2>2. ~strayed
    BY <2>1, KeepsKeeps
  <2>3. QED
    BY <1>3, <2>1, <2>2, PutMaps DEF Terminal!Next
<1>5. CASE Keeps(handle_tab(scr)) \/ Keeps(handle_cr(scr)) \/ Keeps(handle_bs(scr))
  <2>1. ~strayed
    BY <1>5, KeepsKeeps
  <2>2. PICK r, c : Stands(scr, r, c)
    BY <1>3, <2>1
  <2>3. CASE Keeps(handle_tab(scr))
    BY <2>2, <2>3, TabMaps DEF Terminal!Next
  <2>4. CASE Keeps(handle_cr(scr))
    BY <2>2, <2>4, KeepsKeeps, MovesMap, 0 \in Nat DEF Terminal!Next
  <2>5. CASE Keeps(handle_bs(scr))
    BY <2>2, <2>5, BsMaps DEF Terminal!Next
  <2>6. QED
    BY <1>5, <2>3, <2>4, <2>5
<1>a. CASE NoControl
  <2>1. scr' = scr /\ SavedKept
    BY <1>a, KeepsKeeps DEF NoControl
  <2>2. QED
    BY <2>1 DEF Terminal!screen, Shown, SavedRow, SavedKept, cursor_relative, Back
<1>6. CASE LineFeed
  <2>1. ~strayed /\ ~(OnLastRow /\ scr.col # 0)
    BY <1>6 DEF LineFeed, IInv, Typed
  <2>2. QED
    BY <1>3, <1>6, <2>1, LineFeedMaps DEF Terminal!Next
<1>7. CASE \E p, q \in Params : Position(p, q)
  BY <1>1, <1>2, <1>7, PositionMaps DEF Terminal!Next
<1>8. ASSUME NEW p \in Params,
             \/ Keeps(ansi_cursor_column(scr, p))
             \/ Keeps(ansi_cursor_up(scr, p)) \/ Keeps(ansi_cursor_down(scr, p))
             \/ Keeps(ansi_cursor_right(scr, p)) \/ Keeps(ansi_cursor_left(scr, p))
             \/ Keeps(ansi_cursor_next_line(scr, p))
             \/ Keeps(ansi_cursor_prev_line(scr, p))
             \/ Keeps(ansi_erase_display(scr, p)) \/ Keeps(ansi_erase_line(scr, p))
      PROVE  Terminal!Next
  <2>1. ~strayed /\ SavedKept
    BY <1>8, KeepsKeeps
  <2>2. PICK r, c : Stands(scr, r, c)
    BY <1>3, <2>1
  <2>3. p \in Nat
    BY <1>2
  <2>4. CASE Keeps(ansi_cursor_next_line(scr, p))
    BY <2>2, <2>3, <2>4, NextLineMaps DEF Terminal!Next
  <2>5. CASE Keeps(ansi_erase_display(scr, p)) \/ Keeps(ansi_erase_line(scr, p))
    BY <2>2, <2>3, <2>5, EraseDisplayMaps, EraseLineMaps DEF Terminal!Next
  <2>6. CASE \/ scr' = ansi_cursor_column(scr, p)
             \/ scr' = ansi_cursor_up(scr, p) \/ scr' = ansi_cursor_down(scr, p)
             \/ scr' = ansi_cursor_right(scr, p) \/ scr' = ansi_cursor_left(scr, p)
             \/ scr' = ansi_cursor_prev_line(scr, p)
    <3>1. \/ Terminal!Column(p) \/ Terminal!Up(p) \/ Terminal!Down(p)
          \/ Terminal!Right(p) \/ Terminal!Left(p) \/ Terminal!PreviousLine(p)
      BY <2>1, <2>2, <2>3, <2>6, MovesMap
    <3>2. QED
      BY <3>1 DEF Terminal!Next
  <2>7. QED
    BY <1>8, <2>4, <2>5, <2>6, KeepsKeeps
<1>9. CASE SaveCursor
  BY <1>9, SaveMaps DEF Terminal!Next, SaveCursor
<1>10. CASE RestoreCursor
  BY <1>10, RestoreMaps DEF Terminal!Next
<1>11. CASE Reset
  BY <1>1, <1>11, ResetMaps DEF Terminal!Next
<1>12. QED
  BY <1>4, <1>5, <1>a, <1>6, <1>7, <1>8, <1>9, <1>10, <1>11 DEF Next

(* Every control function does to the circular VRAM what it does to a      *)
(* plain screen that scrolls its text, wherever the window lies and        *)
(* whatever the sizes, as long as the cursor has not strayed.              *)
THEOREM RefinesScreen == Spec => ImplementsScreen
<1>1. Init => Terminal!Init
  <2> SUFFICES ASSUME Init PROVE Terminal!Init
    OBVIOUS
  <2>1. scr \in Screen /\ scr.tvram = Cleared
    BY Initially DEF Init, Fresh, IInv, Typed
  <2>2. Shown = [r \in Row |-> BlankRow]
    BY <2>1, ClearedText, ShownIsText
  <2>3. /\ cursor_relative(scr) = 0 /\ 0 \div ROW_STRIDE = 0 /\ scr.col = 0
        /\ SavedRow = 0 \div ROW_STRIDE /\ saved.col = 0
    BY DEF Init, Fresh, cursor_relative, SavedRow, Back
  <2>4. QED
    BY <2>2, <2>3
       DEF Terminal!Init, Terminal!Row, Terminal!Col, Row, Column, BlankRow
<1>2. IInv /\ [Next]_vars => [~strayed' => [Terminal!Next]_(Terminal!screen)]_vars
  BY TerminalStep
<1>3. QED
  BY <1>1, <1>2, Initially, Inductive, PTL DEF Spec, ImplementsScreen

-----------------------------------------------------------------------------
(* The display: one area, that covers the screen.                          *)

LEMMA OneArea ==
  ASSUME NEW base \in Cell, NEW t, NEW addr, NEW r \in Row, NEW c \in Column
  PROVE  draw_chr_screen(<<[start |-> base, rows |-> AREA_ROWS, wide |-> FALSE]>>,
                         t, addr)[r][c]
           = {[cell |-> t[(base + r * ROW_STRIDE + c) % TVRAM_CELLS],
               cursor |-> (base + r * ROW_STRIDE + c = addr)]}
<1> DEFINE area == [start |-> base, rows |-> AREA_ROWS, wide |-> FALSE]
           areas == <<area>>
<1>1. DOMAIN areas = {1} /\ areas[1] = area
  OBVIOUS
<1>2. Top(areas)[1] = 0
  <2> DEFINE First(f) ==
               f = [i \in DOMAIN areas |->
                      IF i = 1 THEN 0 ELSE f[i - 1] + areas[i - 1].rows]
             top == CHOOSE f : First(f)
  <2>1. Top(areas) = top
    BY DEF Top
  <2> HIDE DEF areas
  <2>2. First([i \in {1} |-> 0])
    BY <1>1
  <2>3. First(top)
    BY <2>2
  <2> HIDE DEF top
  <2>4. top[1] = 0
    BY <1>1, <2>3
  <2>5. QED
    BY <2>1, <2>4
<1>3. r \in Nat /\ c \in Nat /\ r < AREA_ROWS /\ AREA_ROWS \in Nat
  BY AreaCoversScreen DEF Row, Column
<1> HIDE DEF areas, area
<1>4. AreaAt(areas, r) = {1}
  <2>1. area.rows = AREA_ROWS
    BY DEF area
  <2>2. r - Top(areas)[1] \in 0 .. (areas[1].rows - 1)
    BY <1>1, <1>2, <1>3, <2>1
  <2>3. QED
    BY <1>1, <2>2 DEF AreaAt
<1>5. Pointer(area, r - Top(areas)[1], c) = base + r * ROW_STRIDE + c
  <2>1. area.start % TVRAM_CELLS = base /\ Step(area) = 1
    BY Sizes DEF area, Step, Cell
  <2>2. ROW_STRIDE \div 1 = ROW_STRIDE /\ c \div 1 = c /\ r - 0 = r
    BY <1>3
  <2>3. QED
    BY <1>2, <2>1, <2>2 DEF Pointer
<1>6. draw_chr_screen(areas, t, addr)[r][c]
        = {LET p == Pointer(areas[i], r - Top(areas)[i], c)
           IN  [cell |-> t[p % TVRAM_CELLS], cursor |-> CursorHere(p, addr)] :
             i \in AreaAt(areas, r)}
  BY DEF draw_chr_screen, Row
<1>7. draw_chr_screen(areas, t, addr)[r][c]
        = {[cell |-> t[(base + r * ROW_STRIDE + c) % TVRAM_CELLS],
            cursor |-> CursorHere(base + r * ROW_STRIDE + c, addr)]}
  BY <1>1, <1>4, <1>5, <1>6
<1>8. QED
  BY <1>7 DEF CursorHere, areas, area

LEMMA CursorIsDrawn ==
  ASSUME NEW s, NEW k, NEW d, Stands(s, k, d), NEW r \in Row, NEW c \in Column
  PROVE  /\ s.base + r * ROW_STRIDE + c = s.addr => r = k /\ c = d
         /\ s.addr >= s.base /\ r = k /\ c = d => s.base + r * ROW_STRIDE + c = s.addr
<1>1. /\ s.base \in Cell /\ s.addr \in Cell /\ k \in Row /\ d \in Column
      /\ s.addr = At(s.base, k * ROW_STRIDE + d)
  BY StandsAt DEF Stands, Screen, Row
<1> DEFINE m == r * ROW_STRIDE + c
<1>2. m \in Cell /\ r * ROW_STRIDE \in Nat /\ c \in Nat
  BY PlaceOf DEF Row
<1>3. s.base + r * ROW_STRIDE + c = s.base + m
  BY <1>1, <1>2, Sizes DEF Cell
<1>4. ASSUME s.base + m = s.addr PROVE r = k /\ c = d
  <2> HIDE DEF m
  <2>1. At(s.base, m) = s.addr
    BY <1>1, <1>2, <1>4, Sizes DEF At, Wrap, Cell
  <2>2. QED
    BY <1>1, <2>1, OnePlace DEF m
<1>5. ASSUME s.addr >= s.base, r = k, c = d PROVE s.base + m = s.addr
  <2>1. s.addr = At(s.base, m)
    BY <1>1, <1>5
  <2> HIDE DEF m
  <2>2. QED
    BY <1>1, <1>2, <1>5, <2>1, Sizes DEF At, Wrap, Cell
<1>6. QED
  BY <1>3, <1>4, <1>5

(* The display shows what the window holds.  Once the GDC has been told    *)
(* the cursor, which it has but on a fresh screen, it draws it where the   *)
(* next character goes and nowhere else, or, once the window has wrapped   *)
(* round to it, nowhere at all.                                            *)
THEOREM DisplayStaysTrue == Spec => []DisplayShows
<1>1. ASSUME IInv, GdcFollows PROVE DisplayShows
  <2> DEFINE picture == draw_chr_screen(set_chr_scroll(scr), scr.tvram, ead)
             p(r, c) == scr.base + r * ROW_STRIDE + c
             it(r, c) == [cell |-> scr.tvram[p(r, c) % TVRAM_CELLS],
                          cursor |-> (p(r, c) = ead)]
  <2>1. scr \in Screen /\ scr.base \in Cell
    BY <1>1 DEF IInv, Typed, Screen
  <2>2. \A r \in Row, c \in Column : picture[r][c] = {it(r, c)}
    BY <2>1, OneArea DEF set_chr_scroll
  <2> HIDE DEF picture
  <2>3. ASSUME NEW r \in Row, NEW c \in Column
        PROVE  {thing.cell : thing \in picture[r][c]} = {Shown[r][c]}
    <3>1. Shown[r][c] = scr.tvram[p(r, c) % TVRAM_CELLS]
      BY DEF Shown, Row
    <3>2. it(r, c).cell = scr.tvram[p(r, c) % TVRAM_CELLS]
      OBVIOUS
    <3> HIDE DEF p, it
    <3>3. QED
      BY <2>2, <3>1, <3>2
  <2>4. ASSUME ead = scr.addr, ~strayed
        PROVE  CursorsIn(picture) = IF scr.addr >= scr.base THEN {CursorPlace} ELSE {}
    <3>1. PICK k \in 0 .. (Rows - 1) : Stands(scr, k, scr.col)
      BY <1>1, <2>4 DEF IInv, OnGrid
    <3>2. CursorPlace = <<k, scr.col>> /\ CursorPlace \in OnScreen
      <4>1. row = k
        BY <3>1, StandsAt, PlaceOf DEF row
      <4>2. scr.col \in Column
        BY <3>1, StandsAt DEF Stands
      <4>3. QED
        BY <4>1, <4>2 DEF CursorPlace, OnScreen, row
    <3>3. ASSUME NEW r \in Row, NEW c \in Column
          PROVE  (\E thing \in picture[r][c] : thing.cursor) <=> p(r, c) = scr.addr
      <4>1. it(r, c).cursor <=> p(r, c) = scr.addr
        BY <2>4
      <4> HIDE DEF p, it
      <4>2. QED
        BY <2>2, <4>1
    <3>4. ASSUME NEW r \in Row, NEW c \in Column
          PROVE  p(r, c) = scr.addr
                   <=> scr.addr >= scr.base /\ <<r, c>> = <<k, scr.col>>
      <4>1. p(r, c) = scr.addr => r = k /\ c = scr.col
        BY <3>1, CursorIsDrawn
      <4>2. scr.addr >= scr.base /\ r = k /\ c = scr.col => p(r, c) = scr.addr
        BY <3>1, CursorIsDrawn
      <4>3. p(r, c) = scr.addr => scr.addr >= scr.base
        BY <2>1, Sizes DEF Cell, Row, Column
      <4>4. QED
        BY <4>1, <4>2, <4>3
    <3> HIDE DEF p
    <3>5. \A q \in OnScreen : q \in CursorsIn(picture)
                                <=> scr.addr >= scr.base /\ q = CursorPlace
      BY <3>2, <3>3, <3>4 DEF CursorsIn, OnScreen, Row
    <3>6. CursorsIn(picture) \subseteq OnScreen
      BY DEF CursorsIn
    <3>7. QED
      BY <3>2, <3>5, <3>6
  <2>5. \A q \in OnScreen :
          {thing.cell : thing \in picture[q[1]][q[2]]} = {Shown[q[1]][q[2]]}
    BY <2>3 DEF OnScreen, Row
  <2>6. QED
    BY <1>1, <2>4, <2>5 DEF DisplayShows, GdcFollows, picture
<1>2. QED
  BY <1>1, Initially, Inductive, GdcStays, PTL DEF Spec

=============================================================================
