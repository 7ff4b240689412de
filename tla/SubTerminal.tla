---------------------------- MODULE SubTerminal ----------------------------
(***************************************************************************)
(* The screen of the terminal ROM (subcpurom.asm): a window of TEXT_LIMIT  *)
(* cells on a circular text VRAM of TVRAM_CELLS cells.  The window starts  *)
(* at SCROLL_BASE and scrolls by moving it; the VRAM is a little larger    *)
(* than the window.  The cursor is kept twice, as an address and as a      *)
(* column.  One action per control function handle_char dispatches to; the *)
(* parameters are those the escape parser hands over, 0 for a missing one. *)
(* The character GDC is told the window when it moves (set_chr_scroll) and *)
(* the cursor after every byte (update_cursor_gdc).  It draws its cursor   *)
(* at the address it writes to; between a reset, which writes a character  *)
(* last of all (prime_chr_gdc), and the first byte that need not be the    *)
(* cursor's.                                                               *)
(***************************************************************************)
EXTENDS Display

CONSTANTS
  AREA_ROWS,     \* text rows of the display area the ROM sets up; 30
  TAB_STOP,      \* 8
  Glyph,         \* what a cell can show, as far as it differs
  Blank,
  Params,        \* bound: the parameters the programs send, in 0 .. 255
  SaveBases,     \* bound: the windows in which they save the cursor
  PrimedAt       \* where a reset may leave the character GDC; how far the WRITE
                 \* of prime_chr_gdc moves it is the GDC's

ASSUME AreaCoversScreen == AREA_ROWS \in Nat /\ AREA_ROWS >= Rows
ASSUME TabDividesRow ==
  TAB_STOP \in Nat \ {0} /\ ROW_STRIDE % TAB_STOP = 0
ASSUME AddressesFit == TVRAM_CELLS <= 65536
ASSUME BlankIsGlyph == Blank \in Glyph
ASSUME ParamsAreBytes == Params \subseteq 0 .. 255
ASSUME PrimedIsCell == PrimedAt \subseteq Cell

TEXT_LIMIT == Rows * ROW_STRIDE
LAST_ROW_ADDR == (Rows - 1) * ROW_STRIDE

VARIABLES
  scr,        \* base: SCROLL_BASE, addr: CURSOR_ADDR, col: CURSOR_COL, tvram
  saved,      \* addr: SAVED_CURSOR_ADDR, col: SAVED_CURSOR_COL
  savedIn,    \* history: the window when the cursor was saved, and strayed
  strayed,    \* history: has a call parted the address from the column?
  ead         \* the address the character GDC is at

vars == <<scr, saved, savedIn, strayed, ead>>

Least(i, j) == IF i <= j THEN i ELSE j

-----------------------------------------------------------------------------
(* Addresses.  The counterparts of wrap_hl_tvr, dec_hl_tvr and the borrow  *)
(* corrections after SBC.                                                  *)

WrapLate(a) == IF a > TVRAM_CELLS THEN a - TVRAM_CELLS ELSE a

Wrap(a) == IF a >= TVRAM_CELLS THEN a - TVRAM_CELLS ELSE a

Back(a, n) == IF a >= n THEN a - n ELSE a + TVRAM_CELLS - n

cursor_relative(s) == Back(s.addr, s.base)
cursor_line_start(s) == Back(s.addr, s.col)

Blanked(t, from, n) ==
  [a \in Cell |-> IF Back(a, from) < n THEN Blank ELSE t[a]]

Repeated(F(_), n, s) ==
  LET f[i \in 0 .. n] == IF i = 0 THEN s ELSE F(f[i - 1]) IN f[n]

Count(p) == IF p = 0 THEN 1 ELSE p
Coord(p, size) == IF p = 0 THEN 0 ELSE Least(p - 1, size - 1)

-----------------------------------------------------------------------------
(* Control functions, from screen to screen.                               *)

ScrollKeepsLine(s) ==
  LET base == Wrap(s.base + ROW_STRIDE)
  IN  [s EXCEPT !.base = base, !.addr = Wrap(base + LAST_ROW_ADDR)]

scroll_one_line(s) ==
  LET base == Wrap(s.base + ROW_STRIDE)
      line == Wrap(base + LAST_ROW_ADDR)
  IN  [s EXCEPT !.base = base, !.addr = line,
                !.tvram = Blanked(s.tvram, line, ROW_STRIDE)]

(* The cursor goes to hl, up to a line past the end of the VRAM. *)
normalize_cursor(s, hl) ==
  LET t == [s EXCEPT !.addr = Wrap(hl)]
  IN  IF cursor_relative(t) < TEXT_LIMIT THEN t ELSE scroll_one_line(t)

advance_cursor(s) ==
  normalize_cursor([s EXCEPT !.col = IF s.col + 1 < ROW_STRIDE THEN s.col + 1 ELSE 0],
                   s.addr + 1)

write_char(s, g) == advance_cursor([s EXCEPT !.tvram[s.addr] = g])

handle_tab(s) ==
  LET Space(t) == write_char(t, Blank)
  IN  Repeated(Space, TAB_STOP - (s.col % TAB_STOP), s)

handle_cr(s) == [s EXCEPT !.addr = cursor_line_start(s), !.col = 0]

handle_lf(s) == normalize_cursor(s, s.addr + ROW_STRIDE)

handle_bs(s) ==
  IF s.col = 0 THEN s
  ELSE LET a == Back(s.addr, 1)
       IN  [s EXCEPT !.col = s.col - 1, !.addr = a, !.tvram[a] = Blank]

(* Row by row from the top of the window, then along the row. *)
ansi_cursor_position(s, p, q) ==
  LET c == Coord(q, ROW_STRIDE)
  IN  [s EXCEPT !.addr = (s.base + Coord(p, Rows) * ROW_STRIDE + c) % TVRAM_CELLS,
                !.col = c]

ansi_cursor_column(s, p) ==
  LET c == Coord(p, ROW_STRIDE)
  IN  [s EXCEPT !.addr = Wrap(cursor_line_start(s) + c), !.col = c]

(* The loops that stop at an edge, by the number of turns they make. *)
ansi_cursor_up(s, p) ==
  LET n == Least(Count(p), cursor_relative(s) \div ROW_STRIDE)
  IN  [s EXCEPT !.addr = Back(s.addr, n * ROW_STRIDE)]

DownPastEnd(s, p) ==
  LET rel == cursor_relative(s)
      turns == IF rel >= TEXT_LIMIT THEN 0
               ELSE (TEXT_LIMIT - rel + ROW_STRIDE - 1) \div ROW_STRIDE
  IN  [s EXCEPT !.addr = Wrap(s.addr + Least(Count(p), turns) * ROW_STRIDE)]

ansi_cursor_down(s, p) ==
  LET rel == cursor_relative(s)
      turns == IF rel >= LAST_ROW_ADDR THEN 0
               ELSE (LAST_ROW_ADDR - rel + ROW_STRIDE - 1) \div ROW_STRIDE
  IN  [s EXCEPT !.addr = Wrap(s.addr + Least(Count(p), turns) * ROW_STRIDE)]

ansi_cursor_right(s, p) ==
  LET n == Least(Count(p), ROW_STRIDE - 1 - s.col)
  IN  [s EXCEPT !.col = s.col + n, !.addr = Wrap(s.addr + n)]

ansi_cursor_left(s, p) ==
  LET n == Least(Count(p), s.col)
  IN  [s EXCEPT !.col = s.col - n, !.addr = Back(s.addr, n)]

ansi_cursor_next_line(s, p) == Repeated(handle_lf, Count(p), handle_cr(s))
ansi_cursor_prev_line(s, p) == ansi_cursor_up(handle_cr(s), p)

(* The count of clear_to_screen_end is 16 bits wide: a cursor outside the  *)
(* window makes it wrap, and the loop goes round the whole VRAM.           *)
ansi_erase_display(s, p) ==
  LET rel == cursor_relative(s)
  IN  [s EXCEPT !.tvram =
         CASE p = 1        -> Blanked(@, s.base, rel + 1)
           [] p \in {2, 3} -> Blanked(@, s.base, TEXT_LIMIT)
           [] OTHER        -> Blanked(@, s.addr, (65536 + TEXT_LIMIT - rel) % 65536)]

ansi_erase_line(s, p) ==
  [s EXCEPT !.tvram =
     CASE p = 1 -> Blanked(@, cursor_line_start(s), s.col + 1)
       [] p = 2 -> Blanked(@, cursor_line_start(s), ROW_STRIDE)
       [] OTHER -> Blanked(@, s.addr, ROW_STRIDE - s.col)]

-----------------------------------------------------------------------------
(* The actions.                                                            *)

(* At the end of every byte. *)
update_cursor_gdc == ead' = scr'.addr

Does(s) == scr' = s /\ update_cursor_gdc /\ UNCHANGED <<saved, savedIn>>

(* Everything that moves the address and the column together. *)
Keeps(s) == Does(s) /\ UNCHANGED strayed

OnLastRow == cursor_relative(scr) >= LAST_ROW_ADDR

(* A line feed on the last row scrolls, or wraps past the end of the VRAM; *)
(* either way the cursor ends up in another column than CURSOR_COL says.   *)
LineFeed ==
  /\ Does(handle_lf(scr))
  /\ strayed' = (strayed \/ (OnLastRow /\ scr.col # 0))

Position(p, q) ==
  /\ Does(ansi_cursor_position(scr, p, q))
  /\ strayed' = FALSE

SaveCursor ==
  /\ scr.base \in SaveBases
  /\ saved' = [addr |-> scr.addr, col |-> scr.col]
  /\ savedIn' = [base |-> scr.base, strayed |-> strayed]
  /\ UNCHANGED <<scr, strayed>>
  /\ update_cursor_gdc

(* The saved address is absolute: after a scroll it is another row. *)
RestoreCursor ==
  /\ scr' = [scr EXCEPT !.addr = saved.addr, !.col = saved.col]
  /\ strayed' = (savedIn.strayed \/ scr.base # savedIn.base)
  /\ update_cursor_gdc
  /\ UNCHANGED <<saved, savedIn>>

(* DISPLAY::reset. *)
Cleared == [a \in Cell |-> Blank]

Fresh == [base |-> 0, addr |-> 0, col |-> 0, tvram |-> Cleared]

(* VM::reset clears the text VRAM and restarts the ROM, which leaves the   *)
(* saved cursor as it was.  The last the GDC is told is to write a blank.  *)
Reset ==
  /\ scr' = Fresh
  /\ ead' \in PrimedAt
  /\ strayed' = FALSE
  /\ UNCHANGED <<saved, savedIn>>

Init ==
  /\ scr = Fresh
  /\ ead \in PrimedAt
  /\ saved = [addr |-> 0, col |-> 0]
  /\ savedIn = [base |-> 0, strayed |-> FALSE]
  /\ strayed = FALSE

(* A byte that leaves the screen alone: part of a sequence, or ignored.    *)
NoControl == Keeps(scr)

Next ==
  \/ \E g \in Glyph : Keeps(write_char(scr, g))
  \/ Keeps(handle_tab(scr)) \/ Keeps(handle_cr(scr)) \/ Keeps(handle_bs(scr))
  \/ LineFeed \/ NoControl
  \/ \E p, q \in Params : Position(p, q)
  \/ \E p \in Params :
       \/ Keeps(ansi_cursor_column(scr, p))
       \/ Keeps(ansi_cursor_up(scr, p)) \/ Keeps(ansi_cursor_down(scr, p))
       \/ Keeps(ansi_cursor_right(scr, p)) \/ Keeps(ansi_cursor_left(scr, p))
       \/ Keeps(ansi_cursor_next_line(scr, p)) \/ Keeps(ansi_cursor_prev_line(scr, p))
       \/ Keeps(ansi_erase_display(scr, p)) \/ Keeps(ansi_erase_line(scr, p))
  \/ SaveCursor \/ RestoreCursor
  \/ Reset

Spec == Init /\ [][Next]_vars

-----------------------------------------------------------------------------

Screen == [base: Cell, addr: Cell, col: Column, tvram: [Cell -> Glyph]]

(* Every access of the ROM stays inside the text VRAM. *)
TypeOK ==
  /\ scr \in Screen
  /\ saved \in [addr: Cell, col: Column]
  /\ savedIn \in [base: Cell, strayed: BOOLEAN]
  /\ strayed \in BOOLEAN
  /\ ead \in Cell

(* The two copies of the cursor agree and are on the screen, through every *)
(* wrap of the window round the VRAM, unless the program has sent a line   *)
(* feed from inside the last row or restored a cursor saved before a       *)
(* scroll; positioning the cursor mends it (normalize_cursor and the       *)
(* cursor movements).                                                      *)
Agree(s) ==
  /\ cursor_relative(s) < TEXT_LIMIT
  /\ cursor_relative(s) % ROW_STRIDE = s.col
CursorTrue == ~strayed => Agree(scr)

(* Apart from those two, and again after a positioning, every control     *)
(* function does to the circular VRAM what it does to a plain screen that  *)
(* scrolls its text: no line is lost, kept or blanked that should not be,  *)
(* wherever the window lies.                                               *)
Shown ==
  [r \in 0 .. (Rows - 1) |-> [c \in Column |->
     scr.tvram[(scr.base + r * ROW_STRIDE + c) % TVRAM_CELLS]]]
SavedRow == Back(saved.addr, savedIn.base) \div ROW_STRIDE
Terminal == INSTANCE TextScreen
  WITH grid <- Shown, row <- cursor_relative(scr) \div ROW_STRIDE,
       col <- scr.col, saved <- <<SavedRow, saved.col>>,
       Cols <- ROW_STRIDE, TabStop <- TAB_STOP
ImplementsScreen ==
  Terminal!Init /\ [][~strayed' => [Terminal!Next]_(Terminal!screen)]_vars

(* What the character GDC has been told of the window. *)
set_chr_scroll(s) == <<[start |-> s.base, rows |-> AREA_ROWS, wide |-> FALSE]>>

OnScreen == (0 .. (Rows - 1)) \X Column
CursorsIn(picture) ==
  {p \in OnScreen : \E thing \in picture[p[1]][p[2]] : thing.cursor}
CursorPlace == <<cursor_relative(scr) \div ROW_STRIDE, scr.col>>

(* The display draws the screen, whichever way the window lies round the   *)
(* VRAM.  The GDC's cursor is the ROM's, but for a screen that a reset has *)
(* left fresh and that has had no byte since.  It is then drawn where the  *)
(* next character goes and nowhere else; and once the window has wrapped   *)
(* round the VRAM before the cursor, it is drawn nowhere at all:           *)
(* draw_chr_screen compares it with a pointer that runs on.                *)
DisplayShows ==
  LET picture == draw_chr_screen(set_chr_scroll(scr), scr.tvram, ead)
  IN  /\ \A p \in OnScreen :
           {thing.cell : thing \in picture[p[1]][p[2]]} = {Shown[p[1]][p[2]]}
      /\ ead # scr.addr => scr = Fresh
      /\ ead = scr.addr /\ ~strayed =>
           CursorsIn(picture) = IF scr.addr >= scr.base THEN {CursorPlace} ELSE {}

=============================================================================
