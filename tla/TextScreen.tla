----------------------------- MODULE TextScreen -----------------------------
(***************************************************************************)
(* The terminal a program believes in: a grid of Rows by Cols cells, a     *)
(* cursor on the grid, and a saved cursor.  Text that leaves at the top is *)
(* gone, and what comes in at the bottom is blank.                         *)
(***************************************************************************)
EXTENDS Naturals

CONSTANTS Rows, Cols, TabStop, Glyph, Blank, Params

VARIABLES grid, row, col, saved

screen == <<grid, row, col, saved>>

Row == 0 .. (Rows - 1)
Col == 0 .. (Cols - 1)

Least(i, j) == IF i <= j THEN i ELSE j
Lead(i, j) == IF i >= j THEN i - j ELSE 0

(* A parameter of a control sequence as a count, and as a coordinate. *)
Count(p) == IF p = 0 THEN 1 ELSE p
Coord(p, size) == Least(Lead(p, 1), size - 1)

(* The text moved up by n lines. *)
Lifted(n) ==
  [r \in Row |-> IF r + n \in Row THEN grid[r + n] ELSE [c \in Col |-> Blank]]

(* The cells from one position to another, both included, made blank. *)
Before(r, c, s, d) == r < s \/ (r = s /\ c <= d)
Erased(r0, c0, r1, c1) ==
  [r \in Row |-> [c \in Col |->
     IF Before(r0, c0, r, c) /\ Before(r, c, r1, c1) THEN Blank ELSE grid[r][c]]]

MoveTo(r, c) == row' = r /\ col' = c /\ UNCHANGED <<saved, grid>>

(* Glyphs written on the cursor's line; after the last column the cursor   *)
(* goes to the next line.                                                  *)
WriteTo(n, g) ==
  LET written == [grid EXCEPT ![row] =
                    [c \in Col |-> IF c \in col .. (col + n - 1) THEN g ELSE @[c]]]
      wraps == col + n = Cols
      lifts == wraps /\ row = Rows - 1
  IN  /\ col' = IF wraps THEN 0 ELSE col + n
      /\ row' = IF wraps /\ ~lifts THEN row + 1 ELSE row
      /\ grid' = IF lifts
                   THEN [r \in Row |-> IF r + 1 \in Row THEN written[r + 1]
                                                        ELSE [c \in Col |-> Blank]]
                   ELSE written
      /\ UNCHANGED saved

Put(g) == WriteTo(1, g)
Tab == WriteTo(TabStop - (col % TabStop), Blank)

CarriageReturn == MoveTo(row, 0)

Lines(n) ==
  /\ row' = Least(row + n, Rows - 1)
  /\ grid' = Lifted(Lead(row + n, Rows - 1))

LineFeed == UNCHANGED <<col, saved>> /\ Lines(1)
NextLine(p) == col' = 0 /\ UNCHANGED saved /\ Lines(Count(p))

Backspace ==
  /\ col # 0
  /\ col' = col - 1
  /\ UNCHANGED <<row, saved>>
  /\ grid' = [grid EXCEPT ![row][col - 1] = Blank]

Position(p, q) == MoveTo(Coord(p, Rows), Coord(q, Cols))
Column(p) == MoveTo(row, Coord(p, Cols))
Up(p) == MoveTo(Lead(row, Count(p)), col)
Down(p) == MoveTo(Least(row + Count(p), Rows - 1), col)
Right(p) == MoveTo(row, Least(col + Count(p), Cols - 1))
Left(p) == MoveTo(row, Lead(col, Count(p)))
PreviousLine(p) == MoveTo(Lead(row, Count(p)), 0)

EraseDisplay(p) ==
  /\ UNCHANGED <<row, col, saved>>
  /\ grid' = CASE p = 1        -> Erased(0, 0, row, col)
               [] p \in {2, 3} -> Erased(0, 0, Rows - 1, Cols - 1)
               [] OTHER        -> Erased(row, col, Rows - 1, Cols - 1)

EraseLine(p) ==
  /\ UNCHANGED <<row, col, saved>>
  /\ grid' = CASE p = 1   -> Erased(row, 0, row, col)
               [] p = 2   -> Erased(row, 0, row, Cols - 1)
               [] OTHER   -> Erased(row, col, row, Cols - 1)

Save == UNCHANGED <<row, col>> /\ saved' = <<row, col>> /\ UNCHANGED grid
Restore == MoveTo(saved[1], saved[2])

Clear ==
  /\ row' = 0 /\ col' = 0
  /\ grid' = [r \in Row |-> [c \in Col |-> Blank]]
  /\ UNCHANGED saved

Init ==
  /\ grid = [r \in Row |-> [c \in Col |-> Blank]]
  /\ row = 0 /\ col = 0
  /\ saved = <<0, 0>>

Next ==
  \/ \E g \in Glyph : Put(g)
  \/ Tab \/ CarriageReturn \/ LineFeed \/ Backspace
  \/ \E p, q \in Params : Position(p, q)
  \/ \E p \in Params :
       \/ Column(p) \/ Up(p) \/ Down(p) \/ Right(p) \/ Left(p)
       \/ NextLine(p) \/ PreviousLine(p)
       \/ EraseDisplay(p) \/ EraseLine(p)
  \/ Save \/ Restore \/ Clear

Spec == Init /\ [][Next]_screen

=============================================================================
