------------------------------ MODULE Display ------------------------------
(***************************************************************************)
(* The text half of the display (DISPLAY::draw_chr_screen): what it draws  *)
(* from the text VRAM, the display areas and the cursor of the character   *)
(* GDC.  An area is a start address, a number of text rows and the bit for *)
(* double width; rows of pixels, fonts and attributes are left out.        *)
(***************************************************************************)
EXTENDS Naturals, Sequences

CONSTANTS
  ROW_STRIDE,    \* columns; 80
  Rows,          \* 25
  TVRAM_CELLS    \* 2048

ASSUME StrideIsPos == ROW_STRIDE \in Nat \ {0} /\ Rows \in Nat \ {0}
ASSUME WindowFits ==
  /\ TVRAM_CELLS \in Nat
  /\ Rows * ROW_STRIDE < TVRAM_CELLS
  /\ TVRAM_CELLS < (Rows + 1) * ROW_STRIDE

Cell == 0 .. (TVRAM_CELLS - 1)
Column == 0 .. (ROW_STRIDE - 1)

(* The text row an area begins at, below the areas before it. *)
Top(areas) ==
  LET top[i \in DOMAIN areas] == IF i = 1 THEN 0 ELSE top[i - 1] + areas[i - 1].rows
  IN  top

(* The areas, at most four, that cover a row: none or one. *)
AreaAt(areas, k) ==
  {i \in DOMAIN areas : i <= 4 /\ k - Top(areas)[i] \in 0 .. (areas[i].rows - 1)}

Step(area) == IF area.wide THEN 2 ELSE 1

(* The pointer is reduced to the VRAM at the start of an area and for each *)
(* read, but runs on from row to row.                                      *)
Pointer(area, row, c) ==
  (area.start % TVRAM_CELLS) + row * (ROW_STRIDE \div Step(area)) + c \div Step(area)

CursorAfterRead(p, cursor) == p + 1 = cursor

(* It is the pointer as it runs that is compared with the cursor. *)
CursorHere(p, cursor) == p = cursor

(* The screen, row by row, as the set of none or one thing shown at each   *)
(* place: the cell, and whether as the cursor.  A row no area covers is    *)
(* empty.                                                                  *)
draw_chr_screen(areas, tvram, cursor) ==
  [k \in 0 .. (Rows - 1) |->
     LET at == AreaAt(areas, k)
     IN  [c \in Column |->
            {LET p == Pointer(areas[i], k - Top(areas)[i], c)
             IN  [cell |-> tvram[p % TVRAM_CELLS], cursor |-> CursorHere(p, cursor)] :
               i \in at}]]

=============================================================================
