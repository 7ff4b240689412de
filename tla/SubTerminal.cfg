CONSTANTS
  blank = blank
  x = x
  ROW_STRIDE = 2
  Rows = 3
  TVRAM_CELLS = 7
  AREA_ROWS = 4
  TAB_STOP = 2
  Glyph = {blank, x}
  Blank = blank
  Params = {1, 2, 4}
  SaveBases = {6}
  PrimedAt = {0, 1}
SPECIFICATION Spec
INVARIANTS TypeOK CursorTrue DisplayShows
PROPERTY ImplementsScreen
