--------------------------- MODULE MCSubTerminal ---------------------------
(* The values of a cell.  The numbers are in the configuration: a window   *)
(* of three rows of two on a VRAM of seven cells, so that the window       *)
(* starts at every address in turn.                                        *)
EXTENDS SubTerminal

CONSTANTS blank, x

=============================================================================
