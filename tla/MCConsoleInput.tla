--------------------------- MODULE MCConsoleInput ---------------------------
(* The tables for @ and LINE FEED, with CAPS, EISU, KANA and S1: control   *)
(* and @ gives the byte 0, and S1 gives none.                              *)
EXTENDS ConsoleInput

MCCode == {192, 242, 20, 240, 241, 248}

MCFixed(c) == IF c = 242 THEN 10 ELSE 0

MCKana(c, shift) == IF c = 192 THEN 222 ELSE 0

MCAscii(c, shift, up) == IF c = 192 THEN (IF shift THEN 96 ELSE 64) ELSE 0

MCCtrl(c) == 0

MCData == {0, 10, 64, 96, 222}

=============================================================================
