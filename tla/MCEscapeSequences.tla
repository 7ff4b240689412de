------------------------- MODULE MCEscapeSequences -------------------------
(* Parameters of one and three digits, the largest byte and none; enough   *)
(* of SGR to see two attributes change in either order; noise that opens   *)
(* and breaks off every kind of sequence, ESC G T among it, and sends      *)
(* more digits than a byte holds.                                          *)
EXTENDS EscapeSequences

MCNoise == {ESC, CR, ch.bracket, ch.semicolon, ch.query, ch.nine, ch.G, ch.C,
            ch.T}

=============================================================================
