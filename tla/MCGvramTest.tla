---------------------------- MODULE MCGvramTest ----------------------------
(* The program's own vector and fill table, and the first two arcs.        *)
EXTENDS GvramTest

MCVector == <<2, 127, 62, 8, 0, 8, 0, 0, 0, 0, 0>>

MCFills == << <<0, 0, 0, 170, 85>>, <<128, 0, 0, 51, 204>>, <<0, 0, 1, 15, 240>> >>

MCArcs ==
  << <<148, 37, 0, 33, 56, 0, 80, 0, 0, 0, 0, 0, 0, 0>>,
     <<199, 44, 160, 32, 56, 0, 80, 0, 0, 0, 0, 0, 0, 0>> >>

MCLeftovers ==
  {[AtPowerOn EXCEPT !.state = s, !.op = op, !.hex = h, !.p1 = h, !.index = i] :
     s \in 0 .. 5, op \in 0 .. 2, h \in {0, 160}, i \in {0, 1}}

=============================================================================
