---------------------------- MODULE MCSavedState ----------------------------
(* The main CPU writes to both data registers of the PIO, to two ports of  *)
(* the bridge, to a control register of the PIO and to a port outside the  *)
(* decoder; the sub CPU uses the bridge and both GDCs.                     *)
EXTENDS SavedState

MCByte == {{}, {4}}
MCNul == {}

MCMainOuts ==
  ({48, 49} \X {{3, 7}, {0, 2, 4, 6}}) \cup ({50, 60, 63, 176} \X {{4}})

MCSubPorts == {0, 3, 129, 130}
MCSubBytes == {{}, {0}}

=============================================================================
