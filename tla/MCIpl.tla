-------------------------------- MODULE MCIpl --------------------------------
(* A system track of two sectors, one on each side, so that the image is   *)
(* four records; two good disks, a bad one, and no disk.                   *)
EXTENDS Ipl

CONSTANTS good, other, bad, none

=============================================================================
