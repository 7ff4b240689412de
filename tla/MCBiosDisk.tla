----------------------------- MODULE MCBiosDisk -----------------------------
(* Disks whose records all hold one value: what a drive holds then says    *)
(* which disk is in it until something is written.                         *)
EXTENDS BiosDisk, TLC

MCImages == {[p \in Place |-> [h \in Half |-> x]] : x \in Data}

(* Nothing in the model prefers one contents to another. *)
DataSymmetry == Permutations(Data)

=============================================================================
