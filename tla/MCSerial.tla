------------------------------ MODULE MCSerial ------------------------------
(***************************************************************************)
(* One type of each kind, and a ring of three slots, two of them usable:   *)
(* a few bytes wrap it and overflow it.                                    *)
(***************************************************************************)
EXTENDS Serial

MCKind == [t \in Type |-> t]

=============================================================================
