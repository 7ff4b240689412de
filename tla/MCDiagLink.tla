----------------------------- MODULE MCDiagLink -----------------------------
(* The S text holds the letters G and T, as "MAIN DIAG TO SUBCPU" does. *)
EXTENDS DiagLink

MCSubText == <<G, T>>

=============================================================================
