----------------------------- MODULE MCConsole -----------------------------
(* Two payload bytes that differ, so that a swap or a repeat shows, and    *)
(* NUL; strings of one to three bytes.                                     *)
EXTENDS Console

CONSTANTS a, b, nul

MCTexts == {<<a>>, <<a, b>>, <<b, b, a>>}

=============================================================================
