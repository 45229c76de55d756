----------------------------- MODULE MCPrintFmt -----------------------------
(***************************************************************************)
(* The strings that callers of PrintFmt pass: empty, of one character, and *)
(* with a character that cannot be printed.                                *)
(***************************************************************************)
EXTENDS PrintFmt

MCStrs == {<<>>, <<"a">>, <<"a", "\t", "b">>}
=============================================================================
