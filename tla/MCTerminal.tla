----------------------------- MODULE MCTerminal -----------------------------
(* Lines of up to three characters, of two kinds; a ring of four.           *)
EXTENDS Terminal

MCNames == {<<"a", "b">>, <<"a", "a", "b", "a">>}
MCScripts == {<<>>, <<"ok", "error", "ok">>, <<"unknown", "jsonerror", "unknown">>}
JsonScripts == {<<"jsonerror", "ok">>}
=============================================================================
