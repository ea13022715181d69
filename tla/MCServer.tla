------------------------------ MODULE MCServer ------------------------------
(***************************************************************************)
(* Server for TLC: two clients and two devices, in each pair alike.         *)
(***************************************************************************)
EXTENDS Server, TLC

CONSTANTS c1, c2, d1, d2

MCClients  == {c1, c2}
MCDevices  == {d1, d2}
MCOneDevice == {d1}
MCWhole    == {<<"all">>}
MCCut      == {<<"all">>, <<"head", "tail">>}
MCSymmetry == Permutations(MCClients) \union Permutations(MCDevices)
=============================================================================
