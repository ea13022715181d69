---------------------------- MODULE MCTemplate ----------------------------
(* The two pure parts of a command, its arguments and the values of its       *)
(* files, side by side: a line is parsed only before a template is opened.    *)
EXTENDS Template, Args, TLC

File(b, i, s, st) == [block |-> b, id |-> i, size |-> s, stock |-> st]
MCTemplates ==
    {<<File("isf", Missing, 1, "true")>>,
     <<File("isf", 0, 2, "none"), File("gfb", 0, 1, "true")>>,
     <<File("none", 1, 1, "true"), File("isf", 0, 3, "true"), File("iss", 256, 1, "none")>>,
     <<File("isf", 0, 1, "true"), File("isf", 0, 2, "true"), File("isf", 5, 3, "true")>>,
     <<File("iss", 0, 2, "false"), File("iss", 1, 1, "true"), File("isf", 0, 9, "true")>>}
At(name, n, pos, bitpos) == [nested |-> FALSE, pos |-> pos, bitpos |-> bitpos, type |-> <<name, n>>, size |-> 0]
In(name, n, pos, bitpos, size) == [At(name, n, pos, bitpos) EXCEPT !.nested = TRUE, !.size = size]
MCElements ==
    {At("bit", 3, 0, 0), In("bit", 3, 0, 6, 2), At("bit", 9, 1, 0), At("int", 16, 1, 0), At("uint", 8, 1, 0),
     At("uint", 32, 0, 0), At("int", 64, 0, 0), At("hex", 2, 0, 0), At("char", 2, 0, 0)}
MCValues == {Number(0..31), Number({0, 6, 30}), String(2, {1, 8, 15})}
MCWrites == {0..71, {1, 7, 8, 63}}

\* The fields of the commands that differ in them.
MCCommands ==
    [r |-> {"json", "soft", "devidopt", "age", "block", "range", "fileid"},
     wp |-> {"json", "devidopt", "block", "fileid", "perms"},
     w |-> {"json", "soft", "devidopt", "block", "range", "fileid", "data"},
     new |-> {"json", "devidopt", "block", "fileid", "perms", "alloc"},
     push |-> {"json", "block", "devids"}, save |-> {"json", "compress", "devids", "archive"},
     devnew |-> {"devid", "json", "archive"}]
Typed(range, id, perms, devid, age) ==
    [range |-> range, id |-> id, perms |-> perms, devid |-> devid, age |-> age, alloc |-> 8, devids |-> <<>>]
MCTyped ==
    {Typed(range, 7, 52, 2, 500) : range \in {<<>>, <<16, Blank>>, <<Blank, 16>>, <<0, 16>>, <<16, 1>>, <<15, 65536>>}}
        \cup {[Typed(<<1, 15>>, 256, 64, 4, 0) EXCEPT !.devids = <<1, 2>>]}
MCGiven == {mandatory \cup other : mandatory \in SUBSET Mandatory, other \in {{}, {"json"}, Flags \cup {"age"}}}
MCLines ==
    {typed @@ [help |-> rest[1], errors |-> rest[2], block |-> rest[3], given |-> given] :
        typed \in MCTyped, given \in MCGiven,
        rest \in {<<FALSE, FALSE, "none">>, <<FALSE, FALSE, "iss">>, <<FALSE, FALSE, "other">>,
                  <<TRUE, FALSE, "none">>, <<FALSE, TRUE, "iss">>}}

MCInit == Init /\ ArgsInit
MCNext == 
    \/ line = NoLine /\ Next /\ UNCHANGED argvars
    \/ phase = "start" /\ ArgsNext /\ UNCHANGED vars
MCSpec == MCInit /\ [][MCNext]_<<vars, argvars>>
===========================================================================
