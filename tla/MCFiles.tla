------------------------------ MODULE MCFiles ------------------------------
(* Two devices.  The first has two isf files, the second of which does not  *)
(* fit into the cache when it is longer on the device; the second device    *)
(* has a gap in its ids, and a file of each block with the same id.         *)
EXTENDS PushPull

MCBlank(n, l) == [mem |-> [i \in 0..1 |-> 0], len |-> l, alloc |-> n, mod |-> "user"]
MCImage(small) ==
    [d \in {"d1", "d2"} |->
       IF d = "d1" THEN [f \in {<<"isf", 0>>, <<"isf", 1>>} |-> IF f[2] = 0 THEN MCBlank(2, 1) ELSE small]
       ELSE [f \in {<<"isf", 1>>, <<"iss", 1>>} |-> small]]
MCDb == {MCImage(MCBlank(1, 1))}
MCNode == {MCImage(MCBlank(2, 1))}
MCData == {<<1, 0>>}
MCContents == {[i \in 0..1 |-> 1]}
=============================================================================
