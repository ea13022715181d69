----------------------------- MODULE MCArchive -----------------------------
(* Three files, two of type struct; an archive by hand at the first path,   *)
(* perhaps with a file that is cut off, one without data at the other.       *)
EXTENDS Archive

MCArchiveOf(c) == [dir |-> TRUE, tmpl |-> 1,
                   devs |-> [d \in {"d1", "d2"} |-> IF d = "d1" THEN [f \in {"s", "h"} |-> "v1"]
                                                   ELSE [f \in {"s"} |-> c]]]
MCImages == {[p \in {"p1", "p2"} |->
                IF p = "p1" THEN MCArchiveOf(c)
                ELSE [dir |-> TRUE, tmpl |-> 2, devs |-> [d \in {"d1"} |-> [f \in {} |-> "v1"]]]] :
                c \in {"v1", "torn"}}
=============================================================================
