------------------------------ MODULE Mailbox -------------------------------
(***************************************************************************)
(* What main/sockpush.c promises to the code that reads from it: a box with *)
(* room for one line.  The device manager posts lines, numbered 1, 2, ...;  *)
(* posting replaces the line in the box.  A read takes the newest line, if  *)
(* it was not taken before.                                                 *)
(***************************************************************************)
EXTENDS Integers

VARIABLES
    posted,     \* the number of the newest line
    taken       \* the number of the line taken last

vars == <<posted, taken>>

Init == posted = 0 /\ taken = 0

Post == posted' = posted + 1 /\ UNCHANGED taken

Take == taken < posted /\ taken' = posted /\ UNCHANGED posted

Next == Post \/ Take

Spec == Init /\ [][Next]_vars
=============================================================================
