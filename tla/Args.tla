-------------------------------- MODULE Args --------------------------------
(***************************************************************************)
(* cmd_extract_args(): the arguments of a command, field by field, and the *)
(* first error.  What argtable makes of the line is the input: whether     *)
(* help is asked for, whether the line fits the command's table, and the   *)
(* text of each argument, "none" when it is not given.  A number is the    *)
(* integer that atoi() makes of its text; a range is what stands between   *)
(* its colons, Blank for nothing: ":16" is <<Blank, 16>>.                  *)
(***************************************************************************)
EXTENDS Integers, Sequences

CONSTANTS Commands,         \* command -> the fields it asks for
          Lines,            \* what argtable may find in a line
          MaxDevid          \* ULLONG_MAX

ASSUME ArgsAssumption ==
    /\ MaxDevid \in Nat
    /\ \A a \in Lines :
        /\ a.help \in BOOLEAN /\ a.errors \in BOOLEAN
        /\ a.range \in Seq(Int) /\ a.id \in Int /\ a.devid \in Nat

VARIABLES line,             \* the line and its command, or None
          args              \* what cmd_extract_args() gives

argvars == <<line, args>>
NoLine == [help |-> FALSE]
W == 65536                  \* uint16_t

MaxRange == W - 1

Blank == -1

Flags == {"json", "soft", "compress"}

\* The least place of a set of places.
First(places) == CHOOSE i \in places : \A j \in places : i <= j

\* strtok_r() finds no empty token, so that ":16" begins at 16.
Tokens(range) == {i \in DOMAIN range : range[i] # Blank}

\* A plausible slip: the end of a range that is not given is its start.
RangeOfStart(range) ==
    LET tokens == Tokens(range)
        rest == {i \in tokens : First(tokens) < i}
        lo == IF tokens = {} THEN 0 ELSE range[First(tokens)] % W
    IN  [lo |-> lo, hi |-> IF rest = {} THEN lo ELSE range[First(rest)] % W]

RangeOf(range) ==
    LET tokens == Tokens(range)
        rest == {i \in tokens : First(tokens) < i}
    IN  [lo |-> IF tokens = {} THEN 0 ELSE range[First(tokens)] % W,
         hi |-> IF rest = {} THEN MaxRange ELSE range[First(rest)] % W]

\* Only the first three characters of a block's name count.
BlockOf(prefix) == IF prefix = "none" THEN "isf" ELSE prefix
BlockOK(prefix) == prefix \in {"none", "isf", "iss", "gfb"}

\* The result codes, in the order of the tests.
Errors(fields, a) ==
    LET Lacks(field) == field \in fields /\ field \notin a.given
    IN  <<<<a.help, -1>>,
          <<a.errors, -3>>,
          <<Lacks("devid"), -4>>,
          <<Lacks("archive"), -5>>,
          <<"block" \in fields /\ ~BlockOK(a.block), -8>>,
          <<Lacks("fileid"), -9>>,
          <<Lacks("perms"), -10>>,
          <<Lacks("alloc"), -11>>,
          <<Lacks("data"), -12>>>>

\* strtoull(): the greatest number for what is greater.
DevidOf(n) == IF n > MaxDevid THEN MaxDevid ELSE n

\* What is not asked for keeps the zero of the initializer.  The branch of
\* the allocation takes the file's id once more: file_alloc is never set.
Taken(fields, a) ==
    LET Asked(field) == field \in fields
        Devid == fields \cap {"devid", "devidopt"} # {} /\ "devid" \in a.given
    IN  [rc |-> 0,
         devid |-> IF Devid THEN DevidOf(a.devid) ELSE 0,
         flags |-> fields \cap a.given \cap Flags,
         devids |-> IF Asked("devids") THEN a.devids ELSE <<>>,
         age |-> IF Asked("age") /\ "age" \in a.given THEN a.age ELSE 0,
         block |-> IF Asked("block") THEN BlockOf(a.block) ELSE "0",
         range |-> IF Asked("range") THEN RangeOf(a.range) ELSE [lo |-> 0, hi |-> 0],
         id |-> IF Asked("fileid") \/ Asked("alloc") THEN a.id % 256 ELSE 0,
         perms |-> IF Asked("perms") THEN a.perms % 64 ELSE 0,
         alloc |-> 0]

ExtractArgs(fields, a) ==
    LET errors == Errors(fields, a)
        failing == {i \in DOMAIN errors : errors[i][1]}
    IN  IF failing = {} THEN Taken(fields, a) ELSE [rc |-> errors[First(failing)][2]]

ArgsInit == line = NoLine /\ args = [rc |-> 0]

\* A line without an argument that argtable has as mandatory has errors.
Parse(cmd, a) ==
    /\ line' = [cmd |-> cmd, a |-> a, help |-> a.help]
    /\ args' = ExtractArgs(Commands[cmd], a)
ArgsDone == line # NoLine /\ line' = NoLine /\ args' = [rc |-> 0]

ArgsNext == (line = NoLine /\ \E cmd \in DOMAIN Commands, a \in Lines : Parse(cmd, a)) \/ ArgsDone

ArgsSpec == ArgsInit /\ [][ArgsNext]_argvars

-----------------------------------------------------------------------------
(* What the API document says of a range: X:Y are the bytes from X up to Y *)
(* and not with it, ":16" the first 16, "8:" all after the 7th, "0:" when  *)
(* none is given.                                                          *)
AsDocumented(typed, r, ps) ==
    LET Given(i) == i \in DOMAIN typed /\ typed[i] # Blank
        From(p) == Given(1) => typed[1] <= p
        UpTo(p) == p < IF Given(2) THEN typed[2] ELSE MaxRange
    IN  \A p \in ps : (r.lo <= p /\ p < r.hi) <=> (From(p) /\ UpTo(p))

\* Ranges with a start, of numbers that a uint16_t holds.
Plain(typed) ==
    LET Given(i) == i \in DOMAIN typed /\ typed[i] # Blank
    IN  /\ Len(typed) <= 2
        /\ \A i \in DOMAIN typed : typed[i] \in 0..MaxRange \cup {Blank}
        /\ Given(2) => Given(1)

Edges == {0, 1, 15, 16, 17, MaxRange - 1, MaxRange}

Mandatory == {"devid", "archive", "fileid", "perms", "alloc", "data"}

(* A command that runs was given all it asks for, and what it gets is what *)
(* was typed: the device, the file, the permissions, the flags and the age *)
(* as far as the numbers fit their fields, and the bytes of a range that   *)
(* has a start (cmd_extract_args).                                         *)
RunsAsTyped ==
    line # NoLine /\ args.rc = 0 =>
        LET a == line.a
            fields == Commands[line.cmd]
            Given(field) == field \in fields /\ field \in a.given
        IN  /\ ~a.help /\ ~a.errors /\ fields \cap Mandatory \subseteq a.given
            /\ "range" \in fields /\ Plain(a.range) => AsDocumented(a.range, args.range, Edges)
            /\ "fileid" \in fields /\ a.id \in 0..255 => args.id = a.id
            /\ Given("perms") /\ a.perms \in 0..63 => args.perms = a.perms
            /\ "block" \in fields /\ a.block # "none" => args.block = a.block
            /\ fields \cap {"devid", "devidopt"} # {} /\ "devid" \in a.given /\ a.devid <= MaxDevid
                => args.devid = a.devid
            /\ Given("age") => args.age = a.age
            /\ \A flag \in Flags : flag \in args.flags <=> Given(flag)

(* The bytes of every range are those that the API document gives it       *)
(* (cmd_extract_args, lines 410-425).                                      *)
RangeIsAsDocumented ==
    line # NoLine /\ args.rc = 0 /\ "range" \in Commands[line.cmd] =>
        AsDocumented(line.a.range, args.range, Edges)

(* The allocation of a new file is the one that was typed                  *)
(* (cmd_extract_args, lines 452-456).                                      *)
AllocIsAsTyped ==
    line # NoLine /\ args.rc = 0 /\ "alloc" \in Commands[line.cmd] =>
        args.alloc = line.a.alloc
=============================================================================
