------------------------------ MODULE Template ------------------------------
(***************************************************************************)
(* cmd_open(): from a template to a file system and its contents, and what *)
(* of the contents cmd_save() and the next open keep.                      *)
(*                                                                         *)
(* A template is a sequence of the files' _meta objects; each element of a *)
(* file appears in the behaviour when its value is loaded.  Addresses are  *)
(* bytes after the file table; memory is as in Elements.  Lengths of files *)
(* are not modelled here (Files has them).                                 *)
(***************************************************************************)
EXTENDS Elements, SequencesExt

CONSTANTS Templates,        \* sequences of [block, id, size, stock]
          Elements,         \* [nested, pos, bitpos, type, size]: the bytes of a container
          Values,           \* JSON values
          Writes,           \* what a client may write into a whole file
          MaxLoads          \* bound: elements that are loaded

VARIABLES phase,            \* "start", "loading", "written", "saved", "open"
          tmpl,             \* the template, with its defaults
          hdr,              \* <<block, id>> -> [base, alloc]
          mem,              \* the file system
          elems,            \* <<file, element, value>> that were loaded, in order
          saved,            \* what cmd_save() wrote of each
          old               \* mem when it was saved

vars == <<phase, tmpl, hdr, mem, elems, saved, old>>

Missing == -1               \* an id or a size that is not given or no number

\* A size is a number of bytes.
ASSUME TemplateAssumption ==
    \A raw \in Templates :
        raw \in Seq([block : STRING, id : Int, size : Nat \cup {Missing}, stock : STRING])

\* Numbers are of whole bytes; a text has the bits of its bytes.
ASSUME ElementsAssumption ==
    /\ \A e \in Elements :
        /\ e \in [nested : BOOLEAN, pos : Nat, bitpos : Nat, type : STRING \X Nat, size : Nat]
        /\ e.type[1] \in {"int", "uint"} => e.type[2] \in {0, 8, 16, 32, 64}
    /\ \A v \in Values : IsValue(v)

Blocks == <<"gfb", "iss", "isf">>
Junk == {{}, 0..63}

Init ==
    /\ phase = "start" /\ tmpl = <<>> /\ hdr = <<>> /\ mem = {}
    /\ elems = <<>> /\ saved = <<>> /\ old = {}

-----------------------------------------------------------------------------
\* jst_extract_*() and the defaults of step 3a.
Filled(m) ==
    [block |-> IF m.block \in {"gfb", "iss"} THEN m.block ELSE "isf",
     id |-> m.id % 256, size |-> m.size, stock |-> m.stock # "false"]

InBlock(t, b) == {k \in DOMAIN t : t[k].block = b}
Used(t, b) == Cardinality({k \in InBlock(t, b) : t[k].stock})
\* A plausible slip: only the files that have a place in the table are counted.
BlockAllocStock(t, b) ==
    SumFunctionOnSet([k \in DOMAIN t |-> t[k].size], {k \in InBlock(t, b) : t[k].stock})

BlockAlloc(t, b) == SumFunctionOnSet([k \in DOMAIN t |-> t[k].size], InBlock(t, b))
InTable(t, k) == t[k].id < Used(t, t[k].block)

\* The last file of the template with this id; none leaves the header zero.
HdrAlloc(t, b, i) ==
    LET files == {k \in InBlock(t, b) : t[k].id = i}
    IN  IF files = {} THEN 0 ELSE t[Max(files)].size % 65536

\* The sum of what the first i files of a block have in the table.
Before(t, b, i) == SumFunctionOnSet([h \in Nat |-> HdrAlloc(t, b, h)], 0..(i - 1))

\* Where the j-th block starts.
Start(t, j) == SumFunctionOnSet([h \in 1..3 |-> BlockAlloc(t, Blocks[h])], 1..(j - 1))
FsAlloc(t) == Start(t, 4)

\* Step 4: the file table.
Headers(t) ==
    LET Slots(j) == {<<j, i>> : i \in 0..(Used(t, Blocks[j]) - 1)}
        slots == UNION {Slots(j) : j \in 1..3}
    IN  [s \in {<<Blocks[x[1]], x[2]>> : x \in slots} |->
            LET j == CHOOSE n \in 1..3 : Blocks[n] = s[1]
            IN  [base |-> Start(t, j) + Before(t, s[1], s[2]), alloc |-> HdrAlloc(t, s[1], s[2])]]

\* Without an id or a size open fails.
OpenFails(raw) ==
    /\ phase = "start" /\ \E k \in DOMAIN raw : Missing \in {raw[k].id, raw[k].size}
    /\ UNCHANGED vars

OpenTemplate(raw) ==
    /\ phase = "start" /\ \A k \in DOMAIN raw : Missing \notin {raw[k].id, raw[k].size}
    /\ phase' = "loading"
    /\ tmpl' = [k \in DOMAIN raw |-> Filled(raw[k])]
    /\ hdr' = Headers(tmpl')
    /\ UNCHANGED <<mem, elems, saved, old>>

-----------------------------------------------------------------------------
Slot(k) == hdr[<<tmpl[k].block, tmpl[k].id>>]
Address(k, e) == 8 * (Slot(k).base + e.pos)
ContainerLimit(k, e) == IF e.nested THEN e.size ELSE Slot(k).alloc - e.pos

\* Only texts meet junk.
JunkOf(e) == IF TypeSize(e.type).index = "string" THEN Junk ELSE {{}}

Loads(k, e, v, m) ==
    /\ phase = "loading" /\ Len(elems) < MaxLoads /\ InTable(tmpl, k)
    /\ mem' = m /\ elems' = Append(elems, <<k, e, v>>)
    /\ UNCHANGED <<phase, tmpl, hdr, saved, old>>

\* Step 4c: the default of an element.  Outside of a container the bit position
\* is not used.
LoadDefault(k, e, v, junk) ==
    Loads(k, e, v, LoadElement(mem, Address(k, e), ContainerLimit(k, e),
                            IF e.nested THEN e.bitpos ELSE 0, e.type, v, junk))

\* cmdsub_datafile(): memory m with an element of a device's data file.
DataElement(m, k, e, v, junk) ==
    LET size == Least(tmpl[k].size, Slot(k).alloc)
    IN  LoadElement(m, Address(k, e), IF e.nested THEN e.size ELSE size - e.pos, e.bitpos, e.type, v, junk)

LoadData(k, e, v, junk) == Loads(k, e, v, DataElement(mem, k, e, v, junk))

\* w: a client writes all of a file (bound: one write).
ClientWrites(k, bits) ==
    /\ phase = "loading" /\ elems # <<>> /\ InTable(tmpl, k)
    /\ phase' = "written"
    /\ mem' = LET a == 8 * Slot(k).base
                  n == 8 * Slot(k).alloc
              IN  (mem \ a..(a + n - 1)) \cup {a + b : b \in {c \in bits : c < n}}
    /\ UNCHANGED <<tmpl, hdr, elems, saved, old>>

\* cmd_save(): elements of a container have no type where it is looked for, and
\* are not stored; the others are stored without their bit position.
SaveContents ==
    /\ phase \in {"loading", "written"} /\ elems # <<>>
    /\ phase' = "saved" /\ old' = mem
    /\ saved' = [i \in DOMAIN elems |->
                    LET e == elems[i][2]
                    IN  IF e.nested THEN NoValue ELSE StoreElement(mem, Address(elems[i][1], e), 0, e.type)]
    /\ UNCHANGED <<tmpl, hdr, mem, elems>>

\* The next cmd_open() of that archive, with the same template and no defaults.
Reopen(junk) ==
    /\ phase = "saved" /\ phase' = "open"
    /\ mem' = FoldLeftDomain(LAMBDA m, i : DataElement(m, elems[i][1], elems[i][2], saved[i], junk),
                             {}, elems)
    /\ UNCHANGED <<tmpl, hdr, elems, saved, old>>

-----------------------------------------------------------------------------
Next ==
    \/ \E raw \in Templates : OpenFails(raw) \/ OpenTemplate(raw)
    \/ \E k \in DOMAIN tmpl, e \in Elements, v \in Values : \E junk \in JunkOf(e) :
            LoadDefault(k, e, v, junk) \/ LoadData(k, e, v, junk)
    \/ \E k \in DOMAIN tmpl, bits \in Writes : ClientWrites(k, bits)
    \/ SaveContents
    \/ \E junk \in UNION {JunkOf(elems[i][2]) : i \in DOMAIN elems} : Reopen(junk)

Spec == Init /\ [][Next]_vars

-----------------------------------------------------------------------------
(* Files never share a byte, and each lies within its block's part of the  *)
(* memory, although ids may be missing, repeated or beyond the table, and  *)
(* files that are not stock are counted in the blocks and not in the table *)
(* (cmd_open steps 3a to 4b).                                              *)
FilesApart ==
    /\ \A s, r \in DOMAIN hdr :
            s # r => {hdr[s].base + i : i \in 0..(hdr[s].alloc - 1)}
                        \cap {hdr[r].base + i : i \in 0..(hdr[r].alloc - 1)} = {}
    /\ \A s \in DOMAIN hdr : \E j \in 1..3 :
            /\ Blocks[j] = s[1] /\ hdr[s].base >= Start(tmpl, j)
            /\ hdr[s].base + hdr[s].alloc <= Start(tmpl, j + 1)

FileBits(k) == 8 * Slot(k).base..(8 * (Slot(k).base + Slot(k).alloc) - 1)

\* The value of an element is longer than its type.
TooLong(e, v) == v.kind = "string" /\ 8 * v.len > TypeSize(e.type).bits /\ TypeSize(e.type).index \in {"int", "uint"}

\* A step that loads an element changes none but its own bits, in its own file.
OwnBitsOf(k, e, v) ==
    LET changed == SymDiff(mem, mem')
    IN  TooLong(e, v) \/
           /\ changed \subseteq ElementBits(Address(k, e), e.bitpos, e.type)
                                    \cup ElementBits(Address(k, e), 0, e.type)
           /\ (e.nested => e.pos + e.size <= Slot(k).alloc) => changed \subseteq FileBits(k)

(* Loading an element changes no bit of any other element, and no bit of   *)
(* another file unless its container reaches beyond the file, although     *)
(* four bytes are read and written for a bit field (jst_load_element).  A  *)
(* hex string that is longer than its number's type is the exception.      *)
OnlyOwnBits ==
    [][Len(elems') > Len(elems) =>
        OwnBitsOf(Last(elems')[1], Last(elems')[2], Last(elems')[3])]_vars

\* What can be saved and opened again: not the elements of containers, bit fields
\* that do not start with the byte or whose last byte the limit test excludes,
\* numbers that an int cannot hold and texts with a zero byte.
Keeps(i) ==
    LET k == elems[i][1]
        e == elems[i][2]
        t == TypeSize(e.type)
        a == Address(k, e)
        limit == Least(tmpl[k].size, Slot(k).alloc) - e.pos
    IN  /\ ~e.nested
        /\ t.bits > 0
        /\ IF t.index = "bit" THEN e.bitpos = 0 /\ 1 + (t.bits \div 8) <= limit ELSE t.bits \div 8 <= limit
        /\ t.index = "int" /\ t.bits = 64 => old \cap (a + 31)..(a + 63) = {}
        /\ t.index = "uint" /\ t.bits >= 32 => old \cap (a + 31)..(a + t.bits - 1) = {}
        /\ t.index = "string" =>
                \A p \in 0..(t.bits \div 8 - 1) : old \cap (a + 8 * p)..(a + 8 * p + 7) # {}

(* What can be kept has the same value after save and open as before, for  *)
(* whatever clients wrote: limits, widths, signs and positions of loading  *)
(* and storing agree (jst_load_element, jst_store_element, cmd_save).      *)
SurvivesSave ==
    phase = "open" => \A i \in DOMAIN elems :
        LET own(j) == ElementBits(Address(elems[j][1], elems[j][2]), elems[j][2].bitpos, elems[j][2].type)
        IN  Keeps(i) /\ (\A j \in DOMAIN elems \ {i} : own(j) \cap own(i) = {})
                => old \cap own(i) = mem \cap own(i)

=============================================================================
