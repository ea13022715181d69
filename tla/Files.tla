------------------------------- MODULE Files -------------------------------
(***************************************************************************)
(* The file commands of cmd_filecmds.c on the open database: every device  *)
(* of the database holds cached copies of the files that are on the device *)
(* itself, which is reached through the device manager.  A command runs    *)
(* under iso_mutex, so that it is one step; its reply leaves before the    *)
(* next command starts.  The veelite file system (vl, otfs) and the device *)
(* are external.                                                           *)
(***************************************************************************)
EXTENDS Integers, Sequences, FiniteSets

CONSTANTS Devs,       \* devices of the database
          Ids,        \* file ids in use
          Bytes,      \* what a byte can be
          MaxAlloc,   \* bound on the allocation of a file
          DstMax,     \* size of the output buffer
          HexMax,     \* bytes that hexbuf of a write holds
          Data, Contents,        \* what clients write, and devices change to
          DbImages, NodeImages,  \* what the database and the devices start with
          Steps       \* bound on commands and changes on the devices

VARIABLES db,      \* db[d]: the files cached for device d
          node,    \* node[d]: the files on device d
          active,  \* the device that otfs_setfs() selected last
          synced,  \* history: the copies that were read from their device and
                   \* have only been written through since
          res,     \* reply of the command that has just run
          running, \* FALSE once the process has ended
          steps

vars == <<db, node, active, synced, res, running, steps>>

Zero == "0"               \* device argument: none given
Unknown == "unknown"      \* device argument: not in the database
Blocks == {"isf", "iss"}
File == Blocks \X Ids
Mem == [0..MaxAlloc - 1 -> Bytes]
Modes == {"guest", "user", "root"}
FileRec == [mem : Mem, len : 0..MaxAlloc, alloc : 0..MaxAlloc, mod : Modes]
None == [cmd |-> "none"]
ImageOK(image) ==
    /\ DOMAIN image = Devs
    /\ \A d \in Devs : /\ DOMAIN image[d] \subseteq File
                       /\ \A f \in DOMAIN image[d] : /\ image[d][f] \in FileRec
                                                      /\ image[d][f].len <= image[d][f].alloc

ASSUME FilesAssumption ==
    /\ Ids \subseteq Nat /\ MaxAlloc \in Nat \ {0} /\ DstMax \in Nat /\ HexMax \in Nat
    /\ Bytes # {} /\ Steps \in Nat
    /\ Devs \cap {"0", "unknown"} = {}
    /\ \A image \in DbImages : ImageOK(image)
    /\ \A image \in NodeImages : ImageOK(image)
    /\ Contents \subseteq Mem
    /\ Data \subseteq UNION {[1..n -> Bytes] : n \in 1..MaxAlloc}


\* The bytes a file has.
Content(file) == [i \in 0..file.len - 1 |-> file.mem[i]]

\* A plausible slip: cut off at the allocation.
SpanToAlloc(file, lo, hi) ==
    LET want == IF hi < lo \/ DstMax < hi - lo THEN DstMax ELSE hi - lo
        rest == file.alloc - lo
    IN  IF rest <= 0 THEN 0 ELSE IF rest < want THEN rest ELSE want

\* What a read returns: the difference of the range is compared with dstmax
\* as an unsigned number, then cut off at the end of the file.
Span(file, lo, hi) ==
    LET want == IF hi < lo \/ DstMax < hi - lo THEN DstMax ELSE hi - lo
        rest == file.len - lo
    IN  IF rest <= 0 THEN 0 ELSE IF rest < want THEN rest ELSE want

\* A plausible slip: the range is not cut off at the allocation.
WriteToUnclipped(file, lo, hi, data) ==
    LET span == IF Len(data) > hi - lo THEN hi - lo ELSE Len(data)
    IN  [file EXCEPT !.len = IF @ < span + lo THEN span + lo ELSE @,
                     !.mem = [i \in DOMAIN @ |->
                                IF i \in lo..lo + span - 1 THEN data[i - lo + 1] ELSE @[i]]]

\* A write into the file: the range is cut off at the allocation, the data at
\* the range, and the file grows when the data ends after it.
WriteTo(file, lo, hi, data) ==
    LET top == IF hi > file.alloc THEN file.alloc ELSE hi
        span == IF Len(data) > top - lo THEN top - lo ELSE Len(data)
    IN  [file EXCEPT !.len = IF @ < span + lo THEN span + lo ELSE @,
                     !.mem = [i \in DOMAIN @ |->
                                IF i \in lo..lo + span - 1 THEN data[i - lo + 1] ELSE @[i]]]

\* A plausible slip: the file never gets shorter.
StoreLonger(file, new) ==
    [file EXCEPT !.len = IF @ < new.len THEN new.len ELSE @,
                 !.mem = [i \in DOMAIN @ |-> IF i < new.len THEN new.mem[i] ELSE @[i]]]

\* vl_store(): the file becomes what was read, if that fits.
Fits(file, new) == new.len <= file.alloc
Store(file, new) ==
    [file EXCEPT !.len = new.len,
                 !.mem = [i \in DOMAIN @ |-> IF i < new.len THEN new.mem[i] ELSE @[i]]]

-----------------------------------------------------------------------------
(* What all commands do first: select the device, find the file.           *)

Target(dev) == IF dev \in Devs THEN dev ELSE active
Found(dev, f) == dev # Unknown /\ f \in DOMAIN db[Target(dev)]
Refusal(dev, rc) == IF dev = Unknown THEN -257 ELSE rc

Begins == running /\ res = None /\ steps < Steps /\ steps' = steps + 1
Command(dev) == Begins /\ active' = Target(dev) /\ UNCHANGED running

Returns(cmd, rc) ==
    /\ res' = [cmd |-> cmd, rc |-> rc]
    /\ UNCHANGED <<db, node, synced>>

ReturnsData(cmd, f, lo, hi, span, file) ==
    res' = [cmd |-> cmd, rc |-> span, lo |-> lo, hi |-> hi, dev |-> active', file |-> f,
            data |-> [i \in 0..span - 1 |-> file.mem[lo + i]]]

Init ==
    /\ db \in DbImages
    /\ node \in NodeImages
    /\ active \in Devs
    /\ synced = {}
    /\ res = None
    /\ running = TRUE
    /\ steps = 0

\* The reply goes to the client.
Reply == res # None /\ res' = None /\ UNCHANGED <<db, node, active, synced, running, steps>>

\* A device writes a file of its own.
DeviceChanges ==
    /\ Begins
    /\ \E d \in Devs, m \in Contents : \E f \in DOMAIN node[d] : \E n \in 0..node[d][f].alloc :
         /\ node' = [node EXCEPT ![d][f].mem = m, ![d][f].len = n]
         /\ synced' = synced \ {<<d, f>>}
    /\ UNCHANGED <<db, active, res, running>>

\* r from the cache: soft, no device manager, or young enough.
CmdReadCached(dev, f, lo, hi) ==
    /\ Command(dev)
    /\ Found(dev, f)
    /\ LET file == db[Target(dev)][f] IN ReturnsData("r", f, lo, hi, Span(file, lo, hi), file)
    /\ UNCHANGED <<db, node, synced>>

\* r through the device manager.  The request has no block, so that the device
\* reads from isf; the number of bytes to return is the one from before.
CmdReadRefreshed(dev, f, lo, hi) ==
    LET d == Target(dev)
        new == node[d][<<"isf", f[2]>>]
        stored == Store(db[d][f], new)
    IN  /\ Command(dev)
        /\ Found(dev, f)
        /\ \/ \E rc \in {-1, -769} : Returns("r", rc)        \* no answer, a short one
           \/ /\ <<"isf", f[2]>> \in DOMAIN node[d]
              /\ ~Fits(db[d][f], new)
              /\ Returns("r", -1025)
           \/ /\ <<"isf", f[2]>> \in DOMAIN node[d]
              /\ Fits(db[d][f], new)
              /\ db' = [db EXCEPT ![d][f] = stored]
              /\ ReturnsData("r", f, lo, hi, Span(db[d][f], lo, hi), stored)
              /\ synced' = IF f[1] = "isf" THEN synced \cup {<<d, f>>} ELSE synced \ {<<d, f>>}
              /\ UNCHANGED node

\* r*, rh and rp read the cache only.
CmdReadAll(dev, f, lo, hi) ==
    /\ Command(dev)
    /\ Found(dev, f)
    /\ LET file == db[Target(dev)][f] IN ReturnsData("r*", f, lo, hi, Span(file, lo, hi), file)
    /\ UNCHANGED <<db, node, synced>>

CmdReadHdr(dev, f) == Command(dev) /\ Found(dev, f) /\ Returns("rh", 0)
CmdReadPerms(dev, f) == Command(dev) /\ Found(dev, f) /\ Returns("rp", 1)

\* z selects the device and always fails.
CmdRestore(dev) == Command(dev) /\ Returns("z", Refusal(dev, -1))

\* A command whose device or file is not there; w and pub turn the sign round.
CmdNotFound(dev, f) ==
    /\ Command(dev)
    /\ ~Found(dev, f)
    /\ \E cmd \in {"r", "r*", "rh", "rp", "wp", "del", "w", "pub"} :
         Returns(cmd, Refusal(dev, IF cmd \in {"w", "pub"} THEN 511 ELSE -513))

WriteReturns(f, through) ==
    res' = [cmd |-> "w", rc |-> 0, dev |-> active', file |-> f, through |-> through]

\* w -s, w without a device manager, and pub: only the cache is written.
CmdWriteCache(dev, f, lo, hi, data) ==
    LET d == Target(dev)
    IN  /\ Command(dev)
        /\ Found(dev, f)
        /\ \/ lo >= db[d][f].alloc /\ Returns("w", -519)
           \/ /\ lo < db[d][f].alloc
              /\ db' = [db EXCEPT ![d][f] = WriteTo(@, lo, hi, data)]
              /\ synced' = synced \ {<<d, f>>}
              /\ WriteReturns(f, FALSE)
              /\ UNCHANGED node

\* w: the cache is written, then the device, and what comes of that is ignored.
\* The request has no block here either.  A gap after the end of the file is
\* filled by what each side has there.  A reversed range does not get this far,
\* see CmdWriteOverruns.
CmdWriteThrough(dev, f, lo, hi, data) ==
    LET d == Target(dev)
        g == <<"isf", f[2]>>
        top == IF hi > db[d][f].alloc THEN db[d][f].alloc ELSE hi
    IN  /\ Command(dev)
        /\ Found(dev, f)
        /\ lo < db[d][f].alloc
        /\ lo <= hi
        /\ db' = [db EXCEPT ![d][f] = WriteTo(@, lo, hi, data)]
        /\ WriteReturns(f, TRUE)
        /\ \/ node' = node /\ synced' = synced \ {<<d, f>>}  \* the write failed
           \/ /\ g \in DOMAIN node[d]
              /\ node' = [node EXCEPT ![d][g] = WriteTo(@, lo, top, data)]
              /\ synced' = IF f = g /\ lo <= db[d][f].len /\ top <= node[d][g].alloc
                             THEN synced ELSE synced \ {<<d, f>>, <<d, g>>}

\* w to the device ends the process when hexbuf is run over: by a reversed range,
\* whose negative length is a very large size_t, for certain; by more data than
\* hexbuf holds, when what lies behind it matters (CmdWriteThrough if not).
CmdWriteOverruns(dev, f, lo, hi, data) ==
    LET d == Target(dev)
        top == IF hi > db[d][f].alloc THEN db[d][f].alloc ELSE hi
    IN  /\ Begins
        /\ active' = d
        /\ Found(dev, f)
        /\ lo < db[d][f].alloc
        /\ hi < lo \/ (Len(data) > HexMax /\ top - lo > HexMax)
        /\ running' = FALSE
        /\ UNCHANGED <<db, node, synced, res>>

CmdWritePerms(dev, f, mod) ==
    /\ Command(dev)
    /\ Found(dev, f)
    /\ db' = [db EXCEPT ![Target(dev)][f].mod = mod]
    /\ res' = [cmd |-> "wp", rc |-> 0]
    /\ UNCHANGED <<node, synced>>

CmdDel(dev, f) ==
    LET d == Target(dev)
    IN  /\ Command(dev)
        /\ Found(dev, f)
        /\ db' = [db EXCEPT ![d] = [g \in DOMAIN @ \ {f} |-> @[g]]]
        /\ synced' = synced \ {<<d, f>>}
        /\ res' = [cmd |-> "del", rc |-> 0]
        /\ UNCHANGED node

\* cmd_extract_args() never sets file_alloc, which stays 0.
CmdNew(dev, f, mod) ==
    LET d == Target(dev)
        new == [mem |-> [i \in 0..MaxAlloc - 1 |-> CHOOSE b \in Bytes : TRUE], len |-> 0, alloc |-> 0, mod |-> mod]
    IN  /\ Command(dev)
        /\ \/ (dev = Unknown \/ Found(dev, f)) /\ Returns("new", Refusal(dev, -513))
           \/ /\ dev # Unknown /\ ~Found(dev, f)
              /\ db' = [db EXCEPT ![d] = [g \in DOMAIN @ \cup {f} |-> IF g = f THEN new ELSE @[g]]]
              /\ res' = [cmd |-> "new", rc |-> 0]
              /\ UNCHANGED <<node, synced>>

FileCommand ==
    \E dev \in Devs \cup {Zero, Unknown}, f \in File :
      \/ \E lo, hi \in 0..MaxAlloc :
           \/ CmdReadCached(dev, f, lo, hi)
           \/ CmdReadRefreshed(dev, f, lo, hi)
           \/ CmdReadAll(dev, f, lo, hi)
           \/ \E data \in Data : CmdWriteCache(dev, f, lo, hi, data)
                                 \/ CmdWriteThrough(dev, f, lo, hi, data)
                                 \/ CmdWriteOverruns(dev, f, lo, hi, data)
      \/ CmdReadHdr(dev, f)
      \/ CmdReadPerms(dev, f)
      \/ CmdRestore(dev)
      \/ CmdNotFound(dev, f)
      \/ CmdDel(dev, f)
      \/ \E mod \in Modes : CmdWritePerms(dev, f, mod) \/ CmdNew(dev, f, mod)
=============================================================================
