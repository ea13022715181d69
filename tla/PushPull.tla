------------------------------ MODULE PushPull ------------------------------
(***************************************************************************)
(* push, pull and dev-ls over the device iterator (cmd_pushpull.c,         *)
(* iterator.c, cmd_devls.c), together with the file commands: all of them  *)
(* work on the same database and the same active device.                   *)
(***************************************************************************)
EXTENDS Files, FiniteSetsExt

CONSTANT PushMax    \* bytes of a file that push sends

ASSUME PushAssumption == PushMax \in Nat

\* The devices an iteration visits: those of the list that exist, all without
\* a list; selecting one makes it the active one.
Visited(list) == IF list = <<>> THEN Devs ELSE {list[i] : i \in DOMAIN list} \cap Devs
LastVisited(list) ==
    IF list = <<>> THEN Devs
    ELSE LET known == {i \in DOMAIN list : list[i] \in Devs}
         IN  IF known = {} THEN {active} ELSE {list[Max(known)]}

Lists == {<<>>} \cup [1..1 -> Devs \cup {Unknown}] \cup
         {l \in [1..2 -> Devs \cup {Unknown}] : l[1] # l[2]}

InBlock(d, b) == {f \in DOMAIN db[d] : f[1] = b}

Iterates(list) ==
    /\ Begins
    /\ active' \in LastVisited(list)
    /\ UNCHANGED running

\* dev-ls lists the devices it visits.
CmdDevLs(list) ==
    /\ Iterates(list)
    /\ res' = [cmd |-> "dev-ls", touched |-> [d \in Visited(list) |-> 0]]
    /\ UNCHANGED <<db, node, synced>>

\* push writes the files that guest or user may access to the device, as far as
\* outbuf holds them; what is on the device after that stays there.
Sent(file) == IF file.len > PushMax THEN PushMax ELSE file.len
Pushed(old, file) == WriteTo(old, 0, old.alloc, [i \in 1..Sent(file) |-> file.mem[i - 1]])

CmdPush(list, b) ==
    LET may == {x \in Visited(list) \X File :
                  /\ x[2] \in InBlock(x[1], b) \cap DOMAIN node[x[1]]
                  /\ db[x[1]][x[2]].mod # "root"}
    IN  /\ Iterates(list)
        /\ \E done \in SUBSET may : \E acked \in SUBSET done :
             /\ node' = [d \in Devs |-> [f \in DOMAIN node[d] |->
                           IF <<d, f>> \in done THEN Pushed(node[d][f], db[d][f]) ELSE node[d][f]]]
             /\ synced' = synced \cup {x \in done :
                  /\ node[x[1]][x[2]].len <= db[x[1]][x[2]].len /\ db[x[1]][x[2]].len <= node[x[1]][x[2]].alloc
                  /\ db[x[1]][x[2]].len <= PushMax}
             /\ res' = [cmd |-> "push", block |-> b, touched |-> [d \in Visited(list) |->
                                                       Cardinality({f \in File : <<d, f>> \in acked})]]
        /\ UNCHANGED db

\* pull opens the ids from 0 to one less than the number of files and stops at
\* the first file the device does not answer; a file that does not fit is
\* counted all the same.
Asked(d, b) == {i \in Ids : <<b, i>> \in InBlock(d, b) /\ i < Cardinality(InBlock(d, b))}
Stops(d, b) == Asked(d, b) \cup {Cardinality(InBlock(d, b))}
\* A plausible slip: the file is counted before its answer is there.
CountedFirst(d, b, stop) == {f \in InBlock(d, b) : f[2] <= stop}

Counted(d, b, stop) == {f \in InBlock(d, b) : f[2] < stop}

CmdPull(list, b) ==
    /\ Iterates(list)
    /\ \E stop \in [Visited(list) -> 0..Cardinality(Ids)] :
         LET stored == {x \in Visited(list) \X File :
                          /\ x[2] \in InBlock(x[1], b) \cap DOMAIN node[x[1]] /\ x[2][2] < stop[x[1]]
                          /\ Fits(db[x[1]][x[2]], node[x[1]][x[2]])}
         IN  /\ \A d \in Visited(list) : stop[d] \in Stops(d, b)
             /\ \A d \in Visited(list) : Counted(d, b, stop[d]) \subseteq DOMAIN node[d]
             /\ db' = [d \in Devs |-> [f \in DOMAIN db[d] |->
                         IF <<d, f>> \in stored THEN Store(db[d][f], node[d][f]) ELSE db[d][f]]]
             /\ synced' = synced \cup stored
             /\ res' = [cmd |-> "pull", block |-> b, touched |->
                          [d \in Visited(list) |-> Cardinality(Counted(d, b, stop[d]))]]
    /\ UNCHANGED node

Next ==
    \/ Reply
    \/ DeviceChanges
    \/ FileCommand
    \/ \E list \in Lists : \/ CmdDevLs(list)
                          \/ \E b \in Blocks : CmdPush(list, b) \/ CmdPull(list, b)

Spec == Init /\ [][Next]_vars

-----------------------------------------------------------------------------
(* Properties.                                                             *)

\* Types, and no file is longer than its allocation, whatever ranges are
\* written and whatever lengths the device answers with.
TypeOK ==
    /\ ImageOK(db)
    /\ ImageOK(node)
    /\ active \in Devs
    /\ synced \subseteq Devs \X File
    /\ running \in BOOLEAN
    /\ steps \in 0..Steps

\* A copy that was read from its device, and has only been written through to
\* it since, has the contents of the file on the device: reads, writes, push
\* and pull agree on ranges and lengths.
SyncedIsEqual ==
    \A d \in Devs, f \in File :
      <<d, f>> \in synced => /\ f \in DOMAIN db[d]
                            /\ Content(db[d][f]) = Content(node[d][f])

\* Byte i of the reply of r and r* is byte lo + i of the file as it is now, and
\* is there if it lies in the range, in the file and in the output buffer.
IsSlice(reply, file) ==
    \A i \in 0..DstMax - 1 :
      /\ i < reply.rc <=> reply.lo + i < reply.hi /\ reply.lo + i \in DOMAIN Content(file)
      /\ i < reply.rc => reply.data[i] = Content(file)[reply.lo + i]

\* r and r* return the bytes of the range that the file has, from the cache and
\* from the device, when the file has the length on the device that it has in
\* the cache; and with any length none from outside the allocation.
ReadReturnsSlice ==
    [][ res'.cmd \in {"r", "r*"} /\ res'.rc >= 0 =>
          LET old == db[res'.dev][res'.file]
              new == db'[res'.dev][res'.file]
          IN  /\ res'.rc > 0 => res'.lo + res'.rc <= new.alloc
              /\ res'.lo <= res'.hi /\ old.len = new.len => res'.rc <= DstMax /\ IsSlice(res', new)
      ]_vars

\* r returns the bytes of the range that the file on the device has, whatever
\* the cache had before: violated, the count is the one from before the refresh.
ReadIsOfTheFile ==
    [][ res'.cmd = "r" /\ res'.rc >= 0 /\ res'.lo <= res'.hi =>
          IsSlice(res', db'[res'.dev][res'.file]) ]_vars

\* A write that is not soft and is answered with 0 has reached the device: a copy
\* that was as on the device still is.
WritePropagates ==
    [][ res'.cmd = "w" /\ res'.rc = 0 /\ res'.through /\ <<res'.dev, res'.file>> \in synced =>
          Content(db'[res'.dev][res'.file]) = Content(node'[res'.dev][res'.file]) ]_vars

\* When push reports as many files as the block has, each of them is on the
\* device as it is here, given the room and no more bytes there than here.
PushIsWhole ==
    [][ res'.cmd = "push" =>
          \A d \in DOMAIN res'.touched :
            res'.touched[d] = Cardinality(InBlock(d, res'.block)) =>
              \A f \in InBlock(d, res'.block) :
                node[d][f].len <= db[d][f].len /\ db[d][f].len <= node[d][f].alloc =>
                  Content(node'[d][f]) = Content(db[d][f]) ]_vars

\* The number that pull reports for a device is the number of files that are as
\* on the device now, when the ids of the block have no gaps and the files fit.
PullCountIsTrue ==
    [][ res'.cmd = "pull" =>
          \A d \in DOMAIN res'.touched :
            LET block == InBlock(d, res'.block)
            IN  (\A f \in block : f \in DOMAIN node[d] /\ f[2] < Cardinality(block) /\ Fits(db[d][f], node[d][f]))
                => \E got \in SUBSET block : /\ Cardinality(got) = res'.touched[d]
                                            /\ \A f \in got : Content(db'[d][f]) = Content(node[d][f])
      ]_vars

\* A read that goes to the device stores the file it was asked for.
RefreshIsOfThisFile ==
    [][ \A d \in Devs, f \in File :
          res'.cmd = "r" /\ f \in DOMAIN db[d] /\ db'[d] # db[d] /\ db'[d][f] # db[d][f]
            => Content(db'[d][f]) = Content(node[d][f]) ]_vars
=============================================================================
