--------------------------- MODULE ArchiveProofs ---------------------------
(***************************************************************************)
(* What Archive promises of the database in memory, and of what save left  *)
(* on disk, for any devices, files and archives, and any number of         *)
(* commands and crashes.                                                   *)
(***************************************************************************)
EXTENDS Archive, TLAPS

-----------------------------------------------------------------------------
(* Types, and what an archive has of the database while it is saved.       *)

MemoryOK ==
    /\ IsDb(db) /\ tmpl \in 0..2
    /\ alive \in BOOLEAN /\ ops \in 0..MaxOps
DiskOK == DOMAIN disk = Paths /\ \A p \in Paths : IsDir(disk[p])
SnapOK == DOMAIN snap = Paths /\ \A p \in Paths : \A image \in snap[p] : IsDb(image)

\* The archive at p is image, as it was saved.
Faithful(p, image) ==
    /\ disk[p].dir /\ DOMAIN disk[p].devs = DOMAIN image
    /\ \A d \in DOMAIN image : /\ DOMAIN disk[p].devs[d] = Files
                               /\ \A f \in Files : disk[p].devs[d][f] = image[d][f]
SavedOK == \A p \in Paths : \A image \in snap[p] : Faithful(p, image)

\* A save that has not passed a file over has written each file of the devices
\* that are done, and those of the current device that are not left to do.
SoFar(devs) ==
    /\ DOMAIN db = job.todo \cup DOMAIN devs
    /\ \A d \in DOMAIN devs : /\ DOMAIN devs[d] = Files \ (IF d = job.dev THEN job.files ELSE {})
                              /\ \A f \in DOMAIN devs[d] : devs[d][f] = db[d][f]
Saving ==
    /\ DOMAIN job = {"saving", "path", "todo", "dev", "files", "whole"} /\ job.saving
    /\ job.path \in Paths /\ job.todo \subseteq DOMAIN db /\ job.files \subseteq Files
    /\ disk[job.path].dir /\ snap[job.path] = {}
    /\ DOMAIN disk[job.path].devs \cap job.todo = {}
    /\ job.files # {} => job.dev \in DOMAIN disk[job.path].devs \cap DOMAIN db
    /\ job.whole => SoFar(disk[job.path].devs)
JobOK == job = Idle \/ Saving

Inv == MemoryOK /\ DiskOK /\ SnapOK /\ SavedOK /\ JobOK

\* An archive that is there has a template and devices.
LEMMA Dir ==
    ASSUME NEW a, IsDir(a), a.dir
    PROVE  /\ DOMAIN a = {"dir", "tmpl", "devs"}
           /\ a.tmpl \in 0..2 /\ IsPart(a.devs, Contents \cup {"torn"})
  BY DEF IsDir, NoDir

\* What open and load read is a database when no file is cut off.
LEMMA DataIsDb ==
    ASSUME NEW a, IsDir(a), a.dir, NEW known, NEW d \in Good(a, known), d \in known,
           NEW base, \A f \in Files : base[f] \in Contents
    PROVE  /\ DOMAIN DataFile(base, a.devs[d]) = Files
           /\ \A f \in Files : DataFile(base, a.devs[d])[f] \in Contents
<1>1. \A f \in DOMAIN a.devs[d] : a.devs[d][f] \in Contents
  BY Dir DEF Good, Unreadable, IsPart
<1>2. "uid" \in Contents
  BY DEF Contents
<1> QED
  BY <1>1, <1>2 DEF DataFile

\* A command outside of a save that leaves the disk alone.
LEMMA MemoryStep ==
    ASSUME Inv, job = Idle, UNCHANGED <<disk, job, snap>>, MemoryOK'
    PROVE  Inv'
<1>1. DiskOK' /\ SnapOK' /\ JobOK'
  BY DEF Inv, DiskOK, SnapOK, JobOK
<1>2. SavedOK'
  BY DEF Inv, SavedOK, Faithful
<1> QED
  BY <1>1, <1>2 DEF Inv

\* Commands are counted up to the bound.
LEMMA Counts == ASSUME MemoryOK, Counted PROVE ops' \in 0..MaxOps
<1>1. ops \in 0..MaxOps /\ MaxOps \in Nat
  BY ArchiveAssumption DEF MemoryOK
<1> QED
  BY <1>1 DEF Counted

LEMMA InitInv == Init => Inv
<1> SUFFICES ASSUME Init PROVE Inv
  OBVIOUS
<1>1. MemoryOK
  <2>1. 0 \in 0..MaxOps
    BY ArchiveAssumption
  <2> QED
    BY <2>1 DEF Init, MemoryOK, IsDb, IsPart
<1>2. DiskOK
  BY ArchiveAssumption DEF Init, DiskOK
<1>3. SnapOK /\ SavedOK /\ JobOK
  BY DEF Init, SnapOK, SavedOK, JobOK
<1> QED
  BY <1>1, <1>2, <1>3 DEF Inv

\* open, whatever its end: what is attached is a database.
LEMMA OpenInv ==
    ASSUME Inv, NEW p \in Paths,
           CmdOpenNoTemplate \/ CmdOpenFails(p) \/ CmdOpen(p) \/ CmdOpenLosesOld(p)
    PROVE  Inv'
<1>1. job = Idle /\ UNCHANGED <<disk, job, snap>>
  BY DEF CmdOpenNoTemplate, CmdOpenFails, CmdOpen, CmdOpenLosesOld, Fails, Command, Ready
<1>2. CASE CmdOpenNoTemplate \/ CmdOpenFails(p)
  <2>1. MemoryOK'
    BY <1>2 DEF CmdOpenNoTemplate, CmdOpenFails, Fails, memory, Inv, MemoryOK
  <2> QED
    BY <1>1, <2>1, MemoryStep
<1>3. CASE CmdOpen(p)
  <2>1. IsDir(disk[p]) /\ disk[p].dir /\ Good(disk[p], Devs) = DOMAIN disk[p].devs
    BY <1>3 DEF Inv, DiskOK, CmdOpen, Whole
  <2>2. DOMAIN disk[p].devs \subseteq Devs /\ disk[p].tmpl \in 0..2
    BY <2>1, Dir DEF IsPart
  <2>3. \A f \in Files : Defaults[f] \in Contents
    BY DEF Defaults, Contents
  <2>4. IsDb(NewDb(disk[p]))
    BY <2>1, <2>2, <2>3, DataIsDb DEF IsDb, IsPart, NewDb
  <2>5. ops' \in 0..MaxOps
    BY <1>3, Counts DEF CmdOpen, Command, Inv
  <2>6. MemoryOK'
    BY <1>3, <2>2, <2>4, <2>5 DEF CmdOpen, Attach, MemoryOK
  <2> QED
    BY <1>1, <2>6, MemoryStep
<1>4. CASE CmdOpenLosesOld(p)
  <2>1. ops' \in 0..MaxOps
    BY <1>4, Counts DEF CmdOpenLosesOld, Command, Inv
  <2>2. MemoryOK'
    BY <1>4, <2>1 DEF CmdOpenLosesOld, Inv, MemoryOK
  <2> QED
    BY <1>1, <2>2, MemoryStep
<1> QED
  BY <1>2, <1>3, <1>4

\* load reads the archive as far as it is good.
LEMMA LoadInv == ASSUME Inv, NEW p \in Paths, CmdLoad(p) PROVE Inv'
<1>1. job = Idle /\ UNCHANGED <<disk, job, snap>>
  BY DEF CmdLoad, Fails, Command, Ready
<1>2. CASE Fails
  <2>1. MemoryOK'
    BY <1>2 DEF Fails, memory, Inv, MemoryOK
  <2> QED
    BY <1>1, <2>1, MemoryStep
<1>3. CASE ~Fails
  <2>1. /\ Command /\ disk[p].dir /\ UNCHANGED <<tmpl, alive>>
        /\ \E V \in Visits(disk[p]) :
             db' = [d \in DOMAIN db |-> IF d \in V THEN DataFile(db[d], disk[p].devs[d]) ELSE db[d]]
    BY <1>3 DEF CmdLoad
  <2>2. PICK V \in Visits(disk[p]) :
             db' = [d \in DOMAIN db |-> IF d \in V THEN DataFile(db[d], disk[p].devs[d]) ELSE db[d]]
    BY <2>1
  <2>3. V \subseteq Good(disk[p], DOMAIN db) /\ IsDir(disk[p])
    BY <2>2 DEF Visits, Inv, DiskOK
  <2>4. /\ DOMAIN db' = DOMAIN db /\ DOMAIN db \subseteq Devs
        /\ \A d \in DOMAIN db : DOMAIN db[d] = Files /\ \A f \in Files : db[d][f] \in Contents
    BY <2>2 DEF Inv, MemoryOK, IsDb, IsPart
  <2>5. \A d \in DOMAIN db : DOMAIN db'[d] = Files /\ \A f \in Files : db'[d][f] \in Contents
    <3> SUFFICES ASSUME NEW d \in DOMAIN db
                 PROVE  DOMAIN db'[d] = Files /\ \A f \in Files : db'[d][f] \in Contents
      OBVIOUS
    <3>1. CASE d \in V
      BY <2>1, <2>2, <2>3, <2>4, <3>1, DataIsDb
    <3>2. CASE d \notin V
      BY <2>2, <2>4, <3>2
    <3> QED
      BY <3>1, <3>2
  <2>6. IsDb(db')
    BY <2>4, <2>5 DEF IsDb, IsPart
  <2>7. ops' \in 0..MaxOps
    BY <2>1, Counts DEF Command, Inv
  <2>8. MemoryOK'
    BY <2>1, <2>6, <2>7 DEF Inv, MemoryOK
  <2> QED
    BY <1>1, <2>8, MemoryStep
<1> QED
  BY <1>2, <1>3

\* The process is started again: nothing is open.
LEMMA RestartsOK == ASSUME Inv, Counted, Restarts PROVE MemoryOK' /\ JobOK'
<1>1. ops' \in 0..MaxOps
  BY Counts DEF Inv
<1> QED
  BY <1>1 DEF Restarts, MemoryOK, IsDb, IsPart, JobOK

\* The folder of one device ends the process, and leaves the disk alone.
LEMMA FolderInv ==
    ASSUME Inv, NEW d \in Devs, CmdLoadDevice(d) \/ CmdDevNewFrom(d)
    PROVE  Inv'
<1>1. Counted /\ Restarts /\ UNCHANGED <<disk, snap>>
  BY DEF CmdLoadDevice, CmdDevNewFrom, ReadsNoDir, Command
<1>2. MemoryOK' /\ JobOK'
  BY <1>1, RestartsOK
<1> QED
  BY <1>1, <1>2 DEF Inv, DiskOK, SnapOK, SavedOK, Faithful

\* dev-new, dev-del and w.
LEMMA DeviceInv ==
    ASSUME Inv, NEW d \in Devs, \/ CmdDevNew(d) \/ CmdDevDel(d)
                                \/ \E f \in Files, v \in Values : ClientWrites(d, f, v)
    PROVE  Inv'
<1>1. job = Idle /\ UNCHANGED <<disk, job, snap>>
  BY DEF CmdDevNew, CmdDevDel, ClientWrites, Fails, Command, Ready
<1>2. /\ IsDb(db) /\ DOMAIN db \subseteq Devs
      /\ \A e \in DOMAIN db : DOMAIN db[e] = Files /\ \A f \in Files : db[e][f] \in Contents
  BY DEF Inv, MemoryOK, IsDb, IsPart
<1>3. CASE Fails
  <2>1. MemoryOK'
    BY <1>3 DEF Fails, memory, Inv, MemoryOK
  <2> QED
    BY <1>1, <2>1, MemoryStep
<1>4. CASE ~Fails
  <2>1. Command /\ UNCHANGED <<tmpl, alive>>
    BY <1>4 DEF CmdDevNew, CmdDevDel, ClientWrites
  <2>2. IsDb(db')
    <3>1. CASE CmdDevNew(d)
      <4>1. db' = [e \in DOMAIN db \cup {d} |-> IF e = d THEN Defaults ELSE db[e]]
        BY <1>4, <3>1 DEF CmdDevNew
      <4>2. DOMAIN Defaults = Files /\ \A f \in Files : Defaults[f] \in Contents
        BY DEF Defaults, Contents
      <4> QED
        BY <1>2, <4>1, <4>2 DEF IsDb, IsPart
    <3>2. CASE CmdDevDel(d)
      <4>1. db' = [e \in DOMAIN db \ {d} |-> db[e]]
        BY <1>4, <3>2 DEF CmdDevDel
      <4> QED
        BY <1>2, <4>1 DEF IsDb, IsPart
    <3>3. CASE \E f \in Files, v \in Values : ClientWrites(d, f, v)
      <4>1. PICK f \in Files, v \in Values : db' = [db EXCEPT ![d][f] = v]
        BY <3>3 DEF ClientWrites
      <4>2. v \in Contents
        BY DEF Contents
      <4> QED
        BY <1>2, <4>1, <4>2 DEF IsDb, IsPart
    <3> QED
      BY <3>1, <3>2, <3>3
  <2>3. ops' \in 0..MaxOps
    BY <2>1, Counts DEF Command, Inv
  <2>4. MemoryOK'
    BY <2>1, <2>2, <2>3 DEF Inv, MemoryOK
  <2> QED
    BY <1>1, <2>4, MemoryStep
<1> QED
  BY <1>3, <1>4

\* One archive changes, and none was saved to its path.
LEMMA PathStep ==
    ASSUME Inv, NEW p \in Paths, NEW new, IsDir(new), disk' = [disk EXCEPT ![p] = new],
           DOMAIN snap' = Paths, snap'[p] = {}, \A q \in Paths \ {p} : snap'[q] = snap[q]
    PROVE  DiskOK' /\ SnapOK' /\ SavedOK'
<1>1. /\ DOMAIN disk = Paths /\ \A q \in Paths : IsDir(disk[q])
      /\ \A q \in Paths : \A image \in snap[q] : IsDb(image) /\ Faithful(q, image)
  BY DEF Inv, DiskOK, SnapOK, SavedOK
<1>2. DOMAIN disk' = Paths /\ disk'[p] = new /\ \A q \in Paths \ {p} : disk'[q] = disk[q]
  BY <1>1
<1>3. DiskOK' /\ SnapOK'
  BY <1>1, <1>2 DEF DiskOK, SnapOK
<1>4. SavedOK'
  <2> SUFFICES ASSUME NEW q \in Paths, NEW image \in snap'[q] PROVE Faithful(q, image)'
    BY DEF SavedOK
  <2>1. q # p /\ disk'[q] = disk[q] /\ Faithful(q, image)
    BY <1>1, <1>2
  <2> QED
    BY <2>1 DEF Faithful
<1> QED
  BY <1>3, <1>4

\* What could not be removed of an archive is one, with less in it.
LEMMA RemainsIsDir ==
    ASSUME NEW a, IsDir(a), a.dir, NEW left \in Remains(a)
    PROVE  IsDir(left)
<1>1. a.tmpl \in 0..2 /\ IsPart(a.devs, Contents \cup {"torn"})
  BY Dir
<1>2. CASE left = NoDir
  BY <1>2 DEF IsDir
<1>3. CASE left \in [dir : {TRUE}, tmpl : {0, a.tmpl}, devs : PartsOf(a.devs)]
  <2> DEFINE Part(S, F) == [d \in S |-> [f \in F[d] \cap DOMAIN a.devs[d] |-> a.devs[d][f]]]
  <2>0. left.devs \in PartsOf(a.devs)
    BY <1>3
  <2>1. PICK S \in SUBSET DOMAIN a.devs : left.devs \in {Part(S, F) : F \in [S -> SUBSET Files]}
    BY <2>0 DEF PartsOf
  <2>4. PICK F \in [S -> SUBSET Files] : left.devs = Part(S, F)
    BY <2>1
  <2>5. DOMAIN left.devs = S /\ S \subseteq Devs
    BY <1>1, <2>4 DEF IsPart
  <2>6. ASSUME NEW d \in S
        PROVE  /\ DOMAIN left.devs[d] \subseteq Files
               /\ \A f \in DOMAIN left.devs[d] : left.devs[d][f] \in Contents \cup {"torn"}
    <3>1. left.devs[d] = [f \in F[d] \cap DOMAIN a.devs[d] |-> a.devs[d][f]]
      BY <2>4
    <3> QED
      BY <1>1, <2>1, <3>1 DEF IsPart
  <2>2. IsPart(left.devs, Contents \cup {"torn"})
    BY <2>5, <2>6 DEF IsPart
  <2>3. DOMAIN left = {"dir", "tmpl", "devs"} /\ left.dir /\ left.tmpl \in 0..2
    <3> DEFINE P == PartsOf(a.devs)
    <3>1. left \in [dir : {TRUE}, tmpl : {0, a.tmpl}, devs : P]
      BY <1>3
    <3> HIDE DEF P
    <3>2. DOMAIN left = {"dir", "tmpl", "devs"}
      BY <3>1
    <3>3. left.dir /\ left.tmpl \in {0, a.tmpl}
      BY <3>1
    <3> QED
      BY <1>1, <3>2, <3>3
  <2> QED
    BY <2>2, <2>3 DEF IsDir
<1> QED
  BY <1>2, <1>3 DEF Remains

\* save begins with a directory that is empty, or fails before.
LEMMA BeginInv ==
    ASSUME Inv, NEW p \in Paths,
           CmdSaveFails(p) \/ \E list \in SUBSET Devs : list \subseteq DOMAIN db /\ CmdSave(p, list)
    PROVE  Inv'
<1>1. job = Idle /\ DOMAIN snap = Paths /\ DOMAIN disk = Paths
  BY DEF CmdSaveFails, CmdSave, Fails, Command, Ready, Inv, SnapOK, DiskOK
<1>2. CASE Fails /\ CmdSaveFails(p) /\ UNCHANGED <<disk, snap>>
  <2>1. MemoryOK' /\ UNCHANGED <<disk, job, snap>>
    BY <1>2 DEF CmdSaveFails, Fails, memory, Inv, MemoryOK
  <2> QED
    BY <1>1, <2>1, MemoryStep
<1>3. ASSUME CmdSaveFails(p), ~(Fails /\ UNCHANGED <<disk, snap>>) PROVE Inv'
  <2>1. /\ Command /\ disk[p].dir /\ UNCHANGED <<memory, job>>
        /\ snap' = [snap EXCEPT ![p] = {}]
        /\ \E left \in Remains(disk[p]) : disk' = [disk EXCEPT ![p] = left]
    BY <1>3 DEF CmdSaveFails
  <2>2. PICK left \in Remains(disk[p]) : disk' = [disk EXCEPT ![p] = left]
    BY <2>1
  <2>3. IsDir(left)
    BY <2>1, RemainsIsDir DEF Inv, DiskOK
  <2>4. DiskOK' /\ SnapOK' /\ SavedOK'
    BY <1>1, <2>1, <2>2, <2>3, PathStep
  <2>5. ops' \in 0..MaxOps
    BY <2>1, Counts DEF Command, Inv
  <2>6. MemoryOK' /\ JobOK'
    BY <1>1, <2>1, <2>5 DEF memory, Inv, MemoryOK, JobOK
  <2> QED
    BY <2>4, <2>6 DEF Inv
<1>4. ASSUME NEW list \in SUBSET Devs, list \subseteq DOMAIN db, CmdSave(p, list) PROVE Inv'
  <2> DEFINE new == [dir |-> TRUE, tmpl |-> 0, devs |-> [d \in {} |-> 0]]
  <2>1. /\ Command /\ UNCHANGED <<db, tmpl, alive>> /\ disk' = [disk EXCEPT ![p] = new]
        /\ snap' = [snap EXCEPT ![p] = {}]
        /\ job' = [saving |-> TRUE, path |-> p, todo |-> list, dev |-> "none", files |-> {},
                   whole |-> list = DOMAIN db]
    BY <1>4 DEF CmdSave
  <2>2. IsDir(new)
    BY DEF IsDir, IsPart
  <2>3. DiskOK' /\ SnapOK' /\ SavedOK'
    BY <1>1, <2>1, <2>2, PathStep
  <2>4. ops' \in 0..MaxOps
    BY <2>1, Counts DEF Command, Inv
  <2>5. MemoryOK'
    BY <2>1, <2>4 DEF Inv, MemoryOK
  <2>6. Saving'
    <3>1. disk'[p] = new /\ snap'[p] = {}
      BY <1>1, <2>1
    <3>2. DOMAIN disk'[p].devs = {} /\ job'.path = p /\ job'.todo = list
      BY <2>1, <3>1
    <3>3. job'.whole => SoFar(disk[job.path].devs)'
      <4>1. job'.whole => DOMAIN db = list
        BY <2>1
      <4> QED
        BY <2>1, <3>2, <4>1 DEF SoFar
    <3> QED
      BY <1>4, <2>1, <3>1, <3>2, <3>3 DEF Saving
  <2> QED
    BY <2>3, <2>5, <2>6 DEF Inv, JobOK
<1> QED
  BY <1>2, <1>3, <1>4 DEF CmdSaveFails

\* save writes the template.
LEMMA TemplateInv == ASSUME Inv, SaveTemplate PROVE Inv'
<1> DEFINE p == job.path
           new == [disk[p] EXCEPT !.tmpl = tmpl]
<1>1. /\ job.saving /\ disk' = [disk EXCEPT ![p].tmpl = tmpl]
      /\ UNCHANGED <<db, tmpl, alive, job, snap, ops>>
  BY DEF SaveTemplate
<1>2. Saving /\ p \in Paths /\ disk[p].dir /\ snap[p] = {} /\ DOMAIN disk = Paths /\ DOMAIN snap = Paths
  BY <1>1 DEF Inv, JobOK, Saving, Idle, DiskOK, SnapOK
<1>3. DOMAIN disk[p] = {"dir", "tmpl", "devs"} /\ IsPart(disk[p].devs, Contents \cup {"torn"})
  BY <1>2, Dir DEF Inv, DiskOK
<1>4. disk' = [disk EXCEPT ![p] = new]
  BY <1>1
<1>5. /\ DOMAIN new = {"dir", "tmpl", "devs"} /\ new.dir
      /\ new.tmpl = tmpl /\ new.devs = disk[p].devs
  BY <1>2, <1>3
<1>6. IsDir(new)
  <2>1. tmpl \in 0..2
    BY DEF Inv, MemoryOK
  <2> QED
    BY <1>3, <1>5, <2>1 DEF IsDir
<1>7. DiskOK' /\ SnapOK' /\ SavedOK'
  <2>1. snap'[p] = {} /\ DOMAIN snap' = Paths /\ \A q \in Paths \ {p} : snap'[q] = snap[q]
    BY <1>1, <1>2
  <2> HIDE DEF new, p
  <2> QED
    BY <1>2, <1>4, <1>6, <2>1, PathStep
<1>8. MemoryOK'
  BY <1>1 DEF Inv, MemoryOK
<1>9. Saving'
  <2>1. disk'[p].dir /\ disk'[p].devs = disk[p].devs
    BY <1>2, <1>4, <1>5
  <2>2. job'.whole => SoFar(disk[job.path].devs)'
    BY <1>1, <1>2, <2>1 DEF Saving, SoFar
  <2> QED
    BY <1>1, <1>2, <2>1, <2>2 DEF Saving
<1> QED
  BY <1>7, <1>8, <1>9 DEF Inv, JobOK

\* save writes into the directories of devices.
LEMMA DevsStep ==
    ASSUME Inv, Saving, NEW G, IsPart(G, Contents \cup {"torn"}),
           disk' = [disk EXCEPT ![job.path].devs = G], UNCHANGED snap
    PROVE  DiskOK' /\ SnapOK' /\ SavedOK' /\ disk'[job.path].dir /\ disk'[job.path].devs = G
<1> DEFINE p == job.path
           new == [disk[p] EXCEPT !.devs = G]
<1>1. p \in Paths /\ disk[p].dir /\ snap[p] = {} /\ DOMAIN disk = Paths /\ DOMAIN snap = Paths
  BY DEF Inv, Saving, DiskOK, SnapOK
<1>2. DOMAIN disk[p] = {"dir", "tmpl", "devs"} /\ disk[p].tmpl \in 0..2
  BY <1>1, Dir DEF Inv, DiskOK
<1>3. DOMAIN new = {"dir", "tmpl", "devs"} /\ new.dir /\ new.tmpl = disk[p].tmpl /\ new.devs = G
  BY <1>1, <1>2
<1>4. IsDir(new)
  BY <1>2, <1>3 DEF IsDir
<1>5. disk' = [disk EXCEPT ![p] = new]
  OBVIOUS
<1>6. disk'[p] = new
  BY <1>1, <1>5
<1>7. snap'[p] = {} /\ DOMAIN snap' = Paths /\ \A q \in Paths \ {p} : snap'[q] = snap[q]
  BY <1>1
<1>8. DiskOK' /\ SnapOK' /\ SavedOK'
  <2> HIDE DEF new, p
  <2> QED
    BY <1>1, <1>4, <1>5, <1>7, PathStep
<1> QED
  BY <1>3, <1>6, <1>8

\* save makes the directory of the next device.
LEMMA NextDeviceInv == ASSUME Inv, NEW d \in Devs, SaveDevice(d) PROVE Inv'
<1> DEFINE devs == disk[job.path].devs
           G == [e \in DOMAIN devs \cup {d} |-> IF e = d THEN [f \in {} |-> "def"] ELSE devs[e]]
<1>1. /\ job.saving /\ job.files = {} /\ d \in job.todo
      /\ disk' = [disk EXCEPT ![job.path].devs = G]
      /\ job' = [job EXCEPT !.todo = @ \ {d}, !.dev = d, !.files = Files]
      /\ UNCHANGED <<db, tmpl, alive, snap, ops>>
  BY DEF SaveDevice
<1>2. Saving /\ IsDir(disk[job.path]) /\ disk[job.path].dir
  BY <1>1 DEF Inv, JobOK, Saving, Idle, DiskOK
<1>3. IsPart(devs, Contents \cup {"torn"})
  BY <1>2, Dir
<1>4. IsPart(G, Contents \cup {"torn"})
  BY <1>3 DEF IsPart
<1>5. DiskOK' /\ SnapOK' /\ SavedOK' /\ disk'[job.path].dir /\ disk'[job.path].devs = G
  BY <1>1, <1>2, <1>4, DevsStep
<1>6. MemoryOK'
  BY <1>1 DEF Inv, MemoryOK
<1>7. /\ DOMAIN job' = {"saving", "path", "todo", "dev", "files", "whole"} /\ job'.saving
      /\ job'.path = job.path /\ job'.todo = job.todo \ {d} /\ job'.dev = d
      /\ job'.files = Files /\ job'.whole = job.whole
  BY <1>1, <1>2 DEF Saving
<1>8. /\ job.path \in Paths /\ job.todo \subseteq DOMAIN db /\ snap[job.path] = {}
      /\ DOMAIN devs \cap job.todo = {} /\ (job.whole => SoFar(devs))
  BY <1>2 DEF Saving
<1>9. DOMAIN G = DOMAIN devs \cup {d} /\ DOMAIN G[d] = {} /\ \A e \in DOMAIN devs : e # d /\ G[e] = devs[e]
  BY <1>1, <1>8
<1>10. job'.whole => SoFar(disk[job.path].devs)'
  <2> SUFFICES ASSUME job.whole PROVE SoFar(disk[job.path].devs)'
    BY <1>7
  <2>1. /\ DOMAIN db = job.todo \cup DOMAIN devs
        /\ \A e \in DOMAIN devs : /\ DOMAIN devs[e] = Files
                                  /\ \A f \in DOMAIN devs[e] : devs[e][f] = db[e][f]
    BY <1>1, <1>8 DEF SoFar
  <2> HIDE DEF G
  <2>2. DOMAIN db = job'.todo \cup DOMAIN G
    BY <1>1, <1>7, <1>9, <2>1
  <2>3. ASSUME NEW e \in DOMAIN G
        PROVE  /\ DOMAIN G[e] = Files \ (IF e = job'.dev THEN job'.files ELSE {})
               /\ \A f \in DOMAIN G[e] : G[e][f] = db[e][f]
    BY <1>7, <1>9, <2>1
  <2>4. disk'[job'.path].devs = G /\ db' = db
    BY <1>1, <1>5, <1>7 DEF G
  <2> QED
    BY <2>2, <2>3, <2>4 DEF SoFar
<1>11. Saving'
  <2> HIDE DEF G
  <2>1. d \in DOMAIN G \cap DOMAIN db /\ DOMAIN G \cap job'.todo = {}
    BY <1>1, <1>7, <1>8, <1>9
  <2>2. disk'[job'.path].devs = G /\ disk'[job'.path].dir /\ snap'[job'.path] = {}
    BY <1>1, <1>5, <1>7, <1>8 DEF G
  <2> QED
    BY <1>1, <1>7, <1>8, <1>10, <2>1, <2>2 DEF Saving
<1> QED
  BY <1>5, <1>6, <1>11 DEF Inv, JobOK

\* A file more of the device that is being saved, or cut off in the middle.
LEMMA FileIsPart ==
    ASSUME NEW devs, IsPart(devs, Contents \cup {"torn"}), NEW d \in DOMAIN devs,
           NEW f \in Files, NEW h, DOMAIN h = DOMAIN devs[d] \cup {f},
           \A g \in DOMAIN h : h[g] \in Contents \cup {"torn"}
    PROVE  LET G == [devs EXCEPT ![d] = h]
           IN  IsPart(G, Contents \cup {"torn"}) /\ DOMAIN G = DOMAIN devs /\ G[d] = h
               /\ \A e \in DOMAIN devs \ {d} : G[e] = devs[e]
  BY DEF IsPart

\* save writes the next file, or passes it over.
LEMMA FileInv == ASSUME Inv, SaveFile PROVE Inv'
<1> DEFINE devs == disk[job.path].devs
           d == job.dev
           f == CHOOSE g \in job.files : TRUE
           h == [g \in DOMAIN devs[d] \cup {f} |-> IF g = f THEN db[d][f] ELSE devs[d][g]]
           G == [devs EXCEPT ![d] = h]
<1>1. job.saving /\ job.files # {} /\ UNCHANGED <<db, tmpl, alive, snap, ops>>
  BY DEF SaveFile
<1>2. Saving /\ IsDir(disk[job.path]) /\ disk[job.path].dir
  BY <1>1 DEF Inv, JobOK, Saving, Idle, DiskOK
<1>3. /\ DOMAIN job = {"saving", "path", "todo", "dev", "files", "whole"}
      /\ job.path \in Paths /\ job.todo \subseteq DOMAIN db /\ job.files \subseteq Files
      /\ snap[job.path] = {} /\ DOMAIN devs \cap job.todo = {}
      /\ d \in DOMAIN devs /\ d \in DOMAIN db /\ (job.whole => SoFar(devs))
  BY <1>1, <1>2 DEF Saving
<1>4. f \in job.files /\ f \in Files
  BY <1>1, <1>3
<1>5. MemoryOK'
  BY <1>1 DEF Inv, MemoryOK
<1> HIDE DEF f
<1>6. CASE disk' = [disk EXCEPT ![job.path].devs = G] /\ job' = [job EXCEPT !.files = @ \ {f}]
  <2>1. IsPart(devs, Contents \cup {"torn"})
    BY <1>2, Dir
  <2>2. DOMAIN h = DOMAIN devs[d] \cup {f} /\ \A g \in DOMAIN h : h[g] \in Contents \cup {"torn"}
    <3>1. db[d][f] \in Contents
      BY <1>3, <1>4 DEF Inv, MemoryOK, IsDb, IsPart
    <3>2. \A g \in DOMAIN devs[d] : devs[d][g] \in Contents \cup {"torn"}
      BY <1>3, <2>1 DEF IsPart
    <3> QED
      BY <3>1, <3>2
  <2>3. /\ IsPart(G, Contents \cup {"torn"}) /\ DOMAIN G = DOMAIN devs /\ G[d] = h
        /\ \A e \in DOMAIN devs \ {d} : G[e] = devs[e]
    <3>1. d \in DOMAIN devs /\ f \in Files
      BY <1>3, <1>4
    <3> HIDE DEF devs, d, h
    <3> QED
      BY <2>1, <2>2, <3>1, FileIsPart
  <2>4. DiskOK' /\ SnapOK' /\ SavedOK' /\ disk'[job.path].dir /\ disk'[job.path].devs = G
    <3> HIDE DEF d, h, G
    <3> QED
      BY <1>1, <1>2, <1>6, <2>3, DevsStep
  <2>5. /\ DOMAIN job' = {"saving", "path", "todo", "dev", "files", "whole"} /\ job'.saving
        /\ job'.path = job.path /\ job'.todo = job.todo /\ job'.dev = d
        /\ job'.files = job.files \ {f} /\ job'.whole = job.whole
    BY <1>1, <1>3, <1>6
  <2>6. job'.whole => SoFar(disk[job.path].devs)'
    <3> SUFFICES ASSUME job.whole PROVE SoFar(disk[job.path].devs)'
      BY <2>5
    <3>1. /\ DOMAIN db = job.todo \cup DOMAIN devs
          /\ DOMAIN devs[d] = Files \ job.files
          /\ \A e \in DOMAIN devs \ {d} : DOMAIN devs[e] = Files
          /\ \A e \in DOMAIN devs : \A g \in DOMAIN devs[e] : devs[e][g] = db[e][g]
      BY <1>3 DEF SoFar
    <3>2. DOMAIN h = Files \ (job.files \ {f}) /\ \A g \in DOMAIN h : h[g] = db[d][g]
      BY <1>3, <1>4, <2>2, <3>1
    <3>3. disk'[job'.path].devs = G /\ db' = db
      BY <1>1, <2>4, <2>5
    <3> HIDE DEF G, h, devs, d
    <3>4. DOMAIN db = job'.todo \cup DOMAIN G
      BY <2>3, <2>5, <3>1
    <3>5. ASSUME NEW e \in DOMAIN G
          PROVE  /\ DOMAIN G[e] = Files \ (IF e = job'.dev THEN job'.files ELSE {})
                 /\ \A g \in DOMAIN G[e] : G[e][g] = db[e][g]
      <4>1. CASE e = d
        BY <2>3, <2>5, <3>2, <4>1
      <4>2. CASE e # d
        BY <2>3, <2>5, <3>1, <4>2
      <4> QED
        BY <4>1, <4>2
    <3> QED
      BY <3>3, <3>4, <3>5 DEF SoFar
  <2>7. disk'[job'.path].devs = G /\ disk'[job'.path].dir /\ snap'[job'.path] = {}
    BY <1>1, <1>3, <2>4, <2>5
  <2>8. Saving'
    <3> HIDE DEF G, h, devs, d
    <3> QED
      BY <1>1, <1>3, <2>3, <2>5, <2>6, <2>7 DEF Saving
  <2> QED
    BY <1>5, <2>4, <2>8 DEF Inv, JobOK
<1>7. CASE job' = [job EXCEPT !.files = @ \ {f}, !.whole = FALSE] /\ UNCHANGED disk
  <2>1. /\ DOMAIN job' = {"saving", "path", "todo", "dev", "files", "whole"} /\ job'.saving
        /\ job'.path = job.path /\ job'.todo = job.todo /\ job'.dev = d
        /\ job'.files = job.files \ {f} /\ ~job'.whole
    BY <1>1, <1>3, <1>7
  <2>2. Saving'
    BY <1>1, <1>2, <1>3, <1>7, <2>1 DEF Saving
  <2>3. DiskOK' /\ SnapOK' /\ SavedOK'
    BY <1>1, <1>7 DEF Inv, DiskOK, SnapOK, SavedOK, Faithful
  <2> QED
    BY <1>5, <2>2, <2>3 DEF Inv, JobOK
<1> QED
  BY <1>6, <1>7 DEF SaveFile, f

\* save ends: with the whole database on disk when no file was passed over.
LEMMA EndInv == ASSUME Inv, SaveStops \/ SaveEnds PROVE Inv'
<1> DEFINE p == job.path
<1>1. job.saving /\ job' = Idle /\ UNCHANGED <<db, tmpl, alive, disk, ops>>
  BY DEF SaveStops, SaveEnds
<1>2. MemoryOK' /\ DiskOK' /\ JobOK'
  BY <1>1 DEF Inv, MemoryOK, DiskOK, JobOK
<1>3. Saving /\ p \in Paths
  BY <1>1 DEF Inv, JobOK, Saving, Idle
<1>4. CASE SaveStops
  <2>1. UNCHANGED <<disk, snap>>
    BY <1>4 DEF SaveStops
  <2> QED
    BY <1>2, <2>1 DEF Inv, SnapOK, SavedOK, Faithful
<1>5. CASE SaveEnds
  <2>1. /\ job.todo = {} /\ job.files = {}
        /\ snap' = [snap EXCEPT ![p] = IF job.whole THEN {db} ELSE {}]
    BY <1>5 DEF SaveEnds
  <2>2. /\ DOMAIN snap' = Paths /\ snap'[p] = IF job.whole THEN {db} ELSE {}
        /\ \A q \in Paths \ {p} : snap'[q] = snap[q]
    BY <1>3, <2>1 DEF Inv, SnapOK
  <2>3. IsDb(db)
    BY DEF Inv, MemoryOK
  <2>4. job.whole => Faithful(p, db)
    <3> SUFFICES ASSUME job.whole PROVE Faithful(p, db)
      OBVIOUS
    <3>1. disk[p].dir /\ SoFar(disk[p].devs)
      BY <1>3 DEF Saving
    <3>2. DOMAIN disk[p].devs = DOMAIN db
      BY <2>1, <3>1 DEF SoFar
    <3>3. \A d \in DOMAIN disk[p].devs : /\ DOMAIN disk[p].devs[d] = Files
                                         /\ \A f \in DOMAIN disk[p].devs[d] : disk[p].devs[d][f] = db[d][f]
      BY <2>1, <3>1 DEF SoFar
    <3> QED
      BY <3>1, <3>2, <3>3 DEF Faithful
  <2>5. ASSUME NEW q \in Paths, NEW image \in snap'[q] PROVE IsDb(image) /\ Faithful(q, image)'
    <3>1. CASE q = p
      <4>1. image = db /\ Faithful(p, db)
        BY <2>2, <2>4, <3>1
      <4> QED
        BY <1>1, <2>3, <3>1, <4>1 DEF Faithful
    <3>2. CASE q # p
      <4>1. IsDb(image) /\ Faithful(q, image)
        BY <2>2, <3>2 DEF Inv, SnapOK, SavedOK
      <4> QED
        BY <1>1, <4>1 DEF Faithful
    <3> QED
      BY <3>1, <3>2
  <2> QED
    BY <1>2, <2>2, <2>5 DEF Inv, SnapOK, SavedOK
<1> QED
  BY <1>4, <1>5

\* otdb ends: what was saved before stays, and a file may be cut off only in the
\* directory that is being saved.
LEMMA CrashInv == ASSUME Inv, Crash PROVE Inv'
<1>1. Counted /\ Restarts /\ job' = Idle /\ UNCHANGED snap
  BY DEF Crash, Restarts
<1>2. MemoryOK' /\ JobOK'
  BY <1>1, RestartsOK
<1>3. CASE UNCHANGED disk
  BY <1>1, <1>2, <1>3 DEF Inv, DiskOK, SnapOK, SavedOK, Faithful
<1>4. CASE disk' # disk
  <2> DEFINE devs == disk[job.path].devs
             d == job.dev
             f == CHOOSE g \in job.files : TRUE
             h == [g \in DOMAIN devs[d] \cup {f} |-> IF g \in DOMAIN devs[d] THEN devs[d][g] ELSE "torn"]
             G == [devs EXCEPT ![d] = h]
  <2>1. job.saving /\ job.files # {} /\ disk' = [disk EXCEPT ![job.path].devs = G]
    <3>1. /\ job.saving /\ job.files # {}
          /\ disk' = [disk EXCEPT ![job.path].devs[job.dev] =
                         [g \in DOMAIN @ \cup {CHOOSE k \in job.files : TRUE} |->
                            IF g \in DOMAIN @ THEN @[g] ELSE "torn"]]
      BY <1>4 DEF Crash
    <3> QED
      BY <3>1
  <2>2. Saving /\ IsDir(disk[job.path]) /\ disk[job.path].dir
    <3>1. job # Idle
      BY <2>1 DEF Idle
    <3>2. Saving
      BY <3>1 DEF Inv, JobOK
    <3>3. job.path \in Paths /\ disk[job.path].dir
      BY <3>2 DEF Saving
    <3> QED
      BY <3>2, <3>3 DEF Inv, DiskOK
  <2>3. d \in DOMAIN devs /\ f \in Files
    BY <2>1, <2>2 DEF Saving
  <2>4. IsPart(devs, Contents \cup {"torn"})
    BY <2>2, Dir
  <2>5. DOMAIN h = DOMAIN devs[d] \cup {f} /\ \A g \in DOMAIN h : h[g] \in Contents \cup {"torn"}
    BY <2>3, <2>4 DEF IsPart
  <2>6. IsPart(G, Contents \cup {"torn"})
    <3> HIDE DEF devs, d, f, h
    <3> QED
      BY <2>3, <2>4, <2>5, FileIsPart
  <2>7. DiskOK' /\ SnapOK' /\ SavedOK'
    BY <1>1, <2>1, <2>2, <2>6, DevsStep
  <2> QED
    BY <1>2, <2>7 DEF Inv
<1> QED
  BY <1>3, <1>4

\* Every step of otdb keeps the invariant.
LEMMA NextInv == Inv /\ [Next]_vars => Inv'
<1> SUFFICES ASSUME Inv, [Next]_vars PROVE Inv'
  OBVIOUS
<1>1. CASE CmdOpenNoTemplate
  <2>1. job = Idle /\ UNCHANGED <<disk, job, snap>> /\ MemoryOK'
    BY <1>1 DEF CmdOpenNoTemplate, Fails, Ready, memory, Inv, MemoryOK
  <2> QED
    BY <2>1, MemoryStep
<1>2. ASSUME NEW p \in Paths, CmdOpenFails(p) \/ CmdOpen(p) \/ CmdOpenLosesOld(p) PROVE Inv'
  BY <1>2, OpenInv
<1>3. ASSUME NEW p \in Paths, CmdLoad(p) PROVE Inv'
  BY <1>3, LoadInv
<1>4. ASSUME NEW p \in Paths,
             \/ CmdSaveFails(p)
             \/ \E list \in SUBSET Devs : Open /\ list \subseteq DOMAIN db /\ CmdSave(p, list)
      PROVE Inv'
  BY <1>4, BeginInv
<1>10. ASSUME NEW d \in Devs, CmdLoadDevice(d) \/ CmdDevNewFrom(d) PROVE Inv'
  BY <1>10, FolderInv
<1>5. ASSUME NEW d \in Devs, \/ CmdDevNew(d) \/ CmdDevDel(d)
                             \/ \E f \in Files, v \in Values : ClientWrites(d, f, v)
      PROVE Inv'
  BY <1>5, DeviceInv
<1>6. ASSUME NEW d \in Devs, SaveDevice(d) PROVE Inv'
  BY <1>6, NextDeviceInv
<1>7. CASE SaveTemplate \/ SaveFile \/ SaveStops \/ SaveEnds \/ Crash
  BY <1>7, TemplateInv, FileInv, EndInv, CrashInv
<1>8. CASE UNCHANGED vars
  <2>1. UNCHANGED <<db, tmpl, alive, ops>> /\ UNCHANGED <<disk, snap, job>>
    BY <1>8 DEF vars
  <2>2. MemoryOK' /\ DiskOK' /\ SnapOK'
    BY <2>1 DEF Inv, MemoryOK, DiskOK, SnapOK
  <2>3. SavedOK'
    BY <2>1 DEF Inv, SavedOK, Faithful
  <2>4. JobOK'
    <3>1. Saving => Saving'
      <4>1. SoFar(disk[job.path].devs) => SoFar(disk[job.path].devs)'
        BY <2>1 DEF SoFar
      <4> QED
        BY <2>1, <4>1 DEF Saving
    <3> QED
      BY <2>1, <3>1 DEF Inv, JobOK, Idle
  <2> QED
    BY <2>2, <2>3, <2>4 DEF Inv
<1>9. CASE Next
  <2>1. CASE CmdOpenNoTemplate \/ SaveTemplate \/ SaveFile \/ SaveStops \/ SaveEnds \/ Crash
    BY <1>1, <1>7, <2>1
  <2>2. CASE \E p \in Paths : \/ CmdOpenFails(p) \/ CmdOpen(p)
                             \/ CmdOpenLosesOld(p) \/ CmdLoad(p) \/ CmdSaveFails(p)
                             \/ \E list \in SUBSET Devs : Open /\ list \subseteq DOMAIN db /\ CmdSave(p, list)
    BY <1>2, <1>3, <1>4, <2>2
  <2>3. CASE \E d \in Devs : \/ CmdDevNew(d) \/ CmdDevNewFrom(d) \/ CmdLoadDevice(d)
                            \/ CmdDevDel(d) \/ SaveDevice(d)
                            \/ \E f \in Files, v \in Values : ClientWrites(d, f, v)
    BY <1>5, <1>6, <1>10, <2>3
  <2> QED
    BY <1>9, <2>1, <2>2, <2>3 DEF Next
<1> QED
  BY <1>8, <1>9

\* In every state of otdb the types hold, what a save that has passed no file over
\* has written is the database as far as it went, and what such a save of all
\* devices has finished stays on disk until the next save there (cmd_save).
THEOREM Invariance == Spec => []Inv
  BY InitInv, NextInv, PTL DEF Spec

\* The database has devices of all files, and archives have a template and some
\* files of some devices, after any commands and crashes.
THEOREM TypeCorrect == Spec => []TypeOK
<1>1. Inv => TypeOK
  BY DEF Inv, MemoryOK, DiskOK, SnapOK, TypeOK
<1> QED
  BY <1>1, Invariance, PTL

\* open reads back what was saved in the files that it reads.
LEMMA OpensSaved ==
    ASSUME Inv, NEW p \in Paths, CmdOpen(p), NEW image \in snap[p]
    PROVE  /\ DOMAIN db' = DOMAIN image
           /\ \A d \in DOMAIN image, f \in Structs : db'[d][f] = image[d][f]
<1>1. /\ DOMAIN disk[p].devs = DOMAIN image
      /\ \A d \in DOMAIN image : /\ DOMAIN disk[p].devs[d] = Files
                                 /\ \A f \in Files : disk[p].devs[d][f] = image[d][f]
  BY DEF Inv, SavedOK, Faithful
<1>2. db' = NewDb(disk[p]) /\ Structs \subseteq Files
  BY ArchiveAssumption DEF CmdOpen, Attach
<1>3. ASSUME NEW d \in DOMAIN image, NEW f \in Structs PROVE db'[d][f] = image[d][f]
  <2>1. db'[d] = DataFile(Defaults, disk[p].devs[d])
    BY <1>1, <1>2 DEF NewDb
  <2>2. f \in DOMAIN disk[p].devs[d] \cap Structs /\ f \in Files
    BY <1>1, <1>2
  <2>3. db'[d][f] = disk[p].devs[d][f]
    BY <2>1, <2>2 DEF DataFile
  <2> QED
    BY <1>1, <2>2, <2>3
<1> QED
  BY <1>1, <1>2, <1>3 DEF NewDb

\* What a cmd_save() of all devices that passed no file over has written, each
\* cmd_open() that succeeds gives back in the files of type struct, whatever other
\* commands and crashes came between.
THEOREM SavedComesBack == Spec => RoundTrip
<1> DEFINE Same == \A p \in Paths : CmdOpen(p) =>
                      \A image \in snap[p] :
                         /\ DOMAIN db' = DOMAIN image
                         /\ \A d \in DOMAIN image, f \in Structs : db'[d][f] = image[d][f]
<1>1. Inv /\ [Next]_vars => [Same]_vars
  <2> SUFFICES ASSUME Inv PROVE Same
    OBVIOUS
  <2> QED
    BY OpensSaved
<1> QED
  BY <1>1, Invariance, PTL DEF Spec, RoundTrip

=============================================================================
