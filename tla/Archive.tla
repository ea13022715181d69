------------------------------ MODULE Archive ------------------------------
(***************************************************************************)
(* The database in memory and its archives on disk: open and load          *)
(* (cmd_open_load.c), save (cmd_save.c), dev-new and dev-del               *)
(* (cmd_devcmds.c), across failing steps and a crash of otdb.  A command   *)
(* runs under iso_mutex; only save is split into steps, because what it    *)
(* has written when it fails or the process ends stays on disk.  Of open   *)
(* nothing is on disk, and nothing that it does to the attached database   *)
(* can fail but the freeing of the old one.                                *)
(***************************************************************************)
EXTENDS Integers, FiniteSets

CONSTANTS Devs,             \* devices
          LongIds,          \* those with ids of more than 14 hex digits
          Files, Structs,   \* files of the templates; those of type struct
          IdFile,           \* the file that holds the id of the device
          Paths,            \* archive directories
          Values,           \* what clients write
          Images,           \* what may be on disk when otdb is installed
          MaxOps            \* bound on commands and crashes

VARIABLES db,       \* devices of the attached database, none before open
          tmpl,     \* version of the template behind db (ext.tmpl and ext.tmpl_fs),
                    \* 0 without
          alive,    \* FALSE: ext.db is a database that was freed
          disk,     \* disk[p]: the archive at p or NoDir
          job,      \* the save that is running, Idle without
          snap,     \* history: {the database that the last save to p wrote whole}
          reply,    \* result of the last command
          ops

vars == <<db, tmpl, alive, disk, job, snap, reply, ops>>
memory == <<db, tmpl, alive>>

NoDir == [dir |-> FALSE]
Idle == [saving |-> FALSE]
Contents == {"def", "uid"} \cup Values          \* as in the template; the device id
\* Some of the devices, with some of their files.
IsPart(devs, contents) ==
    /\ DOMAIN devs \subseteq Devs
    /\ \A d \in DOMAIN devs :
         DOMAIN devs[d] \subseteq Files /\ \A f \in DOMAIN devs[d] : devs[d][f] \in contents
IsDir(a) ==
    \/ a = NoDir
    \/ /\ DOMAIN a = {"dir", "tmpl", "devs"} /\ a.dir
       /\ a.tmpl \in 0..2 /\ IsPart(a.devs, Contents \cup {"torn"})
IsDb(devs) == IsPart(devs, Contents) /\ \A d \in DOMAIN devs : DOMAIN devs[d] = Files
Open == tmpl # 0

ASSUME ArchiveAssumption ==
    /\ LongIds \subseteq Devs /\ Structs \subseteq Files /\ IdFile \in Structs
    /\ \A image \in Images : DOMAIN image = Paths /\ \A p \in Paths : IsDir(image[p])
    /\ MaxOps \in Nat

Init ==
    /\ db = [d \in {} |-> 0]
    /\ tmpl = 0
    /\ alive = TRUE
    /\ disk \in Images
    /\ job = Idle
    /\ snap = [p \in Paths |-> {}]
    /\ reply = "none"
    /\ ops = 0

Ready == job = Idle /\ alive    \* whatever uses a freed database is undefined
Counted == ops < MaxOps /\ ops' = ops + 1
Command == Ready /\ Counted

\* The process ends, and is started again without a database.
Restarts ==
    /\ db' = [d \in {} |-> 0]
    /\ tmpl' = 0
    /\ alive' = TRUE
    /\ job' = Idle
    /\ reply' = "none"

\* A command that fails without an effect is not counted.
Fails == Ready /\ reply' = "error" /\ UNCHANGED <<memory, ops>>

-----------------------------------------------------------------------------
(* Reading an archive.                                                     *)

\* A plausible slip: a file that is not JSON is passed over.
UnreadableNever(data) == FALSE

\* A file of the device directory is not JSON: jst_aggregate_json() fails.
Unreadable(data) == \E f \in DOMAIN data : data[f] = "torn"

\* A plausible slip: the id is written after the data of the device.
DataFileIdLast(image, data) ==
    [f \in Files |-> IF f = IdFile THEN "uid"
                     ELSE IF f \in DOMAIN data \cap Structs THEN data[f] ELSE image[f]]

\* cmdsub_datafile(): the device id is written first, then each file that the
\* template has too.  A file of type hex or array is passed over, since both its
\* contents and the template's would have to be JSON objects.
DataFile(image, data) ==
    [f \in Files |-> IF f \in DOMAIN data \cap Structs THEN data[f]
                     ELSE IF f = IdFile THEN "uid" ELSE image[f]]

Defaults == [f \in Files |-> "def"]

\* The devices, of those that are to be read, whose directories can be read.  The
\* path is cut after the 14th digit of an id, so that it cannot be opened.
Good(archive, known) ==
    {d \in DOMAIN archive.devs :
        d \notin LongIds /\ (d \in known => ~Unreadable(archive.devs[d]))}
Whole(archive) == Good(archive, Devs) = DOMAIN archive.devs

\* load visits the directories in any order until one fails, and reads those of
\* devices that the database has: what may have been visited when it ends.
Visits(archive) ==
    LET good == Good(archive, DOMAIN db) IN
    IF good = DOMAIN archive.devs THEN {good} ELSE SUBSET good

NewDb(archive) == [d \in DOMAIN archive.devs |-> DataFile(Defaults, archive.devs[d])]

\* open finds no archive, no template in it, a bad one, or has no memory.
CmdOpenNoTemplate ==
    /\ Fails
    /\ UNCHANGED <<disk, job, snap>>

\* The database is built aside from a good template; a device that fails ends
\* open, and so does a lack of memory on the way.
CmdOpenFails(p) ==
    /\ disk[p].dir /\ disk[p].tmpl # 0
    /\ Fails
    /\ UNCHANGED <<disk, job, snap>>

\* Everything is read: the template is copied, the old database freed and the
\* new one attached together with its template.
Attach(new, t) ==
    /\ db' = new
    /\ tmpl' = t
    /\ alive' = TRUE

CmdOpen(p) ==
    /\ Command
    /\ disk[p].dir /\ disk[p].tmpl # 0
    /\ Whole(disk[p])
    /\ Attach(NewDb(disk[p]), disk[p].tmpl)
    /\ reply' = "ok"
    /\ UNCHANGED <<disk, job, snap>>

\* otfs_deinit() reports an error: the new database is dropped, and the old one
\* that is still attached has been freed.
CmdOpenLosesOld(p) ==
    /\ Command
    /\ Open
    /\ disk[p].dir /\ disk[p].tmpl # 0
    /\ Whole(disk[p])
    /\ alive' = FALSE
    /\ reply' = "error"
    /\ UNCHANGED <<db, tmpl, disk, job, snap>>

\* load overwrites the devices of the database that the archive has, in any
\* order until one fails; what was loaded before stays.  The list of devices is
\* not regarded, uid_in_list() is always true.
CmdLoad(p) ==
    /\ \/ (~Open \/ ~disk[p].dir) /\ Fails
       \/ /\ Command /\ Open /\ disk[p].dir
          /\ \E V \in Visits(disk[p]) :
               /\ db' = [d \in DOMAIN db |-> IF d \in V THEN DataFile(db[d], disk[p].devs[d]) ELSE db[d]]
               /\ reply' = IF V = DOMAIN disk[p].devs THEN "ok" ELSE "part"
          /\ UNCHANGED <<tmpl, alive>>
    /\ UNCHANGED <<disk, job, snap>>

\* load of the folder of one device, and dev-new from a folder: cmdsub_datafile()
\* is given no DIR of it, and readdir_r() of NULL ends the process.
ReadsNoDir == Command /\ Restarts /\ UNCHANGED <<disk, snap>>

CmdLoadDevice(d) == Open /\ d \in DOMAIN db /\ ReadsNoDir

CmdDevNewFrom(d) == Open /\ d \notin DOMAIN db /\ ReadsNoDir

\* dev-new with NULL for the archive: a copy of the template.  It fails when the
\* device exists, there is no memory, or the archive it names is no directory.
CmdDevNew(d) ==
    /\ \/ Fails
       \/ /\ Command /\ Open /\ d \notin DOMAIN db
          /\ db' = [e \in DOMAIN db \cup {d} |-> IF e = d THEN Defaults ELSE db[e]]
          /\ reply' = "ok"
          /\ UNCHANGED <<tmpl, alive>>
    /\ UNCHANGED <<disk, job, snap>>

CmdDevDel(d) ==
    /\ Open
    /\ \/ d \notin DOMAIN db /\ Fails
       \/ /\ Command /\ d \in DOMAIN db
          /\ db' = [e \in DOMAIN db \ {d} |-> db[e]]
          /\ reply' = "ok"
          /\ UNCHANGED <<tmpl, alive>>
    /\ UNCHANGED <<disk, job, snap>>

\* w on a cached file.
ClientWrites(d, f, v) ==
    /\ Command
    /\ Open /\ d \in DOMAIN db
    /\ db' = [db EXCEPT ![d][f] = v]
    /\ reply' = "ok"
    /\ UNCHANGED <<tmpl, alive, disk, job, snap>>

-----------------------------------------------------------------------------
(* save.                                                                   *)

\* save removes what is at the path and makes the directory; with a list only
\* the devices of the list that exist are saved.
CmdSave(p, list) ==
    /\ Command
    /\ Open
    /\ disk' = [disk EXCEPT ![p] = [dir |-> TRUE, tmpl |-> 0, devs |-> [d \in {} |-> 0]]]
    /\ job' = [saving |-> TRUE, path |-> p, todo |-> list, dev |-> "none", files |-> {},
               whole |-> list = DOMAIN db]
    /\ snap' = [snap EXCEPT ![p] = {}]
    /\ reply' = "none"
    /\ UNCHANGED <<db, tmpl, alive>>

\* Some of the directories of devices, each with some of its files.
PartsOf(devs) ==
    UNION {{[d \in S |-> [f \in F[d] \cap DOMAIN devs[d] |-> devs[d][f]]] : F \in [S -> SUBSET Files]} :
              S \in SUBSET DOMAIN devs}

\* What cmd_rmdir() may leave of an archive: it goes on after what it cannot remove.
Remains(archive) ==
    {NoDir} \cup [dir : {TRUE}, tmpl : {0, archive.tmpl}, devs : PartsOf(archive.devs)]

\* What is at the path cannot be removed, or only in part; no directory made.
CmdSaveFails(p) ==
    /\ \/ Fails /\ UNCHANGED <<disk, snap>>
       \/ /\ Command
          /\ disk[p].dir
          /\ \E left \in Remains(disk[p]) : disk' = [disk EXCEPT ![p] = left]
          /\ snap' = [snap EXCEPT ![p] = {}]
          /\ reply' = "error"
          /\ UNCHANGED memory
    /\ UNCHANGED job

SaveTemplate ==
    /\ job.saving
    /\ disk[job.path].tmpl = 0
    /\ disk' = [disk EXCEPT ![job.path].tmpl = tmpl]
    /\ UNCHANGED <<db, tmpl, alive, job, snap, reply, ops>>

\* The next device: its directory, and the files of the template to write.
SaveDevice(d) ==
    /\ job.saving
    /\ disk[job.path].tmpl # 0
    /\ job.files = {}
    /\ d \in job.todo
    /\ disk' = [disk EXCEPT ![job.path].devs =
                  [e \in DOMAIN @ \cup {d} |-> IF e = d THEN [f \in {} |-> "def"] ELSE @[e]]]
    /\ job' = [job EXCEPT !.todo = @ \ {d}, !.dev = d, !.files = Files]
    /\ UNCHANGED <<db, tmpl, alive, snap, reply, ops>>

\* The files are written in the order of the template; one that cannot be is passed over and not reported.
SaveFile ==
    LET d == job.dev
        f == CHOOSE g \in job.files : TRUE
    IN  /\ job.saving
        /\ job.files # {}
        /\ \/ /\ disk' = [disk EXCEPT ![job.path].devs[d] =
                            [g \in DOMAIN @ \cup {f} |-> IF g = f THEN db[d][f] ELSE @[g]]]
              /\ job' = [job EXCEPT !.files = @ \ {f}]
           \/ /\ job' = [job EXCEPT !.files = @ \ {f}, !.whole = FALSE]
              /\ UNCHANGED disk
        /\ UNCHANGED <<db, tmpl, alive, snap, reply, ops>>

\* A directory or the template cannot be written: save ends there.
SaveStops ==
    /\ job.saving
    /\ job.files = {}
    /\ job' = Idle
    /\ reply' = "error"
    /\ UNCHANGED <<db, tmpl, alive, disk, snap, ops>>

SaveEnds ==
    /\ job.saving
    /\ disk[job.path].tmpl # 0
    /\ job.todo = {} /\ job.files = {}
    /\ job' = Idle
    /\ snap' = [snap EXCEPT ![job.path] = IF job.whole THEN {db} ELSE {}]
    /\ reply' = "ok"
    /\ UNCHANGED <<db, tmpl, alive, disk, ops>>

\* otdb ends, in a save perhaps in the middle of a file, and starts without a
\* database.
Crash ==
    /\ Counted
    /\ Restarts
    /\ \/ UNCHANGED disk
       \/ /\ job.saving
          /\ job.files # {}
          /\ disk' = [disk EXCEPT ![job.path].devs[job.dev] =
                         [g \in DOMAIN @ \cup {CHOOSE f \in job.files : TRUE} |->
                            IF g \in DOMAIN @ THEN @[g] ELSE "torn"]]
    /\ UNCHANGED snap

Next ==
    \/ CmdOpenNoTemplate
    \/ \E p \in Paths : \/ CmdOpenFails(p) \/ CmdOpen(p)
                        \/ CmdOpenLosesOld(p) \/ CmdLoad(p) \/ CmdSaveFails(p)
                        \/ \E list \in SUBSET Devs : Open /\ list \subseteq DOMAIN db /\ CmdSave(p, list)
    \/ \E d \in Devs : \/ CmdDevNew(d) \/ CmdDevNewFrom(d) \/ CmdLoadDevice(d)
                       \/ CmdDevDel(d) \/ SaveDevice(d)
                       \/ \E f \in Files, v \in Values : ClientWrites(d, f, v)
    \/ SaveTemplate \/ SaveFile \/ SaveStops \/ SaveEnds \/ Crash

Spec == Init /\ [][Next]_vars

-----------------------------------------------------------------------------
(* Properties.                                                             *)

TypeOK ==
    /\ IsDb(db)
    /\ tmpl \in 0..2
    /\ alive \in BOOLEAN
    /\ DOMAIN disk = Paths /\ DOMAIN snap = Paths
    /\ \A p \in Paths : IsDir(disk[p]) /\ \A image \in snap[p] : IsDb(image)
    /\ ops \in 0..MaxOps

\* An open that fails keeps the database that was attached: old data remains
\* (the comment before the switch in cmd_open).
OldDataRemains == reply = "error" => alive

\* What save reports as saved is on disk with all files of each device
\* (otdb_savedb: "Returns: 0 on success").
ReportedIsSaved ==
    [][ job.saving /\ reply' = "ok" =>
          \A d \in DOMAIN disk[job.path].devs : DOMAIN disk[job.path].devs[d] = Files ]_vars

\* What was saved whole can be opened, whatever the ids of the devices
\* ("max is 16 hex chars long").
SavedCanBeOpened == \A p \in Paths : snap[p] # {} => disk[p].tmpl # 0 /\ Whole(disk[p])

\* A command for the folder of one device is answered ("The input folder can
\* specify a device").
OneDeviceIsRead ==
    [][ \A d \in Devs : CmdLoadDevice(d) \/ CmdDevNewFrom(d) => reply' # "none" ]_vars

\* What a save of all devices has written, when it passed no file over, an open
\* that succeeds gives back in the files of type struct, whatever other commands
\* and crashes came between.
RoundTrip ==
    [][ \A p \in Paths : CmdOpen(p) =>
          \A image \in snap[p] :
             /\ DOMAIN db' = DOMAIN image
             /\ \A d \in DOMAIN image, f \in Structs : db'[d][f] = image[d][f] ]_vars
=============================================================================
