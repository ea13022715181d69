# OTDB in TLA+

Models, model-checking configurations and proofs for `otdb`, the OpenTag
database server: a C program that keeps one file system image per device in
memory, serves commands on a socket, a pipe or a terminal, and keeps the images
in step with devices through a *device manager* process.

Paths below are relative to the repository (`src/`).

## 1. The system

```
 clients --- socket ---> dterm_socketer / dterm_socket_clithread   (main/dterm.c)
                              |  one line at a time, iso_mutex
                              v
                       sub_proc_lineinput -> cmd_run -> cmd_*      (main/cmd_*.c)
                              |                   \
                   otfs (device images)            dm_xnprintf -> cmd_devmgr
                                                        |  send, read, retry
                                                        v
                                     sp_sendcmd / sp_read  <-> sp_iothread (main/sockpush.c)
                                                        |
                                                 device manager process
 otdb_main: starts the threads, waits for a signal, takes everything down (main/main.c)
```

| Component | State | Operations | Hard part | What makes it correct |
|---|---|---|---|---|
| **sockpush** (`main/sockpush.c`) | one line buffer, read ids, reader counts, three mutexes, two conditions | open, close, reader create/destroy/purge, send, read; the I/O thread | a copy under one mutex of a buffer written under another; a hand-shake that a time-out can break; cancellation | lines come out whole, newest first, once; calls return; close returns |
| **cmd_devmgr** (`main/cmd_devmgr.c`, `dm_printf.c`) | phase of a call, packet id, remaining time | send a command, wait for ack and frame, retry | late, lost and reordered answers; retries | the answer is the answer to this command; bounded time |
| **socket server** (`main/dterm.c`) | connections, `iso_mutex`, global allocator context, the active device | accept, read a chunk, run its lines | several clients, a stream cut anywhere | isolation of memory and of the active device; each line once, in order; progress |
| **life cycle** (`main/main.c`) | threads, `kill_cond`, database | handlers, init file, start, wait, shutdown | signals at any time, shutdown with commands running | a signal stops otdb; nothing is freed under a command |
| piper, command file (`dterm.c`) | line buffer and a pointer into it | read and run lines | end of input, errors of a command | stays in its buffer for each byte read; stops at the first error |
| prompter (`dterm.c`), history (`cmdhistory.c`) | prompt state, line buffer, ring | keys | `iso_mutex` across key strokes, ring arithmetic | mutex and prompt state agree; the ring returns what was entered |
| file commands (`cmd_filecmds.c`) | cached file, its age; the file on the device | r, w, r\*, rh, rp, wp, new, del, z, pub | cache against device, failures between the two | a copy that was synchronised is the device's; ranges stay in the file |
| open, load (`cmd_open_load.c`) | database, template, layout of the file system | open, load | many error exits | old or new database, never a mixture; files apart |
| save (`cmd_save.c`) | archive directory | save | steps that fail, crash | what was saved whole can be opened |
| push, pull, dev-ls (`cmd_pushpull.c`, `cmd_devls.c`, `iterator.c`) | position of the iteration, active device | walk over devices and files | failures in the middle | what is reported was done |
| arguments, hex (`cmds.c`), typed elements (`json_tools.c`) | none | pure functions | boundaries | what was typed is what is done; an element has its own bits |
| clients (`client/otdb_cli.c`, `pyclient/`) | connection, receive buffer | one request, one reply | connection kept open by the server | the reply is to this call; calls come back |
| device commands | active device, devices of the database | dev-new, dev-del, dev-set | shared by all clients | see the database and the server |
| command table, options, popen2 | small | see sources | little | see `PROJECT.json` |
| otfs, talloc, clithread, cJSON, argtable, cmdtab | external | | | modelled from their use where a module needs them |

Who touches what: client threads, the piper and the prompter share the command
implementations and, through `iso_mutex`, the database and the allocators. One
thread at a time is inside a command; it calls down through `cmd_devmgr` to
sockpush, whose I/O thread is the only other party there. `main` cuts across
all of them at shutdown.

`PROJECT.json` lists the components with their status, and under `hazards` what
is hard to test, each at its line.

## 2. The modules

| Module | Models | Kind |
|---|---|---|
| `Mailbox` | what sockpush promises to its caller | abstract specification |
| `SockPush` | sockpush: I/O thread, one caller, shutdown | detailed specification; implements `Mailbox` |
| `SockPushProofs` | | proofs |
| `DevMgr` | `sub_devmgr_socket` over a `Mailbox` | specification; uses `Mailbox`'s actions |
| `DevMgrProofs` | | proofs |
| `Server` | socket server and life cycle | specification |
| `ServerProofs` | | proofs |
| `Terminal` | command file, prompter, piper and their life cycle | specification; uses `CmdHistory` |
| `CmdHistory` | the history ring | operators |
| `TerminalProofs` | | proofs about `Terminal` and `CmdHistory` |
| `Files` | file commands on the cache and on the device | actions |
| `PushPull` | push, pull, dev-ls over the device iterator | specification; extends `Files` |
| `FilesProofs` | | proofs about `Files` and `PushPull` |
| `Archive` | open, load, save, dev-new, dev-del, crash | specification |
| `ArchiveProofs` | | proofs |
| `Elements` | types, loading and storing of an element | operators on bits |
| `Template` | layout of a template, contents through save and open | specification; uses `Elements` |
| `Args` | `cmd_extract_args` | specification |
| `TemplateProofs` | | proofs about `Elements`, `Template` and `Args` |
| `Client` | the C and the Python library against otdb | specification |
| `ClientProofs` | | proofs |
| `MCServer`, `MCFiles`, `MCArchive`, `MCTerminal`, `MCTemplate` | instances | constants for TLC |

Operators with "Mutant of X" or "A plausible slip" in their comment are not part
of a specification: each is an operator of the same module with a plausible bug,
and one of the properties notices it (`PROJECT.json`, `mutants`).

How they fit: `Server` and `Terminal` show that one command runs at a time, under
`iso_mutex`, with its own allocators and the device of its batch. That is why
a command is one step in `Files`, `PushPull` and `Archive` (except for save, whose
steps stay on disk when otdb ends in the middle; of `open` nothing is on disk, and
nothing can fail between the assignments that attach the new database) and why `SockPush` and `DevMgr` have one caller. `DevMgr`
shows what a command can get from the device manager: an answer, none, or a
wrong one; `Files` and `PushPull` let each access to a device succeed or fail.

### SockPush

State: `user`, `readline` are the owners of `user_mutex` and `readline_mutex`;
`readdone_mutex` is only ever held within one step. `readId`, `buf`, `readers`,
`waiting`, `readlineInactive`, `readdoneInactive` are the fields of
`sp_item_t`; `lastRead` is the reader's. `io`, `pc`, `main` are program
counters of `sp_iothread`, of the caller and of `otdb_main`.

A line is its number. The buffer and the caller's copy have two halves, and
each `memcpy` is a step per half, so a torn copy is a possible state. `fd` is
the life of the one descriptor: fresh, connected, hung up by the peer, closed.

The caller enters functions in any order the program can (create before use),
is one process because `iso_mutex` admits one command at a time, and can be
cancelled at the blocking calls it makes. Deferred cancellation acts on the I/O
thread in `connect`, `read`, `sleep` and `pthread_cond_wait`; nothing unlocks
`user_mutex` then.

Not modelled: subscribers (no code subscribes), the size of lines, and lines
longer than the buffer.

### DevMgr

State: `state`, `sid`, `budget` (the variable `global_timeout`), `elapsed` (time
since `ref`). The socket is a `Mailbox` (`posted`, `taken`) with the content of
the newest line; `held` says that the I/O thread sleeps in its hand-shake
with `user_mutex`, which SockPush shows to be possible when a line arrives as a
read times out. `requests` and `packets` are the external device manager and
its network. Lines carry, for the properties only, the call that they answer.

`Retract` is the accounting at the end of the loop: the time since the *start*
is subtracted after *every* read, so the budget shrinks faster than time runs.

### Server

State: `unread` (the stream of a client, in parts of lines), `chunk` (what a
thread has read and not run), `iso`, `isoCtx`, `active`, `db`, and `main`. A
line comes in one part or in two, as `Cuts` allows; a `read()` takes any number
of parts. `sub_proc_lineinput` is two steps, before and after it has set the
allocators, so that another thread's line can come in between if the mutex
lets it. `MainGoes` steps follow `otdb_main` line by line.

Every command that moves the active device is an action, because `otfs_setfs` is
called for all clients at once: `RunDevSet`, `RunRead` (all commands with `-i`),
`RunDevNewDel`, and `RunDevices` for what walks over devices (dev-ls, push, pull,
save, load) and for open, which leave any of the devices active. `left` is a
history variable, the devices one of which a line may have left active; `lastSet` is the device of the last
`dev-set`. A command may never come back (`Blocks`): it waits for the device manager
(`SockPush`, `LockedCallReturns`) or for a client that does not read its reply, and
keeps `iso_mutex`.

A piece of a line is run as a command that fails; that a piece might happen to
be a command is left out. The JSON wrapper of a line and the text of replies are
left out.

### Terminal, CmdHistory

State: `main` (where `otdb_main` is), `script` and `cmdrc` for `dterm_cmdfile`,
`state` and `iso` for the prompt, `linebuf` and `linelen` for the line (`cline` is
always `linelen` characters from the start), `hist` for the ring with its three
pointers, `pos` and `loadlen` for the piper's pointer into its buffer, `entered`, `failed` and
`closed` for the history that properties need. Each key
is an action: everything `dterm_prompter` does for it, up to the unlocking at the
end of its loop. Enter has a second step, `RunEnds`, because `quit` may raise
a signal and shutdown may come meanwhile. `KeySigint` is Ctrl-C; `KeySigquit` is
Ctrl-\, for whose signal there is no handler, so that the process dies. A failing
`read()` of the piper gives -1 and is not looked at, its lines are then looked for in what is
behind the buffer's end (`Lengths`), and `PiperEnds` is its exit with `SIGTERM` when its output
is closed. `ch_inc` is translated as it is: it
moves only from the last place of the ring, so that the characters of a command
are written over each other at the ring's first place, where all three pointers
stay: the history holds one character at most. The loops of `cmdhistory.c` are recursive functions on the ring and on the
characters of the string, so that they can be proved about.
Found while modelling: the deleted character stays in the line (`OneStaleChar` bounds it), an
unknown key closes the prompt and keeps the line, Ctrl-C keeps the mutex.

### Files, PushPull

State: `db[d][f]`, the cached file (memory, length, allocation, permissions), and
`node[d][f]`, the file on the device; `active`; `res`, the reply of the command
that ran last. `synced` is a history variable: copies that were read from their device
and have since only been written together with it. A range is two numbers as
`cmd_extract_args` gives them. `Span` is the number of bytes of a read with its
unsigned comparison, `WriteTo` the write with its clipping. The requests to the
device carry no block, so that they are about `isf`. A gap between the end of
a file and a write behind it keeps what each side had there. A write to the device
whose request fails is answered as done. Data beyond what `hexbuf` holds (`HexMax`), or a
reversed range, runs over it: `CmdWriteOverruns` ends the process (`running`), since nothing is defined
after it. push sends at most `PushMax` bytes of a file and counts it. `cmd_new` makes files
without memory, because `cmd_extract_args` does not set `file_alloc`.

### Archive

State: `db` (what each file holds: the template's default, the device's id or what
a client wrote), `tmpl` (the version of the template behind it),
`alive` (`ext.db` is not a freed database), `disk`, and the running `job`. Devices in
`LongIds` have ids of more than 14 digits, of which the path that open enters keeps 14; that a
name cut in this way might be that of another device is left out. `Remains` is what `cmd_rmdir` may leave of an archive when
a removal fails. `Restarts` is also what comes of the two commands that read a directory
which was not opened (load of one device's folder, dev-new from a folder).
Files of type hex and array are not read back, since both `_content` fields
must be JSON objects; `Structs` are the others. `snap` is a history variable, the
database that the last save to a path wrote whole.

### Elements, Template, Args

Memory is the set of its bits that are 1, so that bit fields, integers of any
width and texts are subsets of positions, and "changes only its own bits" is a
statement about sets. `TypeSize`, `LoadElement` and `StoreElement` are `jst_typesize`,
`jst_load_element` and `jst_store_element`. `Template` builds the file table as
`cmd_open` does (sizes summed per block, places summed over the table, as sums over
sets of files) and then loads
values as defaults or as data of a device, lets a client write, saves, and opens
again. `Args` is one step for each line and gives every field of the result, the zero of
the allocation among them (`cmds.c:452-456` sets the file id a second time);
`RangeOf` takes the first two tokens of a
range by their places, as `strtok_r` finds them. `MCTemplate` puts the two side by side, a
line only before a template, so that one run checks both.

### Client

State: `pc` and `call` of a program that uses one library (`kind`), `fd` and
`connected`, `rx` and `rc`; `srv`, `peer`, `inbox`, `stream` are otdb's side. What is
sent and received is the number of its call. The C library connects for each
command, asks for no JSON, so that a reply may have any length or none, and cannot
use its socket again once it has closed it; the Python library keeps its
connection, asks for JSON and reads one line. A request may take several `read()`s of
otdb (`CReads`, `PyReads`), and then each part is run as a line, with a reply of its
own; the history variable `cut` says that this has happened on the connection. `RecvInterrupted` is a signal that the
program handles; `ServerSticks` is a command that keeps `iso_mutex` for ever. `pc` is
`spins` in the endless loop of `sub_readhex`, and such a call has not come back.

## 3. Runs

TLC finishes each in about two minutes or less. `pass` runs check all of their
properties; a `violation` run checks one statement of the documentation which
the code does not keep, and TLC shows how.

| Run | Bounds | Shows |
|---|---|---|
| `SockPush` | 3 lines | `NoTornRead`, `HandoverHolds`, `ReturnsNewest`, `ImplementsMailbox`, `Inv`, `TypeOK`; `ReadReturns`, `LaterReadFreesThread`, `CloseReturnsUnlessMutexLost` |
| `SockPush_lockedcall` | 2 lines | violated: a call that needs `user_mutex` returns |
| `DevMgr` | 2 calls, 3 lines, 800/3000 ms as 2/7 | `FrameFitsAck`, `SucceedsWhenQuiet`, `WithinTimeout`, `Inv`, `TypeOK`; `Terminates` |
| `Server_safety` | 2 clients, 2 devices, 3 lines of `dev-set` and `dev-ls`, cut or not | `AllocatorsIsolated`, `BatchKeepsDevice`, `RunOnceInOrder`, `TypeOK` |
| `Server_live` | 2 clients, 1 device, 2 lines of all 7 kinds of command | `Served` |
| `Terminal` | lines of 3 characters of 2 kinds, ring of 4, 10 keys; 4 bytes in the pipe; 3 command files | `PromptHoldsMutex`, `OneStaleChar`, `TypeOK` (the line and the cursors of the ring) |
| `Files` | 2 devices, 3 files, 2 bytes a file, 3 commands or changes on a device; `hexbuf` and push hold 1 byte | `SyncedIsEqual`, `ReadReturnsSlice`, `PullCountIsTrue`, `TypeOK` (lengths within allocations) |
| `Files_block` | the same | violated: a refreshed file is the file that was asked for |
| `Archive` | 2 devices, 3 files, 2 archives, 4 commands or crashes | `RoundTrip`, `TypeOK` (nothing torn is loaded) |
| `Template` | 5 templates, 9 elements, 3 values, 2 loads, a write, save and open; 6720 lines for each of 7 commands | `FilesApart`, `OnlyOwnBits`, `SurvivesSave`, `RunsAsTyped` |
| `Client` | both libraries, 3 calls, requests in 1 or 2 parts, replies up to 4 in a buffer of 3 | `RepliesBelong`, `TypeOK` (the buffer is not overrun), `CallsEnd` |
| `Client_returns` | the same, C library | violated: a call comes back |

Why the bounds are enough. *SockPush*: one line being returned, one in the
buffer and one being published is the largest number that can interact, as
there is one buffer and one reader; the proofs remove the bound for safety.
*DevMgr*: pairing the wrong ack and frame takes two calls and three lines (late
ack, late frame, own ack); the proofs remove the bounds and the values of the
time-outs. *Server*: a disturbed batch takes two lines of one client in one chunk
and one of another; a line cut in two and one more line is every way a chunk
can end. Symmetry of clients and devices is used in the run without liveness
only, in which no client or device is named. A client closes its end in the
model when the server has read all that it sent, which is when the server
notices. `dev-set` chooses one device and `dev-ls` leaves any of them active: these
are the two things that commands do to the shared state, so that `Server_safety`
needs no other kind; the proofs have all of them. *Terminal*: ten keys
fill the line, delete from it, enter two lines that meet in the ring, and walk
over them; ten passes of the piper take its pointer far behind the buffer. *Files*:
a copy goes wrong by a read or push, a command and a change of the device. Ranges
take every pair of offsets, reversed ones among them; two bytes show each
end of a file, of its allocation and of a range before, at and behind the other.
*Archive*: two opens with a save and a write between them. *Template*: elements of
less than a byte, across bytes, at the end of a file and beyond it; the numbers
at which an `int` and a `double` lose bits. *Client*: a call that is interrupted,
one that meets what it left, and one more; replies shorter than the buffer, as
long, and longer.

`CHECK_DEADLOCK FALSE` is set everywhere, because each system may stop: after
`sp_close`, after the bounded number of calls or commands, after otdb has exited.

### Fairness

* `SockPush`: weak fairness for the steps of each thread, and strong fairness for
  the steps in which the I/O thread takes a mutex: the caller may lock and
  unlock without end, and a pthread mutex with a waiter is handed over sooner
  or later. None for the device manager, for new calls or for a user who quits.
* `DevMgr`: weak fairness of the running call only. The device owes nothing.
* `Server`: weak fairness of `main` and of each client's thread, of which a command is
  a part, but a command may at any time be stuck for ever (`Blocks`), and
  then `Served` promises nothing. The number of lines is bounded, so that apart from this nobody takes
  `iso_mutex` for ever. That `clithread_deinit` ends a thread which is stuck is
  assumed of the library.
* `Client`: weak fairness of a call that is under way, and of otdb for a request
  that has arrived, unless otdb is stuck. None for new calls, for signals, for a user who connects or
  disconnects, and none for the end of otdb.
* The other specifications state none, and no liveness is claimed of them.

## 4. Proofs

Checked by TLAPS for every value of the constants.

**SockPushProofs.** `Inv` is inductive: `Init => Inv` and
`Inv /\ [Next]_vars => Inv'`, one step per action. It strengthens
`NoTornRead` with
* `UserOwner`, `WaitSection`, `ReaderCount`: who holds which mutex where, and
  what the counters are;
* `Publication`: how far read id and buffer halves lag behind the line;
* `CopyHolds`: from the broadcast to the reader's signal the I/O thread is held
  in the hand-shake. This is the reason that a copy under `readline_mutex` is
  whole although `user_mutex` protects the buffer, and it is why
  `HandoverHolds` is stated by itself;
* `CopyIsFresh`: what is being copied is newer than what was returned.

From it: `ReadsAreWhole`, `HandoverIsSafe`, `TypeCorrect`, the action property
`ReturnsNew`, and `Refinement`: each step of SockPush is a `Post`, a `Take` or
a stutter of `Mailbox` with `posted` the second half of the buffer and `taken`
the line returned last.

**DevMgrProofs.** `Inv` is `TypeOK` with `Accounting` (time passed plus budget
left is at most the whole budget), `SidsTellCalls` (a packet id belongs to
one call, wherever it turns up) and `QuietHolds` (after a quiet start all that is
due is of this call). From it: `KeepsTime`, `FramesFit`, `QuietSuccess`.
Assumptions: `TimeoutAssumption` (both time-outs are positive) and
`BoundAssumption`; for SockPush `MaxLinesAssumption`.

**ServerProofs.** `Inv` is types, `Control` and `Order`. `Control` says that a thread
with lines left in its chunk owns `iso_mutex` (`MutexHeld`), that there is no
thread while the init file runs (`Quiet`), and that the device of a communication is the
active one from its first line on (`DeviceKept`). It is needed because
`sub_proc_lineinput` finds the allocators and the active device in variables
that every thread writes: they are its own only as the mutex is held from one line of
a chunk to the next. `Order` numbers the parts of a client's stream: they grow from the part
that was run last over the chunk to what is unread and to the number that was sent last,
and this survives cutting a chunk off at any place (`Cut`, `Stream`). From
it: `AllocatorsAreOwn`, `DeviceIsKept`, `RunsInOrder`, `TypeCorrect`.
Assumption: `ServerAssumption`.

**ArchiveProofs.** `SavedComesBack` states `RoundTrip`: a save of all devices that passed
no file over comes back from each open that succeeds, in the files of type struct. `Inv` is needed for
what happens between the two: `Saving` says what an
unfinished save has written (each file of the devices that are done, each file of the
current device that is not left to do, all as in the database, unless a file was passed
over), and that nothing is recorded as saved at its path meanwhile; `SavedOK`
says that what is recorded as saved is on disk file by file (`Faithful`). A crash may come at
any of these steps, ids may be long, and a removal may fail halfway. A save that has passed files over is answered
with 0 as well: of it nothing is recorded, and nothing is proved (`ReportedIsSaved` in section 5).
`TypeCorrect` follows too. Assumption: `ArchiveAssumption`
(archives on the disk have the form of `IsDir`; the file with the device's id is a
struct).

**FilesProofs.** `Inv` is `FilesOK` with the ranges of `active` and `steps`:
every file in the cache and on the devices has a length within its allocation
(`GoodFile`), and the copies in `synced` have the bytes of the device's file (`Same`).
The lemmas follow the bytes through a command: what `WriteTo` and `Span` do to a
file of any length, that a write through clips cache and device at the same place
when the two were the same before, and what a refresh, a push or a pull copies: a push
copies as much as its message holds (`PushMax`), and the copies are known to be the same only if that is
all of the file; after a write whose request may have failed nothing is known. From it:
`CopiesAreEqual`, `TypeCorrect`, and the action properties `ReadsSlice` (the slice of the
file when the refresh has kept its length, the allocation as bound when not) and
`PullCounts` (also when a file fails after others were stored). Assumption: `FilesAssumption`; the allocations, the bytes and the
ranges are any.

**TerminalProofs.** `PromptIsolated` adds to `PromptHoldsMutex` that no thread
exists before `main` has made it.
`BuffersHold` and `LineIsClean` come from `Buffers`: the line never grows past
`LINESIZE`, and of what one `read()` gave the piper no more is left than it gave, also when it gave
-1. That is no bound on `loadbuf` itself, which has none (`PiperKeepsToBuffer` in section 5).
`TypeCorrect` rests on `HistoryInvariant`: the three pointers are at the first place of
the ring and every other place is empty. This holds for each function of `cmdhistory.c`
by following its loop from that state (`ClearOne`, `AddOne`, `ArrowsStay`).
Assumption: `TerminalAssumption`; the ring has two places or more (in a ring
of one place the first is also the last, from which `ch_inc` moves; `CMD_HISTSIZE` is 1024).

**TemplateProofs.** *Layout* (`LayoutKeepsApart`): sums over sets of files only grow
with the set, so that the entries of a block are one after the other; each entry
of the table with a size is the last file with its id, different entries are different files,
hence the entries of a block fit in the sum of its files' sizes. Sizes
are reduced to 16 bits and ids to 8, which only makes entries smaller. *Loading*
(`LoadKeepsOthers`): `LoadElement` exchanges bits of the element's own, whatever
the four bytes read and written for a bit field hold; with the limit, these are in
the file. Not for a hex string that is longer than its element (`TooLong`), which
`jst_load_element` writes on over its neighbours, and not for `float` and `double`, which
are not modelled. *Save and open* (`SavedIsReloaded`): `StoredValue` says what
`StoreElement` gives for an element that `Keeps` admits, `LoadStored` that loading it
puts the same bits back, for numbers of all widths and signs (`ValueIntKeeps`), bit
fields, texts and hex strings. The next open is a fold over all elements
(`ReloadChain`): the element itself is put in place at its turn (`ElementAt`), and
no other changes it, as its bits are its own (`AgainOwnBits`, `AgainKept`).
*Arguments* (`DoesWhatIsTyped`): the invariant is that `args` is `ExtractArgs` of
the line; it has a range with a start and numbers that 16 bits hold for every byte,
the run for `Edges`. Other ranges and the allocation are not as typed
(`RangeIsAsDocumented`, `AllocIsAsTyped` in section 5).
Assumptions: `TemplateAssumption` (sizes are numbers of bytes: a negative size in a template
would break the layout), `ElementsAssumption` (the integer types are those that
`jst_typesize` knows; strings have the bits of their bytes), `ArgsAssumption`.

**ClientProofs.** `Inv` is `TypeOK` with the types of the queues, `OneCommand`,
`OneLine`, `Judged` and `Own`. Nothing in the protocol matches a reply to its
request, so `RepliesBelong` has to come from what can be on a connection.
`OneCommand` says for the C library that nothing is on a connection before its
command is sent, and only what is of this command while it runs: a connection is
closed after each command and a socket is not connected a second time.
`OneLine` says for the Python library that at most one line is owed, to the call
that runs, and that between calls a connection that is still served is empty, as long as
no request on the connection was read in parts (`cut`); after one that was, every later
call takes the reply of an older one (`JudgesItsReply` in section 5). `Judged` (nothing
received is kept between calls) carries this over to a new connection.
What is left in the queue of a connection whose other end is closed may be of an
older call; no further call sends on it, and `PyConnect` begins with empty
queues. From `Inv`: `TypeCorrect` (with it that `rxbuf` is never overrun) and
`RepliesAreOwn`. Assumption: `ClientAssumption`; the bounds `MaxReply`,
`MaxCalls`, `CReads` and `PyReads` are any numbers.

Induction over data is done with a least counterexample: the numbers for which a
statement fails have a least one (`LeastOf`, from the well-foundedness of `<` on
the naturals), of which the statement is then shown. The library's induction theorems,
which take an operator as a parameter, are not used. Where a sum or a loop had been a
`RECURSIVE` operator, it is a recursive function or a fold.

Not proved, only model-checked: the liveness properties `ReadReturns`,
`LaterReadFreesThread`, `CloseReturnsUnlessMutexLost`, `Terminates`, `Served` and
`CallsEnd`, as liveness under fairness and `ENABLED` are outside what the prover
handles. Each invariant and each action property of a run that passes is stated by a
theorem; so is the one refinement, `ImplementsMailbox`.

## 5. Where code and words differ

Three statements of the documentation have a run that refutes them
(`PROJECT.json`, `findings`, quotes the line for each): the hand-shake of `sp_read`
can be left half done and blocks the next send; a call of the C library waits for a full
buffer and does not return; a read of an `iss` or `gfb` file that goes to the device
stores the `isf` file.

The modules state more of what documents and comments say and the code does not
do. These are no properties of a passing run, and no theorem is about
them; each has a configuration of its own, with which TLC shows a counterexample
in a minute or less (`tlc -config Files_slice.cfg MCFiles`):

| Statement, configuration | What is said | What the code does |
|---|---|---|
| `UsesDeviceSet`, `Server_device.cfg` with `MCServer` | "If unused, the Device ID from the last usage of `dev-set` will be used." (API document, 458) | `-i` makes its device the active one for good (`cmd_filecmds.c:177`), and so do the iterator (`iterator.c:47`), dev-new and open |
| `ReadIsOfTheFile`, `Files_slice.cfg` with `MCFiles` | "`8:` (all bytes after 7th)" (API document, 540) | the number of bytes is computed before the file is refreshed (`cmd_filecmds.c:193`): bytes that the file no longer has, or not all that it has |
| `WritePropagates`, `Files_write.cfg` with `MCFiles` | "Use Soft mode (doesn't propagate to devices)" (`cmds.c:104`), so that without it a write does | the result of the write to the device is ignored (`cmd_filecmds.c:629`, with a todo at 630) |
| `PushIsWhole`, `Files_push.cfg` with `MCFiles` | "Write each file to the target." (`cmd_pushpull.c:153`) | at most 256 bytes of a file are sent (`cmd_pushpull.c:141`, 172), and the file is counted |
| `OldDataRemains`, `Archive_open.cfg` with `MCArchive` | "Open operation is ATOMIC [...] old data remains." (`cmd_open_load.c:1046`) | when `otfs_deinit` of the old database fails, it is freed and stays attached (1036) |
| `ReportedIsSaved`, `Archive_save.cfg` with `MCArchive` | "Returns: 0 on success" of `otdb_savedb` (API document, 143) | a file that cannot be written is passed over, and the answer is 0 (`cmd_save.c:381`) |
| `SavedCanBeOpened`, `Archive_longid.cfg` with `MCArchive` | "max is 16 hex chars long (8 bytes)" (`cmd_open_load.c:955`) | `snprintf` to 16 bytes keeps 14 digits behind the slash (956): open does not find the directory |
| `OneDeviceIsRead`, `Archive_device.cfg` with `MCArchive` | "The input folder can specify a device." (`cmd_open_load.c:1140`) | the directory is read without having been opened (1172, and `cmd_devcmds.c:157`): the process ends |
| `OffersEntered`, `Terminal_history.cfg` with `MCTerminal` | "returns pointer to command in history or 0 if empty" (`cmdhistory.h:54`) | `ch_inc` does not move (`cmdhistory.c:145`): one character is all that is kept of a command |
| `StopsAtFirstError`, `Terminal_cmdfile.cfg` with `MCTerminal` | "Exit the command sequence on first detection of error." (`dterm.c:778`) | `cmdrc` is not set for a command that is not found, and with `-j` an error is a text of positive length (779) |
| `ClosesEmpty`, `Terminal_ignored.cfg` with `MCTerminal` | "Every other command is ignored here." (`dterm.c:1083`) | the prompt is closed and its line stays for the next one (1084) |
| `PiperStops`, `Terminal_pipe_end.cfg` with `MCTerminal` | "This code will run only if the pipe goes down" (`dterm.c:692`) | the result of `read()` is not looked at (669): the piper runs and reads on |
| `PiperKeepsToBuffer`, `Terminal_pipe_buffer.cfg` with `MCTerminal` | "command read buffer" of `linebuf[LINESIZE]` (`dterm.h:93`) | `loadbuf` is not set back (`dterm.c:668`): the next `read()` of 1024 bytes goes behind the buffer |
| `ShutsDown`, `Terminal_quit.cfg` with `MCTerminal` | "These are activated by Ctl+C (SIGINT) and Ctl+\\ (SIGQUIT) [...] Otter is shutdown." (`main.c:518`) | there is no handler for SIGQUIT (522): the process dies |
| `ReturnsAfterResponse`, `Client_readperms.cfg` with `Client` | "blocking calls, which return to the client after a response has been received" (API document, 149) | `sub_readhex` does not count down (`otdb_cli.c:86`): `otdb_readperms` loops for ever |
| `JudgesItsReply`, `Client_long.cfg` with `Client` | "Send the command and then return true/false" (`otdb.py:415`) | a request of more than 1024 bytes is two lines with two replies (`dterm.c:558`): the call judges the reply to a part, the next one the other |
| `RangeIsAsDocumented`, `Template_range.cfg` with `MCTemplate` | "`:16` (first 16 bytes)" (API document, 540) | `strtok_r` skips the empty start, so that `:16` is `16:` (`cmds.c:416`); numbers are cut to 16 bits |
| `AllocIsAsTyped`, `Template_alloc.cfg` with `MCTemplate` | "alloc: Integer. The maximum data contained by the file in bytes" (API document, 468) | the branch sets the file id again (`cmds.c:452`); `file_alloc` stays 0 |

The API document is `OTDB API & Socket Protocol.md`.

Known besides, from the code:

* a lost device manager is never connected again, since the closed descriptor is
  used (`sockpush.c:670`); `sp_close` can wait for ever on a thread that is
  blocked on the mutex of a cancelled caller;
* acks are not matched to commands (`cmd_devmgr.c:388`);
* the database is freed before the threads of clients are ended;
  a signal before `pthread_cond_wait` is lost (`main.c:565`); Ctrl-C ends the prompter with `iso_mutex`;
* the deleted character stays in the line behind the cursor (`dterm.c:1173`; `OneStaleChar` bounds it);
* a write to the device goes over `hexbuf` with too much data or a reversed range (`cmd_filecmds.c:624`);
* open takes the part of an archive that a failed save has left for the whole;
* what `save` writes is read back for flat elements of struct files only: hex and
  array contents, elements of containers, and bit positions are lost, as are
  numbers that an `int` cannot hold (`Template`, `Keeps` lists them);
* `load` ignores its list of devices; `pull` counts files that it could not store;
  `w` and `pub` return positive errors;
* `otdb_writeperms` sends `new`; after its first command a C client cannot
  connect again; `f_new` of the Python client sends `del`.

## 6. Plan

1. Abstract specifications that `Server` (one command at a time, each client's lines
   in order) and `Client` (a call and its reply) implement, with refinements to prove
   as for `Mailbox`.
2. `DevMgr` over `SockPush` instead of over `Mailbox`, for the mutex that `held` stands
   for.
3. Lengths of files in `Template`, together with `Files`.
4. `sub_devmgr_subproc`, if it stays in use.

## Not modelled

`sub_devmgr_subproc` and `popen2.c` (a deprecated pipe to a child process: operating
system calls with little state of their own); option parsing in `main.c` and
`cliopt.c`; the command table (`cmdsearch.c`, `test.c`); `float` and `double`
elements; file lengths and modification times in `Template`; subscribers of
sockpush, which nothing uses; the text of replies and of the screen; the test programs. otfs,
talloc, clithread, cJSON, argtable and cmdtab are not in the repository.
