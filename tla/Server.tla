------------------------------- MODULE Server -------------------------------
(***************************************************************************)
(* otdb as a socket server: dterm_socketer() accepts clients, each client   *)
(* has a thread dterm_socket_clithread() that reads chunks of its stream,   *)
(* and sub_proc_lineinput() runs a chunk line by line under iso_mutex.      *)
(* otdb_main() starts them, waits for a signal and takes everything down.   *)
(*                                                                          *)
(* A line is sent in one part or two; only the last part has the newline,   *)
(* and a read() returns any number of parts.  Of the commands, those matter *)
(* that use what clients share: the active device.  "r" stands for all that *)
(* take an optional device id, "dev-ls" for all that go through devices     *)
(* (push, pull, save and load, too).  Replies are those of the protocol     *)
(* without -j.  fcntl() on a client's own descriptor never fails, so a line *)
(* never ends the thread, but it may wait for ever: see Blocks.             *)
(*                                                                          *)
(* clithread is a library: it runs the threads, and clithread_deinit() ends *)
(* them.                                                                    *)
(***************************************************************************)
EXTENDS Integers, Sequences, FiniteSets

CONSTANTS
    Clients,            \* clients of the socket
    Devices,            \* device ids that clients name, none of which is 0
    Commands,           \* the commands clients use
    Cuts,               \* the ways in which a line arrives: whole or in parts
    MaxRequests         \* bound: lines the clients send, all together

ASSUME ServerAssumption ==
    /\ IsFiniteSet(Clients) /\ Clients # {} /\ "free" \notin Clients
    /\ Devices # {} /\ 0 \notin Devices
    /\ Commands \subseteq {"dev-set", "r", "dev-new", "dev-del", "dev-ls", "open", "quit"}
    /\ Cuts \subseteq {<<"all">>, <<"head", "tail">>}
    /\ MaxRequests \in Nat

VARIABLES
    \* a client and its connection
    sent,               \* how many lines clients have sent, which numbers them
    unread,             \* parts in the socket
    \* its thread
    tpc, chunk,         \* where the thread is; what it has read and not run
    \* shared
    iso,                \* owner of iso_mutex
    isoCtx,             \* whose memory context the allocators use
    active,             \* the device that otfs_setfs() chose last
    db,                 \* "open", and "freed" by otfs_deinit()
    main,               \* where otdb_main() is
    signalled,          \* a signal was handled
    \* history
    ran,                \* the part of a line that was run last for each client
    left,               \* {the device that the last command of the chunk left active}
    lastSet             \* the device of the last dev-set of a client, 0 before one

threads == <<tpc, chunk, ran, left>>
shared  == <<iso, isoCtx, active, lastSet, db>>
mainvars == <<main, signalled>>
vars == <<sent, unread, threads, shared, mainvars>>

Requests ==
    {r \in [cmd : {"dev-set", "dev-new", "dev-del"}, dev : Devices] \union
            [cmd : {"r"}, dev : Devices \union {0}] \union
            [cmd : {"dev-ls", "open", "quit"}, dev : {0}] : r.cmd \in Commands}

\* A part of a line: all of it, or one of two; "head" is without the newline.
Parts == [n : 1..MaxRequests, req : Requests, part : {"all", "head", "tail"}]

Serving == {"start", "init", "create", "lock", "wait"}

Init ==
    /\ sent = 0
    /\ unread = [c \in Clients |-> <<>>]
    /\ tpc = [c \in Clients |-> "none"] /\ chunk = [c \in Clients |-> <<>>]
    /\ ran = [c \in Clients |-> [n |-> 0, part |-> "all"]]
    /\ iso = "free" /\ isoCtx = "free" /\ active = 0 /\ db = "open"
    /\ main = "start" /\ signalled = FALSE
    /\ left = [c \in Clients |-> {}] /\ lastSet = 0

-----------------------------------------------------------------------------
(* Clients *)

\* The client connects, and dterm_socketer() starts a thread for it.
Accept(c) ==
    /\ main \in {"lock", "wait", "woken"} /\ tpc[c] = "none"
    /\ tpc' = [tpc EXCEPT ![c] = "read"]
    /\ UNCHANGED <<sent, unread, chunk, ran, left, shared, mainvars>>

\* A line goes into the socket, whole or with its end to follow.
ClientSends(c) ==
    /\ tpc[c] \notin {"none", "gone"} /\ sent < MaxRequests
    /\ sent' = sent + 1
    /\ \E r \in Requests, parts \in Cuts :
         unread' = [unread EXCEPT ![c] =
            @ \o [i \in DOMAIN parts |-> [n |-> sent', req |-> r, part |-> parts[i]]]]
    /\ UNCHANGED <<threads, shared, mainvars>>

-----------------------------------------------------------------------------
(* dterm_socket_clithread() *)

\* Up to LINESIZE bytes are there: some of the parts, or all of them.
Read(c) ==
    /\ tpc[c] = "read" /\ unread[c] # <<>>
    /\ \E n \in 1..Len(unread[c]) :
        /\ chunk' = [chunk EXCEPT ![c] = SubSeq(unread[c], 1, n)]
        /\ unread' = [unread EXCEPT ![c] = SubSeq(@, n + 1, Len(@))]
    /\ tpc' = [tpc EXCEPT ![c] = "lock"]
    /\ UNCHANGED <<sent, ran, left, shared, mainvars>>

\* The client has closed its end, which is noticed when all has been read.
ReadsEnd(c) ==
    /\ tpc[c] = "read" /\ unread[c] = <<>>
    /\ tpc' = [tpc EXCEPT ![c] = "gone"]
    /\ UNCHANGED <<sent, unread, chunk, ran, left, shared, mainvars>>

\* Mutant of Lock: iso_mutex is not taken.
LockNothing(c) ==
    /\ tpc[c] = "lock"
    /\ iso' = c /\ tpc' = [tpc EXCEPT ![c] = "line"]
    /\ UNCHANGED <<sent, unread, chunk, ran, left, isoCtx, active, lastSet, db, mainvars>>

\* iso_mutex is taken for the whole chunk.
Lock(c) ==
    /\ tpc[c] = "lock" /\ iso = "free"
    /\ iso' = c /\ tpc' = [tpc EXCEPT ![c] = "line"]
    /\ UNCHANGED <<sent, unread, chunk, ran, left, isoCtx, active, lastSet, db, mainvars>>

\* sub_str_mark() cuts off a line: up to a newline, or all that was read.
LineLength(parts) ==
    IF parts[1].part = "head" /\ Len(parts) > 1 THEN 2 ELSE 1

TheLine(c) == SubSeq(chunk[c], 1, LineLength(chunk[c]))
TheRest(c) == SubSeq(chunk[c], LineLength(chunk[c]) + 1, Len(chunk[c]))

IsWhole(line) == line[1].part = "all" \/ Len(line) = 2

\* sub_proc_lineinput() begins: the allocators are given this thread's context.
StartLine(c) ==
    /\ tpc[c] = "line"
    /\ isoCtx' = c /\ tpc' = [tpc EXCEPT ![c] = "exec"]
    /\ UNCHANGED <<sent, unread, chunk, ran, left, iso, active, lastSet, db, mainvars>>

\* Mutant of Continue: iso_mutex is given back after every line.
ContinueUnlocked(c) ==
    /\ chunk' = [chunk EXCEPT ![c] = TheRest(c)]
    /\ iso' = "free"
    /\ tpc' = [tpc EXCEPT ![c] = IF chunk'[c] = <<>> THEN "read" ELSE "lock"]

\* Mutant of MainDeinit: clithread_deinit() is not called, and iso_mutex is freed.
DeinitUnjoined ==
    /\ main = "freed" /\ main' = "exited"
    /\ iso' = "destroyed"
    /\ UNCHANGED <<sent, unread, threads, isoCtx, active, lastSet, db, signalled>>

\* Mutant of Continue: iso_mutex is not given back at the end of the chunk.
ContinueLocked(c) ==
    /\ chunk' = [chunk EXCEPT ![c] = TheRest(c)]
    /\ UNCHANGED iso
    /\ tpc' = [tpc EXCEPT ![c] = IF chunk'[c] = <<>> THEN "read" ELSE "line"]

\* Mutant of Continue: loadbuf is not moved past the line in a longer chunk.
ContinueInPlace(c) ==
    /\ chunk' = [chunk EXCEPT ![c] = IF Len(@) > 1 THEN Tail(@) ELSE <<>>]
    /\ IF chunk'[c] = <<>>
       THEN iso' = "free" /\ tpc' = [tpc EXCEPT ![c] = "read"]
       ELSE UNCHANGED iso /\ tpc' = [tpc EXCEPT ![c] = "line"]

\* The next line of the chunk, or the end of it.
Continue(c) ==
    /\ chunk' = [chunk EXCEPT ![c] = TheRest(c)]
    /\ IF chunk'[c] = <<>>
       THEN iso' = "free" /\ tpc' = [tpc EXCEPT ![c] = "read"]
       ELSE UNCHANGED iso /\ tpc' = [tpc EXCEPT ![c] = "line"]

\* A line has been run: its memory context is left, and the next line is due.
Finished(c) ==
    /\ LET last == TheLine(c)[Len(TheLine(c))] IN
         ran' = [ran EXCEPT ![c] = [n |-> last.n, part |-> last.part]]
    /\ isoCtx' = "free"
    /\ Continue(c)
    /\ left' = [left EXCEPT ![c] = IF chunk'[c] = <<>> THEN {} ELSE {active'}]

\* The line never ends: the device manager's reader keeps the lock that its
\* command waits for, or the client does not read and the reply is not written.
Blocks(c) ==
    /\ tpc' = [tpc EXCEPT ![c] = "stuck"]
    /\ UNCHANGED <<chunk, ran, left, iso, isoCtx>>

Ran(c) == Finished(c) \/ Blocks(c)

\* sig_handler(): the only effect is on a main() that waits.
Signal ==
    /\ signalled' = TRUE
    /\ main' = IF main = "wait" THEN "woken" ELSE main

\* A piece of a line is no command that was sent: it is answered as an error.
RunPiece(c) ==
    /\ tpc[c] = "exec" /\ ~IsWhole(TheLine(c))
    /\ UNCHANGED <<active, lastSet>>
    /\ Ran(c)
    /\ UNCHANGED <<sent, unread, db, mainvars>>

Runs(c, r) == tpc[c] = "exec" /\ IsWhole(TheLine(c)) /\ r = TheLine(c)[1].req

\* otfs_setfs() makes a device the active one, if the database has it.
RunDevSet(c) ==
    /\ \E r \in Requests :
        /\ Runs(c, r) /\ r.cmd = "dev-set"
        /\ \/ active' = r.dev /\ lastSet' = r.dev
           \/ UNCHANGED <<active, lastSet>>
        /\ Ran(c)
    /\ UNCHANGED <<sent, unread, db, mainvars>>

\* A command with a device id makes it the active one; without, it uses that.
RunRead(c) ==
    /\ \E r \in Requests :
        /\ Runs(c, r) /\ r.cmd = "r"
        /\ active' \in IF r.dev = 0 THEN {active} ELSE {active, r.dev}
        /\ Ran(c)
    /\ UNCHANGED <<sent, unread, lastSet, db, mainvars>>

\* dev-new looks whether the database has the device; dev-del selects it and
\* deletes it.
RunDevNewDel(c) ==
    /\ \E r \in Requests :
        /\ Runs(c, r)
        /\ \/ r.cmd = "dev-new" /\ active' \in {active, r.dev}
           \/ r.cmd = "dev-del" /\ active' \in {active, 0}
        /\ Ran(c)
    /\ UNCHANGED <<sent, unread, lastSet, db, mainvars>>

\* The devices of a list, or of the database, are selected one by one, and the
\* last one stays; open has a new database with whatever device was made last.
RunDevices(c) ==
    /\ \E r \in Requests :
        /\ Runs(c, r) /\ r.cmd \in {"dev-ls", "open"}
        /\ active' \in Devices \union {active}
        /\ Ran(c)
    /\ UNCHANGED <<sent, unread, lastSet, db, mainvars>>

\* cmd_quit(): raise(SIGTERM), and no reply.
RunQuit(c) ==
    /\ \E r \in Requests : Runs(c, r) /\ r.cmd = "quit"
    /\ Signal
    /\ UNCHANGED <<active, lastSet>>
    /\ Finished(c)
    /\ UNCHANGED <<sent, unread, db>>

-----------------------------------------------------------------------------
(* otdb_main() *)

MainGoes(from, to) ==
    /\ main = from /\ main' = to
    /\ UNCHANGED <<sent, unread, threads, signalled>>

\* The handlers are assigned; before that a signal just ends the program.
MainHandlers == MainGoes("start", "init") /\ UNCHANGED shared

\* dterm_cmdfile() runs the init file, if there is one, alone: some device may
\* be left active.
MainInitFile ==
    /\ MainGoes("init", "create")
    /\ \E d \in Devices \union {0} : active' = d
    /\ UNCHANGED <<iso, isoCtx, lastSet, db>>

\* pthread_create(), then the lock, then pthread_cond_wait() without a test.
MainCreate == MainGoes("create", "lock") /\ UNCHANGED shared
MainWaits  == MainGoes("lock", "wait") /\ UNCHANGED shared
SpuriousWakeup == MainGoes("wait", "woken") /\ UNCHANGED shared

\* A signal from outside, at any time that it has a handler.
UserSignal ==
    /\ main \notin {"start", "exited"} /\ ~signalled
    /\ Signal
    /\ UNCHANGED <<sent, unread, threads, shared>>

\* dterm_socketer() is cancelled, the clients' threads are not; otfs_deinit().
MainFreesDb ==
    /\ MainGoes("woken", "freed") /\ db' = "freed"
    /\ UNCHANGED <<iso, isoCtx, active, lastSet>>

\* dterm_deinit(): clithread_deinit() ends the threads.
MainDeinit ==
    /\ main = "freed" /\ main' = "exited"
    /\ tpc' = [c \in Clients |-> "gone"]
    /\ UNCHANGED <<sent, unread, chunk, ran, left, shared, signalled>>

-----------------------------------------------------------------------------
Thread(c) ==
    \/ Read(c) \/ Lock(c) \/ StartLine(c)
    \/ RunPiece(c) \/ RunDevSet(c) \/ RunRead(c) \/ RunDevNewDel(c) \/ RunDevices(c) \/ RunQuit(c)

Main ==
    \/ MainHandlers \/ MainInitFile \/ MainCreate \/ MainWaits
    \/ MainFreesDb \/ MainDeinit

Next ==
    \/ \E c \in Clients : Accept(c) \/ ClientSends(c) \/ ReadsEnd(c) \/ Thread(c)
    \/ Main \/ SpuriousWakeup \/ UserSignal

Spec == Init /\ [][Next]_vars

\* The threads and main() go on, once they can; clients and users owe nothing.
\* With finitely many lines nobody can take iso_mutex again and again, so
\* nothing is asked of the order in which the mutex is given.
Fairness == WF_vars(Main) /\ \A c \in Clients : WF_vars(Thread(c))

FairSpec == Spec /\ Fairness

-----------------------------------------------------------------------------
(* Properties *)

\* Every variable stays within its type.
TypeOK ==
    /\ \A c \in Clients :
        /\ unread[c] \in Seq(Parts) /\ chunk[c] \in Seq(Parts)
        /\ tpc[c] \in {"none", "read", "lock", "line", "exec", "stuck", "gone"}
        /\ ran[c] \in [n : 0..MaxRequests, part : {"all", "head", "tail"}]
        /\ left[c] \subseteq Devices \union {0}
    /\ sent \in 0..MaxRequests
    /\ iso \in Clients \union {"free"} /\ isoCtx \in Clients \union {"free"}
    /\ active \in Devices \union {0} /\ lastSet \in Devices \union {0}
    /\ db \in {"open", "freed"} /\ signalled \in BOOLEAN
    /\ main \in Serving \union {"woken", "freed", "exited"}

\* The memory of a command is its own client's from beginning to end, although
\* the allocators of cJSON and argtable have one global context for all threads.
AllocatorsIsolated ==
    \A c \in Clients : tpc[c] \in {"exec", "stuck"} => isoCtx = c

\* In one communication a command finds the device active that the command before
\* it left active: no command of another client comes in between.
BatchKeepsDevice ==
    \A c \in Clients : tpc[c] = "exec" /\ left[c] # {} => active \in left[c]

\* A command without a device id uses the device of the last dev-set ("the Device
\* ID from the last usage of dev-set will be used").
UsesDeviceSet ==
    \A c \in Clients, r \in Requests :
        Runs(c, r) /\ r.cmd = "r" /\ r.dev = 0 /\ lastSet # 0 => active = lastSet

\* Lines are run in the order in which the client sent them, and nothing of a
\* line is run twice, however the stream is cut into chunks.
RunOnceInOrder ==
    \A c \in Clients : tpc[c] = "exec" =>
        LET first == TheLine(c)[1] IN
        \/ first.n > ran[c].n
        \/ first.n = ran[c].n /\ ran[c].part = "head" /\ first.part = "tail"

\* What a client has sent is taken out of its socket and run, while otdb serves,
\* unless a command waits for ever: that one keeps iso_mutex from all clients.
Served ==
    \A c \in Clients :
        (tpc[c] # "none" /\ unread[c] \o chunk[c] # <<>>) ~>
            \/ unread[c] \o chunk[c] = <<>> \/ main \notin Serving
            \/ \E d \in Clients : tpc[d] = "stuck"
=============================================================================
