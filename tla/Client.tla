------------------------------- MODULE Client -------------------------------
(***************************************************************************)
(* A program that uses one of the client libraries, otdb_cli.c ("c") or    *)
(* otdb.py ("py"), and otdb's thread for its connection.  The C library    *)
(* connects for each command and asks for no JSON, so that a command may   *)
(* have no reply; the Python library stays connected, asks for JSON and    *)
(* gets one line for each line that otdb runs.  What is sent and received carries the  *)
(* number of the call it belongs to; a reply in C has a length, a reply in *)
(* Python is one line.                                                     *)
(***************************************************************************)
EXTENDS Integers, Sequences

CONSTANTS Kinds,        \* the libraries
          RxSize,       \* rxbuf_size, in the units of a reply's length
          MaxReply,     \* bound on the length of a reply
          CReads,       \* the reads of otdb that a request may take, in C
          PyReads,      \* and in Python: 1 if no request is longer than LINESIZE
          MaxCalls      \* bound on the calls of a program

ASSUME ClientAssumption ==
    /\ Kinds \subseteq {"c", "py"} /\ RxSize \in Nat \ {0}
    /\ MaxReply \in Nat \ {0} /\ MaxCalls \in Nat
    /\ CReads \in Nat \ {0} /\ PyReads \in Nat \ {0}

VARIABLES kind, pc, call, cmd,  \* the library, where it is, the call it is in
          fd, connected,        \* sockfd: "new", "conn" or "closed"; the flag
          rx, rc, out,          \* what is in rxbuf; the result; what a read gives
          srv, peer,            \* otdb, and its end of the connection
          cut,                  \* history: it was sent a request that is read in parts
          inbox, stream         \* requests and replies on their way

sock == <<fd, connected>>
result == <<rx, rc, out>>
server == <<srv, peer, inbox, stream>>
lib == <<kind, cut>>
vars == <<lib, pc, call, cmd, sock, result, server>>

Busy == pc \notin {"idle", "freed"}
OfC == kind = "c"
OfPy == kind = "py"

\* A request as otdb reads it: one longer than LINESIZE is read in parts, and
\* each part is run as a command of its own.
Request(reads) == [i \in 1..reads |-> call]

\* otdb_init(): a socket that is not connected.
Init ==
    /\ kind \in Kinds /\ cut = FALSE /\ pc = "idle" /\ call = 0 /\ cmd = "none"
    /\ fd = "new" /\ connected = FALSE
    /\ rx = <<>> /\ rc = 0 /\ out = "none"
    /\ srv = "up" /\ peer = "none" /\ inbox = <<>> /\ stream = <<>>

Begin(c, at) ==
    /\ pc = "idle" /\ call < MaxCalls
    /\ call' = call + 1 /\ cmd' = c /\ pc' = at
    /\ rx' = <<>> /\ rc' = 0 /\ out' = "none"
    /\ UNCHANGED <<lib, sock, server>>

\* A call that fails before anything is sent.
Refuse(c, code) ==
    /\ pc = "idle" /\ call < MaxCalls
    /\ call' = call + 1 /\ cmd' = c /\ rc' = code /\ rx' = <<>> /\ out' = "none"
    /\ UNCHANGED <<lib, pc, sock, server>>

-----------------------------------------------------------------------------
(* otdb_cli.c: the calls.  A path of more than some 240 characters is      *)
(* refused.  otdb_writeperms() sends "new" and not "wp".                   *)

NewDevice    == OfC /\ (Begin("newdevice", "connect") \/ Refuse("newdevice", -1))
DelSetDevice == OfC /\ \E c \in {"deldevice", "setdevice"} : Begin(c, "connect")
OpenSaveDb   == OfC /\ \E c \in {"opendb", "savedb"} : Begin(c, "connect") \/ Refuse(c, -1)
DelNewFile   == OfC /\ \E c \in {"delfile", "newfile"} : Begin(c, "connect")
Read         == OfC /\ Begin("read", "connect")
ReadAll      == OfC /\ Begin("readall", "connect")
Restore      == OfC /\ Begin("restore", "connect")
ReadHdr      == OfC /\ Begin("readhdr", "connect")
ReadPerms    == OfC /\ Begin("readperms", "connect")
WriteData    == OfC /\ (Begin("writedata", "connect") \/ Refuse("writedata", -2))
WritePerms   == OfC /\ Begin("newfile", "connect")

-----------------------------------------------------------------------------
(* sub_docmd().                                                            *)

\* A socket that was closed cannot be connected again.
Connect ==
    /\ OfC /\ pc = "connect"
    /\ IF ~connected /\ (fd = "closed" \/ srv = "down")
       THEN pc' = "idle" /\ rc' = -1 /\ UNCHANGED <<sock, peer>>
       ELSE /\ pc' = "send" /\ UNCHANGED rc
            /\ IF connected THEN UNCHANGED <<sock, peer>>
               ELSE fd' = "conn" /\ connected' = TRUE /\ peer' = "serving"
    /\ UNCHANGED <<lib, call, cmd, rx, out, srv, inbox, stream>>

\* With otdb's end closed send() raises SIGPIPE, which the library lets end the
\* program.
Send ==
    /\ OfC /\ pc = "send"
    /\ IF peer = "serving"
       THEN pc' = "recv" /\ \E reads \in 1..CReads : inbox' = inbox \o Request(reads)
       ELSE pc' = "killed" /\ UNCHANGED inbox
    /\ UNCHANGED <<lib, call, cmd, sock, result, srv, peer, stream>>

\* A plausible slip: recv() is given the size of the whole stream.
RecvUnbounded(n) ==
    /\ OfC /\ pc = "recv" /\ pc' = "close"
    /\ rx' = stream /\ stream' = <<>>
    /\ rc' = n
    /\ UNCHANGED <<lib, call, cmd, sock, out, srv, peer, inbox>>

\* recv() gives n units.
Recv(n) ==
    /\ OfC /\ pc = "recv" /\ pc' = "close"
    /\ rx' = SubSeq(stream, 1, n) /\ stream' = SubSeq(stream, n + 1, Len(stream))
    /\ rc' = n
    /\ UNCHANGED <<lib, call, cmd, sock, out, srv, peer, inbox>>

\* MSG_WAITALL: recv() returns with a full buffer or at the end of the stream.
RecvFull == Len(stream) >= RxSize /\ Recv(RxSize)

\* A plausible slip: the end of the stream is taken for no data yet.
RecvEndMissed == peer = "closed" /\ stream # <<>> /\ Len(stream) < RxSize /\ Recv(Len(stream))

RecvEnd == peer = "closed" /\ Len(stream) < RxSize /\ Recv(Len(stream))

\* A signal that the program handles: what is there, or -1.
RecvInterrupted ==
    \/ Len(stream) \in 1..(RxSize - 1) /\ Recv(Len(stream))
    \/ /\ OfC /\ pc = "recv" /\ stream = <<>>
       /\ pc' = "close" /\ rc' = -1
       /\ UNCHANGED <<lib, call, cmd, sock, rx, out, server>>

\* A plausible slip: the connection is kept for the next command.
DisconnectKeeping ==
    /\ OfC /\ pc = "close" /\ pc' = "result"
    /\ UNCHANGED <<lib, call, cmd, sock, result, server>>

Disconnect ==
    /\ OfC /\ pc = "close" /\ pc' = "result"
    /\ fd' = "closed" /\ connected' = FALSE
    /\ UNCHANGED <<lib, call, cmd, result, server>>

-----------------------------------------------------------------------------
(* What a call returns.  sub_get_errcode() copies "err " where it should   *)
(* compare, and so never finds an error: its result is 0.                  *)

Returns(code, given) ==
    /\ pc' = "idle" /\ rc' = code /\ out' = given
    /\ rx' = IF rc > 0 THEN <<>> ELSE rx
    /\ UNCHANGED <<lib, call, cmd, sock, server>>

PlainResult ==
    /\ OfC /\ pc = "result" /\ cmd \notin {"read", "readall", "readhdr", "readperms"}
    /\ Returns(IF rc > 0 THEN 0 ELSE rc, "none")

\* The number of hex digits to convert is the result, 0: no data is given.
ReadResult ==
    /\ OfC /\ pc = "result" /\ cmd = "read"
    /\ IF rc > 0 THEN Returns(0, "no data") ELSE Returns(rc, "none")

ReadAllResult ==
    /\ OfC /\ pc = "result" /\ cmd = "readall"
    /\ IF rc > 0 THEN Returns(0, "zeros") ELSE Returns(rc, "none")

ReadHdrResult ==
    /\ OfC /\ pc = "result" /\ cmd = "readhdr"
    /\ IF rc > 0 THEN Returns(0, "zeros") ELSE Returns(rc, "none")

\* Here it is the length of the reply, with which sub_readhex() never ends.
ReadPermsResult ==
    /\ OfC /\ pc = "result" /\ cmd = "readperms"
    /\ IF rc > 1 THEN pc' = "spins" /\ UNCHANGED <<lib, call, cmd, sock, result, server>>
       ELSE Returns(rc, "none")

\* The program connects by itself, which the next command uses, or disconnects.
UserConnects ==
    /\ OfC /\ pc = "idle" /\ ~connected /\ fd = "new" /\ srv # "down"
    /\ fd' = "conn" /\ connected' = TRUE /\ peer' = "serving"
    /\ UNCHANGED <<lib, pc, call, cmd, result, srv, inbox, stream>>

UserDisconnects ==
    /\ OfC /\ pc = "idle" /\ connected
    /\ fd' = "closed" /\ connected' = FALSE
    /\ UNCHANGED <<lib, pc, call, cmd, result, server>>

Deinit ==
    /\ OfC /\ pc = "idle" /\ pc' = "freed"
    /\ IF connected THEN fd' = "closed" /\ connected' = FALSE ELSE UNCHANGED sock
    /\ UNCHANGED <<lib, call, cmd, result, server>>

-----------------------------------------------------------------------------
(* otdb.py.                                                                *)

\* The socket is new, and what was on its way on an old one is gone.
PyConnect ==
    /\ OfPy /\ pc = "idle" /\ ~connected /\ srv # "down"
    /\ fd' = "conn" /\ connected' = TRUE
    /\ peer' = "serving" /\ inbox' = <<>> /\ stream' = <<>> /\ cut' = FALSE
    /\ UNCHANGED <<kind, pc, call, cmd, result, srv>>

\* The descriptor stays open, for the file that was made of it.
PyDisconnect ==
    /\ OfPy /\ pc = "idle" /\ connected
    /\ connected' = FALSE
    /\ UNCHANGED <<lib, pc, call, cmd, fd, result, server>>

\* Calls that test a directory first give False; f_new() sends "del".
PyDbCall    == OfPy /\ (Begin("db", "send") \/ Refuse("db", -1))
PyFileCall  == OfPy /\ Begin("file", "send")
PyReadCall  == OfPy /\ Begin("read", "send")
PyWriteCall == OfPy /\ (Begin("write", "send") \/ Refuse("write", -1))

\* Without a connection, or with one that otdb has closed, the call raises an
\* exception: the reply None is no JSON text.  The data of a write, the ids of a
\* save and the paths can make a request long.
PySend ==
    /\ OfPy /\ pc = "send"
    /\ IF connected /\ peer = "serving"
       THEN /\ pc' = "recv" /\ UNCHANGED rc
            /\ \E reads \in IF cmd \in {"db", "write"} THEN 1..PyReads ELSE {1} :
                 inbox' = inbox \o Request(reads) /\ cut' = (cut \/ reads > 1)
       ELSE pc' = "idle" /\ rc' = -1 /\ UNCHANGED <<inbox, cut>>
    /\ UNCHANGED <<kind, call, cmd, sock, rx, out, srv, peer, stream>>

\* A line, or nothing at the end of the stream.
PyReadline ==
    /\ OfPy /\ pc = "recv" /\ (stream # <<>> \/ peer = "closed")
    /\ IF stream = <<>> THEN rx' = <<>> /\ UNCHANGED stream
       ELSE rx' = <<Head(stream)>> /\ stream' = Tail(stream)
    /\ pc' = "result"
    /\ UNCHANGED <<lib, call, cmd, sock, rc, out, srv, peer, inbox>>

\* _validate_jsonresp(): an error, or text that is no JSON, gives False.
PyResult ==
    /\ OfPy /\ pc = "result"
    /\ pc' = "idle" /\ rc' \in IF rx = <<>> THEN {-1} ELSE {-1, 0}
    /\ out' = IF rc' = 0 /\ cmd = "read" THEN "data" ELSE "none"
    /\ rx' = <<>>
    /\ UNCHANGED <<lib, call, cmd, sock, server>>

-----------------------------------------------------------------------------
(* otdb.                                                                   *)

Reply(n) == [i \in 1..n |-> inbox[1]]

\* A request is run and its reply written, as long as the client is there.
ServerRuns ==
    /\ srv = "up" /\ peer = "serving" /\ inbox # <<>>
    /\ inbox' = Tail(inbox)
    /\ \E n \in IF OfPy THEN {1} ELSE 0..MaxReply :
         stream' = IF fd = "closed" THEN stream ELSE stream \o Reply(n)
    /\ UNCHANGED <<lib, pc, call, cmd, sock, result, srv, peer>>

\* A command is stuck, with iso_mutex, in the device manager or in the reply to
\* a client that does not read: nothing is run any more.
ServerSticks ==
    /\ srv = "up" /\ srv' = "stuck"
    /\ UNCHANGED <<lib, pc, call, cmd, sock, result, peer, inbox, stream>>

\* otdb ends.
ServerEnds ==
    /\ srv # "down" /\ srv' = "down"
    /\ peer' = IF peer = "serving" THEN "closed" ELSE peer
    /\ UNCHANGED <<lib, pc, call, cmd, sock, result, inbox, stream>>

-----------------------------------------------------------------------------
Calls ==
    \/ NewDevice \/ DelSetDevice \/ OpenSaveDb \/ DelNewFile \/ Read \/ ReadAll
    \/ Restore \/ ReadHdr \/ ReadPerms \/ WriteData \/ WritePerms
    \/ PyDbCall \/ PyFileCall \/ PyReadCall \/ PyWriteCall

Goes ==
    \/ Connect \/ Send \/ RecvFull \/ RecvEnd \/ Disconnect
    \/ PlainResult \/ ReadResult \/ ReadAllResult \/ ReadHdrResult \/ ReadPermsResult
    \/ PySend \/ PyReadline \/ PyResult

Next ==
    \/ Calls \/ Goes \/ RecvInterrupted
    \/ UserConnects \/ UserDisconnects \/ Deinit
    \/ PyConnect \/ PyDisconnect \/ ServerRuns \/ ServerSticks \/ ServerEnds

\* A call goes on once it can, and otdb runs what it has read unless it is stuck;
\* calls, signals and the end of otdb may never come.
Spec == Init /\ [][Next]_vars /\ WF_vars(Goes) /\ WF_vars(ServerRuns)

-----------------------------------------------------------------------------
(* Properties.                                                             *)

\* Every variable stays within its type; rxbuf is not overrun.
TypeOK ==
    /\ kind \in Kinds /\ cut \in BOOLEAN
    /\ pc \in {"idle", "connect", "send", "recv", "close", "result", "spins", "killed", "freed"}
    /\ call \in 0..MaxCalls /\ rc \in -2..RxSize
    /\ fd \in {"new", "conn", "closed"} /\ connected \in BOOLEAN
    /\ out \in {"none", "no data", "zeros", "data"}
    /\ Len(rx) <= RxSize
    /\ srv \in {"up", "stuck", "down"} /\ peer \in {"none", "serving", "closed"}

\* What a call has received is the reply to its own command, after calls that
\* were interrupted or failed, and connections that were made again; in Python as
\* long as no request on the connection was longer than LINESIZE.
RepliesBelong == ~cut \/ OfC => \A i \in DOMAIN rx : rx[i] = call

\* "Send the command and then return true/false": what a Python call judges is
\* the reply to its command, however long the requests were.
JudgesItsReply == OfPy /\ pc = "result" => \A i \in DOMAIN rx : rx[i] = call

\* A call comes back when otdb ends, and a Python call does when otdb is not
\* stuck; but SIGPIPE may end the program, and otdb_readperms() is left out.
CallsEnd ==
    (Busy /\ cmd # "readperms" /\ (OfPy \/ srv = "down")) ~>
        (~Busy \/ pc = "killed" \/ srv = "stuck")

\* "They are blocking calls, which return to the client after a response has
\* been received": a call receives the response that is there, from an otdb that
\* stays up,
CallReturns == (pc = "recv" /\ stream # <<>> /\ srv = "up") ~> (pc # "recv" \/ srv # "up")

\* and comes back with it.
ReturnsAfterResponse == pc = "result" ~> ~Busy
=============================================================================
