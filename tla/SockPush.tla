------------------------------ MODULE SockPush ------------------------------
(***************************************************************************)
(* The device-manager socket of otdb (main/sockpush.c): sp_iothread() reads *)
(* lines from the socket into one shared buffer, and one caller at a time   *)
(* uses sp_reader_create(), sp_sendcmd(), sp_read(), sp_reader_purge() and  *)
(* sp_reader_destroy().  Commands run one at a time (dterm's iso_mutex, or  *)
(* a single prompter or piper thread), so the caller is one process.        *)
(*                                                                          *)
(* The grain is one step per critical section, except where a copy of the   *)
(* buffer is in progress: a line is two halves, and both the thread's copy  *)
(* into the buffer and the reader's copy out of it are a step per half, so  *)
(* that a torn read is a state of the model.  A line is its number in the   *)
(* order of arrival; line 0 is the empty buffer of before the first line.   *)
(*                                                                          *)
(* Mutexes: user_mutex and readline_mutex have an owner, because they are   *)
(* held across steps.  readdone_mutex is only held within a step.  A wait   *)
(* on a condition is left when the predicate its loop tests is false.       *)
(***************************************************************************)
EXTENDS Integers

CONSTANT MaxLines       \* bound: lines the device manager ever sends

ASSUME MaxLinesAssumption == MaxLines \in Nat

SP_MAX_READERS == 1

VARIABLES
    \* sp_iothread()
    io,                 \* where the thread is
    fd,                 \* the socket sp->fd_sock
    line,               \* the line in its private readbuf
    \* sp_item_t
    user,               \* owner of user_mutex
    readline,           \* owner of readline_mutex
    readId, buf,        \* read_id and read_buf
    readers, waiting,   \* readers and waiting_readers
    readlineInactive, readdoneInactive,
    \* the caller
    pc,                 \* where the caller is, inside or between sp_ calls
    lastRead,           \* last_read of its reader
    dout,               \* its readbuf argument, filled half by half
    rc,                 \* how the last sp_read() or sp_sendcmd() went
    got,                \* the line the last successful sp_read() returned
    \* main()
    main                \* otdb_main() after its pthread_cond_wait()

item  == <<user, readline, readId, buf, readers, waiting,
           readlineInactive, readdoneInactive>>
iovars     == <<io, fd, line>>
callervars == <<pc, lastRead, dout, rc, got>>
vars  == <<iovars, item, callervars, main>>

Half == [lo : 0..MaxLines, hi : 0..MaxLines]

IoPlaces == {"start", "connect", "read", "lock", "copyLo", "copyHi", "notify",
             "rd", "wait", "unlock", "dead"}
IoHoldsUser == {"copyLo", "copyHi", "notify", "rd", "wait", "unlock"}

CallerPlaces == {"idle", "create", "ready", "send", "write", "purge", "destroy",
                 "try", "peekLo", "peekHi", "enter", "rwait", "loadLo", "loadHi",
                 "done", "dead"}
InRead == {"try", "peekLo", "peekHi", "enter", "rwait", "loadLo", "loadHi", "done"}

-----------------------------------------------------------------------------
\* sp_open(): the item is calloc'ed, the socket exists and is not connected.
Init ==
    /\ io = "start" /\ fd = "fresh" /\ line = 0
    /\ user = "none" /\ readline = "none"
    /\ readId = 0 /\ buf = [lo |-> 0, hi |-> 0]
    /\ readers = 0 /\ waiting = 0
    /\ readlineInactive = FALSE /\ readdoneInactive = FALSE
    /\ pc = "idle" /\ lastRead = 0 /\ dout = [lo |-> 0, hi |-> 0]
    /\ rc = "none" /\ got = [lo |-> 0, hi |-> 0]
    /\ main = "run"

-----------------------------------------------------------------------------
(* sp_iothread() *)

\* The reference variables, set by the thread itself after sp_open() returned.
IoStart ==
    /\ io = "start" /\ io' = "connect"
    /\ readlineInactive' = TRUE
    /\ readId' = 1
    /\ UNCHANGED <<fd, line, user, readline, buf, readers, waiting,
                   readdoneInactive, callervars, main>>

\* connect() can succeed on the socket sp_open() made; once that descriptor is
\* closed connect() fails with EBADF, the thread sleeps and tries it again.
IoConnect ==
    /\ io = "connect" /\ fd = "fresh"
    /\ io' = "read" /\ fd' = "up"
    /\ UNCHANGED <<line, item, callervars, main>>

\* The device manager goes away; what it had sent can still be read.
PeerCloses ==
    /\ fd = "up" /\ fd' = "hup"
    /\ UNCHANGED <<io, line, item, callervars, main>>

\* A whole line has been read, a character at a time, into readbuf.
IoReadLine ==
    /\ io = "read" /\ fd \in {"up", "hup"} /\ line < MaxLines
    /\ line' = line + 1 /\ io' = "lock"
    /\ UNCHANGED <<fd, item, callervars, main>>

\* read() fails: sp_iothread_RECONNECT closes the descriptor and connects again.
IoReadFails ==
    /\ io = "read" /\ fd = "hup"
    /\ fd' = "closed" /\ io' = "connect"
    /\ UNCHANGED <<line, item, callervars, main>>

\* Mutant of IoLock: the line is published without taking user_mutex.
IoLockUnlocked ==
    /\ io = "lock"
    /\ readId' = readId + 1 /\ io' = "copyLo"
    /\ UNCHANGED <<fd, line, user, readline, buf, readers, waiting,
                   readlineInactive, readdoneInactive, callervars, main>>

IoLock ==
    /\ io = "lock" /\ user = "none"
    /\ user' = "io" /\ readId' = readId + 1 /\ io' = "copyLo"
    /\ UNCHANGED <<fd, line, readline, buf, readers, waiting,
                   readlineInactive, readdoneInactive, callervars, main>>

IoCopyLo ==
    /\ io = "copyLo"
    /\ buf' = [buf EXCEPT !.lo = line] /\ io' = "copyHi"
    /\ UNCHANGED <<fd, line, user, readline, readId, readers, waiting,
                   readlineInactive, readdoneInactive, callervars, main>>

IoCopyHi ==
    /\ io = "copyHi"
    /\ buf' = [buf EXCEPT !.hi = line]
    /\ io' = IF readers > 0 THEN "notify" ELSE "unlock"
    /\ UNCHANGED <<fd, line, user, readline, readId, readers, waiting,
                   readlineInactive, readdoneInactive, callervars, main>>

\* Nobody is waiting: the line is left in the buffer.
IoNoWaiter ==
    /\ io = "notify" /\ readline = "none" /\ waiting = 0
    /\ io' = "unlock"
    /\ UNCHANGED <<fd, line, item, callervars, main>>

\* Mutant of IoNotify: broadcast and go on, without the readdone hand-shake.
IoNotifyOnly ==
    /\ io = "notify" /\ readline = "none" /\ waiting > 0
    /\ readlineInactive' = FALSE /\ io' = "unlock"
    /\ UNCHANGED <<fd, line, user, readline, readId, buf, readers, waiting,
                   readdoneInactive, callervars, main>>

\* A reader is waiting: broadcast, still holding user_mutex.
IoNotify ==
    /\ io = "notify" /\ readline = "none" /\ waiting > 0
    /\ readlineInactive' = FALSE /\ io' = "rd"
    /\ UNCHANGED <<fd, line, user, readline, readId, buf, readers, waiting,
                   readdoneInactive, callervars, main>>

\* Lock readdone_mutex, set the predicate and wait on readdone_cond.
IoAwaitDone ==
    /\ io = "rd"
    /\ readdoneInactive' = TRUE /\ io' = "wait"
    /\ UNCHANGED <<fd, line, user, readline, readId, buf, readers, waiting,
                   readlineInactive, callervars, main>>

IoDone ==
    /\ io = "wait" /\ ~readdoneInactive
    /\ io' = "unlock"
    /\ UNCHANGED <<fd, line, item, callervars, main>>

IoUnlock ==
    /\ io = "unlock"
    /\ user' = "none" /\ io' = "read"
    /\ UNCHANGED <<fd, line, readline, readId, buf, readers, waiting,
                   readlineInactive, readdoneInactive, callervars, main>>

\* Mutant of IoCancelled: the hand-shake is no cancellation point.
IoCancelledNotWaiting ==
    /\ main = "joining" /\ io \in {"connect", "read"}
    /\ io' = "dead"
    /\ UNCHANGED <<fd, line, item, callervars, main>>

\* Cancellation is deferred: it acts in connect(), sleep(), read() and
\* pthread_cond_wait(), and no clean-up handler unlocks user_mutex.
IoCancelled ==
    /\ main = "joining" /\ io \in {"connect", "read", "wait"}
    /\ io' = "dead"
    /\ UNCHANGED <<fd, line, item, callervars, main>>

-----------------------------------------------------------------------------
(* The caller.  It can be anywhere until sp_close() has freed the item. *)

\* The caller enters one of the sp_ functions.
Call(from, to) ==
    /\ main # "closed" /\ pc = from /\ pc' = to
    /\ UNCHANGED <<iovars, item, lastRead, dout, rc, got, main>>

\* The count is tested before user_mutex is taken.
CallCreate  == readers < SP_MAX_READERS /\ Call("idle", "create")
CallSend    == Call("ready", "send")
CallRead    == Call("ready", "try")
CallPurge   == Call("ready", "purge")
CallDestroy == Call("ready", "destroy")

\* sp_reader_create(), under user_mutex
CreateReader ==
    /\ pc = "create" /\ user = "none"
    /\ lastRead' = readId /\ readers' = readers + 1 /\ pc' = "ready"
    /\ UNCHANGED <<iovars, user, readline, readId, buf, waiting,
                   readlineInactive, readdoneInactive, dout, rc, got, main>>

\* sp_reader_purge(), under user_mutex
PurgeReader ==
    /\ pc = "purge" /\ user = "none"
    /\ lastRead' = readId /\ pc' = "ready"
    /\ UNCHANGED <<iovars, item, dout, rc, got, main>>

\* Mutant of DestroyReader: the count of readers is left as it is.
DestroyReaderUncounted ==
    /\ pc = "destroy" /\ user = "none"
    /\ pc' = "idle"
    /\ UNCHANGED <<iovars, item, lastRead, dout, rc, got, main>>

\* sp_reader_destroy(), under user_mutex
DestroyReader ==
    /\ pc = "destroy" /\ user = "none"
    /\ readers' = readers - 1 /\ pc' = "idle"
    /\ UNCHANGED <<iovars, user, readline, readId, buf, waiting,
                   readlineInactive, readdoneInactive, lastRead, dout, rc, got, main>>

\* sub_write(): lock, then write() to the descriptor whatever its state.
SendLock ==
    /\ pc = "send" /\ user = "none"
    /\ user' = "caller" /\ pc' = "write"
    /\ UNCHANGED <<iovars, readline, readId, buf, readers, waiting,
                   readlineInactive, readdoneInactive, lastRead, dout, rc, got, main>>

SendWrite ==
    /\ pc = "write"
    /\ user' = "none" /\ pc' = "ready"
    /\ rc' = IF fd = "up" THEN "sent" ELSE "failed"
    /\ UNCHANGED <<iovars, readline, readId, buf, readers, waiting,
                   readlineInactive, readdoneInactive, lastRead, dout, got, main>>

\* Mutant of TryFresh: the line is copied without holding user_mutex.
TryFreshUnlocked ==
    /\ pc = "try" /\ user = "none" /\ lastRead # readId
    /\ lastRead' = readId /\ pc' = "peekLo"
    /\ UNCHANGED <<iovars, item, dout, rc, got, main>>

\* sp_read(), 1st step: pthread_mutex_trylock() and a line is sitting there
TryFresh ==
    /\ pc = "try" /\ user = "none" /\ lastRead # readId
    /\ user' = "caller" /\ lastRead' = readId /\ pc' = "peekLo"
    /\ UNCHANGED <<iovars, readline, readId, buf, readers, waiting,
                   readlineInactive, readdoneInactive, dout, rc, got, main>>

\* Mutant of TryNothing: pthread_mutex_lock() in place of the trylock.
TryNothingBlocking ==
    /\ pc = "try" /\ user = "none" /\ lastRead = readId
    /\ pc' = "enter"
    /\ UNCHANGED <<iovars, item, lastRead, dout, rc, got, main>>

\* the lock was taken and nothing is new, or the lock is busy
TryNothing ==
    /\ pc = "try" /\ (user # "none" \/ lastRead = readId)
    /\ pc' = "enter"
    /\ UNCHANGED <<iovars, item, lastRead, dout, rc, got, main>>

PeekLo ==
    /\ pc = "peekLo"
    /\ dout' = [dout EXCEPT !.lo = buf.lo] /\ pc' = "peekHi"
    /\ UNCHANGED <<iovars, item, lastRead, rc, got, main>>

\* An empty buffer (read_size 0) loads nothing and falls through to the wait.
PeekHi ==
    /\ pc = "peekHi"
    /\ dout' = [dout EXCEPT !.hi = buf.hi] /\ user' = "none"
    /\ IF buf.hi = 0
       THEN pc' = "enter" /\ UNCHANGED <<rc, got>>
       ELSE pc' = "ready" /\ rc' = "line" /\ got' = dout'
    /\ UNCHANGED <<iovars, readline, readId, buf, readers, waiting,
                   readlineInactive, readdoneInactive, lastRead, main>>

\* 2nd step: count as waiting and sleep on readline_cond
EnterWait ==
    /\ pc = "enter" /\ readline = "none"
    /\ waiting' = waiting + 1 /\ readlineInactive' = TRUE /\ pc' = "rwait"
    /\ UNCHANGED <<iovars, user, readline, readId, buf, readers,
                   readdoneInactive, lastRead, dout, rc, got, main>>

\* Mutant of Wake: last_read is not brought up to date.
WakeUnmarked ==
    /\ pc = "rwait" /\ readline = "none" /\ ~readlineInactive
    /\ readline' = "caller" /\ pc' = "loadLo"
    /\ UNCHANGED <<iovars, user, readId, buf, readers, waiting, lastRead,
                   readlineInactive, readdoneInactive, dout, rc, got, main>>

\* woken: sub_loadread() under readline_mutex
Wake ==
    /\ pc = "rwait" /\ readline = "none" /\ ~readlineInactive
    /\ readline' = "caller" /\ lastRead' = readId /\ pc' = "loadLo"
    /\ UNCHANGED <<iovars, user, readId, buf, readers, waiting,
                   readlineInactive, readdoneInactive, dout, rc, got, main>>

\* Mutant of LeaveWait: waiting_readers is left as it is.
LeaveWaitUncounted ==
    /\ UNCHANGED waiting
    /\ pc' = IF waiting' = 0 THEN "done" ELSE "ready"

LeaveWait ==
    /\ waiting' = IF waiting # 0 THEN waiting - 1 ELSE 0
    /\ pc' = IF waiting' = 0 THEN "done" ELSE "ready"

\* ETIMEDOUT, whether or not the broadcast has happened meanwhile
TimedOut ==
    /\ pc = "rwait" /\ readline = "none"
    /\ LeaveWait /\ rc' = "timeout"
    /\ UNCHANGED <<iovars, user, readline, readId, buf, readers,
                   readlineInactive, readdoneInactive, lastRead, dout, got, main>>

LoadLo ==
    /\ pc = "loadLo"
    /\ dout' = [dout EXCEPT !.lo = buf.lo] /\ pc' = "loadHi"
    /\ UNCHANGED <<iovars, item, lastRead, rc, got, main>>

LoadHi ==
    /\ pc = "loadHi"
    /\ dout' = [dout EXCEPT !.hi = buf.hi] /\ readline' = "none"
    /\ LeaveWait /\ rc' = "line"
    /\ UNCHANGED <<iovars, user, readId, buf, readers,
                   readlineInactive, readdoneInactive, lastRead, got, main>>

\* Mutant of SignalDone: the condition is signalled, its predicate not cleared.
SignalDoneUncleared ==
    /\ pc = "done" /\ pc' = "ready"
    /\ got' = IF rc = "line" THEN dout ELSE got
    /\ UNCHANGED <<iovars, item, lastRead, dout, rc, main>>

\* tell sp_iothread() the line has been read, and return
SignalDone ==
    /\ pc = "done"
    /\ readdoneInactive' = FALSE /\ pc' = "ready"
    /\ got' = IF rc = "line" THEN dout ELSE got
    /\ UNCHANGED <<iovars, user, readline, readId, buf, readers, waiting,
                   readlineInactive, lastRead, dout, rc, main>>

\* The cancellation of the terminal thread acts where the caller blocks: in
\* the terminal's own read(), in write() with user_mutex held, or in
\* pthread_cond_timedwait(), which takes readline_mutex again first.
CallerCancelled ==
    /\ main # "run"
    /\ \/ pc \in {"idle", "write"} /\ UNCHANGED readline
       \/ pc = "rwait" /\ readline = "none" /\ readline' = "caller"
    /\ pc' = "dead"
    /\ UNCHANGED <<iovars, user, readId, buf, readers, waiting,
                   readlineInactive, readdoneInactive, lastRead, dout, rc, got, main>>

-----------------------------------------------------------------------------
(* otdb_main(), woken by a signal *)

MainCancel ==
    /\ main = "run" /\ main' = "cancelling"
    /\ UNCHANGED <<iovars, item, callervars>>

\* sp_close(): cancel sp_iothread(), join it, unlock and free everything
SpClose ==
    /\ main = "cancelling" /\ main' = "joining"
    /\ UNCHANGED <<iovars, item, callervars>>

SpJoined ==
    /\ main = "joining" /\ io = "dead" /\ main' = "closed"
    /\ UNCHANGED <<iovars, item, callervars>>

-----------------------------------------------------------------------------
Io ==
    \/ IoStart \/ IoConnect \/ IoReadFails \/ IoLock \/ IoCopyLo \/ IoCopyHi
    \/ IoNoWaiter \/ IoNotify \/ IoAwaitDone \/ IoDone \/ IoUnlock \/ IoCancelled

\* The steps the caller takes inside a call; after sp_close() nothing is left.
Inside ==
    /\ main # "closed"
    /\ \/ CreateReader \/ PurgeReader \/ DestroyReader \/ SendLock \/ SendWrite
       \/ TryFresh \/ TryNothing \/ PeekLo \/ PeekHi \/ EnterWait \/ Wake
       \/ TimedOut \/ LoadLo \/ LoadHi \/ SignalDone \/ CallerCancelled

Calls == CallCreate \/ CallSend \/ CallRead \/ CallPurge \/ CallDestroy

Next ==
    \/ Io \/ IoReadLine \/ PeerCloses
    \/ Inside \/ Calls
    \/ MainCancel \/ SpClose \/ SpJoined

Spec == Init /\ [][Next]_vars

\* Each thread runs on while it can.  The caller may take and give back a mutex
\* again and again, so the I/O thread is promised to get one that it waits for in
\* the end; the caller is not, because only finitely many lines arrive.  Nothing
\* obliges the device manager to send or to hang up, the caller to call again, or
\* a user to quit.
Fairness ==
    /\ WF_vars(Io) /\ SF_vars(IoLock \/ IoNoWaiter \/ IoNotify)
    /\ WF_vars(Inside) /\ WF_vars(SpClose \/ SpJoined)

FairSpec == Spec /\ Fairness

-----------------------------------------------------------------------------
(* Properties *)

\* Every variable stays within its type, and counters within their arrays.
TypeOK ==
    /\ io \in IoPlaces
    /\ fd \in {"fresh", "up", "hup", "closed"}
    /\ line \in 0..MaxLines
    /\ user \in {"none", "io", "caller"}
    /\ readline \in {"none", "caller"}
    /\ readId \in 0..(MaxLines + 1)
    /\ buf \in Half
    /\ readers \in 0..SP_MAX_READERS
    /\ waiting \in 0..SP_MAX_READERS
    /\ readlineInactive \in BOOLEAN
    /\ readdoneInactive \in BOOLEAN
    /\ pc \in CallerPlaces
    /\ lastRead \in 0..(MaxLines + 1)
    /\ dout \in Half
    /\ rc \in {"none", "sent", "failed", "line", "timeout"}
    /\ got \in Half
    /\ main \in {"run", "cancelling", "joining", "closed"}

\* What sp_read() returns is one line, never parts of two, although it copies
\* under readline_mutex a buffer that is written under user_mutex.
NoTornRead == got.lo = got.hi

\* The reader is handed a line, or copies it, or has copied it and not said so.
HandedOver ==
    \/ pc = "rwait" /\ ~readlineInactive
    \/ pc \in {"loadLo", "loadHi"}
    \/ pc = "done" /\ rc = "line"

\* A line handed over to a sleeping reader stays in the buffer until the reader
\* is done with it: from the broadcast to the reader's signal the I/O thread is
\* held in its hand-shake (or was cancelled there) and goes on only when told.
HandoverHolds ==
    HandedOver => io \in {"rd", "dead"} \/ (io = "wait" /\ readdoneInactive)

(* The rest of the inductive invariant that NoTornRead and HandoverHolds need. *)

\* user_mutex is owned by whoever is inside one of its critical sections, or by
\* a thread that was cancelled there.
UserOwner ==
    /\ io \in IoHoldsUser => user = "io"
    /\ user = "io" => io \in IoHoldsUser \union {"dead"}
    /\ pc \in {"write", "peekLo", "peekHi"} => user = "caller"
    /\ user = "caller" => pc \in {"write", "peekLo", "peekHi", "dead"}

\* readline_mutex likewise, and waiting_readers counts the one that waits.
WaitSection ==
    /\ readline = "caller" => pc \in {"loadLo", "loadHi", "dead"}
    /\ pc \in {"loadLo", "loadHi"} => readline = "caller"
    /\ pc \in {"rwait", "loadLo", "loadHi"} => waiting = 1
    /\ pc \notin {"rwait", "loadLo", "loadHi", "dead"} => waiting = 0

\* The number of readers follows create and destroy.
ReaderCount ==
    /\ pc \in {"idle", "create"} => readers = 0
    /\ pc \notin {"idle", "create", "dead"} => readers = 1

\* The read id and the two halves of the buffer lag behind the line by as much
\* as the publication still has to do.
Publication ==
    /\ io = "start" => line = 0 /\ readId = 0
    /\ io \in IoHoldsUser \union {"lock"} => line > 0
    /\ io = "lock" => readId = line
    /\ io \notin {"start", "lock"} => readId = line + 1
    /\ io \in {"lock", "copyLo", "copyHi"} => buf.hi = line - 1
    /\ io \in {"lock", "copyLo"} => buf.lo = line - 1
    /\ io \notin {"lock", "copyLo"} => buf.lo = line
    /\ io \notin {"lock", "copyLo", "copyHi"} => buf.hi = line

\* A copy of the buffer is being made, or is made and not returned yet.
Copying ==
    pc \in {"peekLo", "peekHi", "loadLo", "loadHi"} \/ (pc = "done" /\ rc = "line")

\* A copy in progress is a copy of what is in the buffer, which stays there.
CopyHolds ==
    /\ HandoverHolds
    /\ pc \in {"peekHi", "loadHi"} => dout.lo = buf.lo
    /\ (pc = "done" /\ rc = "line") => dout = buf

\* What is copied, or about to be, is newer than what was returned before.
CopyIsFresh ==
    /\ lastRead <= readId /\ got.hi <= buf.hi
    /\ io = "start" => ~Copying
    /\ io \in {"copyLo", "copyHi", "notify"} => lastRead < readId
    /\ (pc = "rwait" /\ ~readlineInactive) => lastRead < readId /\ buf.hi > 0
    /\ Copying => lastRead = readId
    /\ Copying => got.hi < buf.hi \/ (buf.hi = 0 /\ pc \in {"peekLo", "peekHi"})
    /\ ~Copying => got.hi = 0 \/ got.hi < lastRead

Inv ==
    /\ TypeOK /\ NoTornRead /\ UserOwner /\ WaitSection /\ ReaderCount
    /\ Publication /\ CopyHolds /\ CopyIsFresh

\* The socket as its caller sees it: a box that holds the newest line.
Mailbox == INSTANCE Mailbox WITH
    posted <- buf.hi,
    taken  <- IF got.lo = got.hi THEN got.hi ELSE -1

\* The buffer, the read ids and the two hand-shakes together implement the box:
\* what has been returned is, at every return, the newest line, whole.
ImplementsMailbox == Mailbox!Spec

\* A return of sp_read() with a line.
Returns == pc \in {"peekHi", "done"} /\ pc' = "ready" /\ rc' = "line"

\* A line is returned once: each sp_read() that returns a line returns the
\* newest one, and one that is newer than all it returned before.
ReturnsNewest == [][Returns => got'.hi = buf.hi /\ got.hi < got'.hi]_vars

\* sp_read() returns, within its time-out, even when sp_iothread() is stuck
\* holding user_mutex: it only tries that mutex.
ReadReturns == (pc \in InRead) ~> (pc \notin InRead \/ main # "run")

\* If the hand-shake left sp_iothread() asleep, a later sp_read() frees it.
LaterReadFreesThread ==
    (io = "wait" /\ pc = "enter") ~> (io # "wait" \/ main # "run")

\* A call that needs user_mutex completes: the I/O thread gives it back.
LockedCallReturns ==
    \A c \in {"create", "send", "purge", "destroy"} :
        (pc = c) ~> (pc # c \/ main # "run")

\* The only thing that keeps sp_close() from returning is a mutex that went
\* down with the caller: a stuck hand-shake does not.
CloseReturnsUnlessMutexLost ==
    (main = "joining") ~>
        (main = "closed" \/ (pc = "dead" /\ "caller" \in {user, readline}))
=============================================================================
