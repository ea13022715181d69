---------------------------- MODULE SockPushProofs ----------------------------
(***************************************************************************)
(* Proofs about SockPush, for any number of lines: the inductive invariant  *)
(* Inv, what follows from it (no torn read, the hand-over holds), and that  *)
(* the socket implements the Mailbox.                                       *)
(*                                                                          *)
(* Why Inv is what it is.  NoTornRead speaks of the line returned last, so  *)
(* it needs the copy in dout to be whole when the call returns: CopyHolds,  *)
(* which ties each half copied so far to the buffer.  That stays true only  *)
(* if the buffer does not change under a copy.  For the copy made under     *)
(* user_mutex that is UserOwner; for the one made under readline_mutex it   *)
(* is HandoverHolds, the claim about the hand-shake, which rests on         *)
(* WaitSection: the thread broadcasts only to a reader that is asleep.      *)
(* Publication says where the buffer and read_id are relative to the line,  *)
(* and CopyIsFresh, needed for the Mailbox, that read ids tell new lines    *)
(* from old ones.                                                           *)
(***************************************************************************)
EXTENDS SockPush, TLAPS

-----------------------------------------------------------------------------
(* Lines as pairs of halves. *)

\* Replacing a half of a line gives a line with that half replaced.
LEMMA HalfExcept ==
  ASSUME NEW h \in Half, NEW v \in 0..MaxLines
  PROVE  /\ [h EXCEPT !.lo = v] \in Half
         /\ [h EXCEPT !.hi = v] \in Half
         /\ [h EXCEPT !.lo = v].lo = v /\ [h EXCEPT !.lo = v].hi = h.hi
         /\ [h EXCEPT !.hi = v].hi = v /\ [h EXCEPT !.hi = v].lo = h.lo
  BY DEF Half

\* The halves of a line are line numbers.
LEMMA HalfFields ==
  ASSUME NEW h \in Half
  PROVE  h.lo \in 0..MaxLines /\ h.hi \in 0..MaxLines
  BY DEF Half

\* Two lines with the same halves are the same line.
LEMMA HalfEqual ==
  ASSUME NEW g \in Half, NEW h \in Half, g.lo = h.lo, g.hi = h.hi
  PROVE  g = h
  BY DEF Half

-----------------------------------------------------------------------------
(* Type correctness is inductive together with the ranges Inv gives. *)

\* sp_open() leaves every variable within its type.
LEMMA TypeInit == Init => TypeOK
  <1> SUFFICES ASSUME Init PROVE TypeOK
    OBVIOUS
  <1> USE MaxLinesAssumption DEF Init
  <1>1. 0 \in 0..MaxLines
    OBVIOUS
  <1>2. buf \in Half /\ dout \in Half /\ got \in Half
    BY <1>1 DEF Half
  <1>3. io \in IoPlaces /\ pc \in CallerPlaces
    BY DEF IoPlaces, CallerPlaces
  <1>4. readers \in 0..SP_MAX_READERS /\ waiting \in 0..SP_MAX_READERS
    BY DEF SP_MAX_READERS
  <1>5. readlineInactive \in BOOLEAN /\ readdoneInactive \in BOOLEAN
    OBVIOUS
  <1>6. QED
    BY <1>1, <1>2, <1>3, <1>4, <1>5 DEF TypeOK

\* A step of sp_iothread() keeps the types.
LEMMA TypeIo ==
  ASSUME Inv, Io \/ IoReadLine \/ PeerCloses
  PROVE  TypeOK'
  <1> USE MaxLinesAssumption
      DEF Inv, TypeOK, IoPlaces, SP_MAX_READERS, item, iovars, callervars
  <1>1. CASE IoStart
    BY <1>1 DEF IoStart
  <1>2. CASE IoConnect
    BY <1>2 DEF IoConnect
  <1>3. CASE IoReadFails
    BY <1>3 DEF IoReadFails
  <1>4. CASE IoLock
    BY <1>4 DEF IoLock, Publication
  <1>5. CASE IoCopyLo
    <2>1. buf' \in Half
      BY <1>5, HalfExcept DEF IoCopyLo
    <2>2. QED
      BY <1>5, <2>1 DEF IoCopyLo
  <1>6. CASE IoCopyHi
    <2>1. buf' \in Half
      BY <1>6, HalfExcept DEF IoCopyHi
    <2>2. QED
      BY <1>6, <2>1 DEF IoCopyHi
  <1>7. CASE IoNoWaiter
    BY <1>7 DEF IoNoWaiter
  <1>8. CASE IoNotify
    BY <1>8 DEF IoNotify
  <1>9. CASE IoAwaitDone
    BY <1>9 DEF IoAwaitDone
  <1>10. CASE IoDone
    BY <1>10 DEF IoDone
  <1>11. CASE IoUnlock
    BY <1>11 DEF IoUnlock
  <1>12. CASE IoCancelled
    BY <1>12 DEF IoCancelled
  <1>13. CASE IoReadLine
    BY <1>13 DEF IoReadLine
  <1>14. CASE PeerCloses
    BY <1>14 DEF PeerCloses
  <1>15. QED
    BY <1>1, <1>2, <1>3, <1>4, <1>5, <1>6, <1>7, <1>8, <1>9, <1>10, <1>11,
       <1>12, <1>13, <1>14 DEF Io

\* A step of the caller, entering an sp_ function or inside one, keeps them.
LEMMA TypeCaller ==
  ASSUME Inv, Inside \/ Calls
  PROVE  TypeOK'
  <1> USE MaxLinesAssumption
      DEF Inv, TypeOK, CallerPlaces, SP_MAX_READERS, item, iovars, callervars
  <1>1. CASE CreateReader
    BY <1>1 DEF CreateReader, ReaderCount
  <1>2. CASE PurgeReader
    BY <1>2 DEF PurgeReader
  <1>3. CASE DestroyReader
    BY <1>3 DEF DestroyReader, ReaderCount
  <1>4. CASE SendLock
    BY <1>4 DEF SendLock
  <1>5. CASE SendWrite
    BY <1>5 DEF SendWrite
  <1>6. CASE TryFresh
    BY <1>6 DEF TryFresh
  <1>7. CASE TryNothing
    BY <1>7 DEF TryNothing
  <1>8. CASE PeekLo
    <2>1. dout' \in Half
      BY <1>8, HalfExcept, HalfFields DEF PeekLo
    <2>2. QED
      BY <1>8, <2>1 DEF PeekLo
  <1>9. CASE PeekHi
    <2>1. dout' \in Half
      BY <1>9, HalfExcept, HalfFields DEF PeekHi
    <2>2. QED
      BY <1>9, <2>1 DEF PeekHi
  <1>10. CASE EnterWait
    BY <1>10 DEF EnterWait, WaitSection
  <1>11. CASE Wake
    BY <1>11 DEF Wake
  <1>12. CASE TimedOut
    BY <1>12 DEF TimedOut, LeaveWait
  <1>13. CASE LoadLo
    <2>1. dout' \in Half
      BY <1>13, HalfExcept, HalfFields DEF LoadLo
    <2>2. QED
      BY <1>13, <2>1 DEF LoadLo
  <1>14. CASE LoadHi
    <2>1. dout' \in Half
      BY <1>14, HalfExcept, HalfFields DEF LoadHi
    <2>2. QED
      BY <1>14, <2>1 DEF LoadHi, LeaveWait
  <1>15. CASE SignalDone
    <2>1. got' \in Half
      <3> SUFFICES ASSUME got \in Half, dout \in Half, SignalDone PROVE got' \in Half
        BY <1>15
      <3> QED
        BY DEF SignalDone
    <2>2. pc' \in CallerPlaces /\ readdoneInactive' \in BOOLEAN
      BY <1>15 DEF SignalDone
    <2>3. UNCHANGED <<iovars, user, readline, readId, buf, readers, waiting,
                      readlineInactive, lastRead, dout, rc, main>>
      BY <1>15 DEF SignalDone
    <2>4. QED
      BY <2>1, <2>2, <2>3
  <1>16. CASE CallerCancelled
    BY <1>16 DEF CallerCancelled
  <1>17. CASE Calls
    BY <1>17 DEF Calls, CallCreate, CallSend, CallRead, CallPurge, CallDestroy, Call
  <1>18. QED
    BY <1>1, <1>2, <1>3, <1>4, <1>5, <1>6, <1>7, <1>8, <1>9, <1>10, <1>11,
       <1>12, <1>13, <1>14, <1>15, <1>16, <1>17 DEF Inside

-----------------------------------------------------------------------------
(* The inductive invariant. *)

\* It holds when sp_open() returns.
LEMMA InvInit == Init => Inv
  <1> SUFFICES ASSUME Init PROVE Inv
    OBVIOUS
  <1>1. TypeOK
    BY TypeInit
  <1>2. NoTornRead /\ UserOwner /\ WaitSection /\ ReaderCount /\ Publication
    BY DEF Init, NoTornRead, UserOwner, IoHoldsUser, WaitSection, ReaderCount,
           Publication
  <1>3. CopyHolds /\ CopyIsFresh
    BY DEF Init, CopyHolds, HandoverHolds, HandedOver, CopyIsFresh, Copying
  <1>4. QED
    BY <1>1, <1>2, <1>3 DEF Inv

\* Steps of sp_iothread() and of the device manager keep it.
LEMMA InvIo ==
  ASSUME Inv, Io \/ IoReadLine \/ PeerCloses
  PROVE  Inv'
  <1>1. TypeOK /\ TypeOK'
    BY TypeIo DEF Inv
  <1> USE <1>1, MaxLinesAssumption, HalfExcept, HalfFields
      DEF Inv, TypeOK, NoTornRead, UserOwner, WaitSection, ReaderCount,
          Publication, CopyHolds, HandoverHolds, HandedOver, CopyIsFresh,
          Copying, IoHoldsUser, SP_MAX_READERS, item, iovars, callervars
  <1>2. CASE IoStart
    BY <1>2 DEF IoStart
  <1>3. CASE IoConnect
    BY <1>3 DEF IoConnect
  <1>4. CASE IoReadFails
    BY <1>4 DEF IoReadFails
  <1>5. CASE IoLock
    BY <1>5 DEF IoLock
  <1>6. CASE IoCopyLo
    BY <1>6 DEF IoCopyLo
  <1>7. CASE IoCopyHi
    BY <1>7 DEF IoCopyHi
  <1>8. CASE IoNoWaiter
    BY <1>8 DEF IoNoWaiter
  <1>9. CASE IoNotify
    BY <1>9 DEF IoNotify
  <1>10. CASE IoAwaitDone
    BY <1>10 DEF IoAwaitDone
  <1>11. CASE IoDone
    BY <1>11 DEF IoDone
  <1>12. CASE IoUnlock
    BY <1>12 DEF IoUnlock
  <1>13. CASE IoCancelled
    BY <1>13 DEF IoCancelled
  <1>14. CASE IoReadLine
    BY <1>14 DEF IoReadLine
  <1>15. CASE PeerCloses
    BY <1>15 DEF PeerCloses
  <1>16. QED
    BY <1>2, <1>3, <1>4, <1>5, <1>6, <1>7, <1>8, <1>9, <1>10, <1>11, <1>12,
       <1>13, <1>14, <1>15 DEF Io

\* Steps of the caller keep it.
LEMMA InvCaller ==
  ASSUME Inv, Inside \/ Calls
  PROVE  Inv'
  <1>1. TypeOK /\ TypeOK'
    BY TypeCaller DEF Inv
  <1> USE <1>1, MaxLinesAssumption, HalfExcept, HalfFields
      DEF Inv, TypeOK, NoTornRead, UserOwner, WaitSection, ReaderCount,
          Publication, CopyHolds, HandoverHolds, HandedOver, CopyIsFresh,
          Copying, IoHoldsUser, SP_MAX_READERS, item, iovars, callervars
  <1>2. CASE CreateReader
    BY <1>2 DEF CreateReader
  <1>3. CASE PurgeReader
    BY <1>3 DEF PurgeReader
  <1>4. CASE DestroyReader
    BY <1>4 DEF DestroyReader
  <1>5. CASE SendLock
    BY <1>5 DEF SendLock
  <1>6. CASE SendWrite
    BY <1>6 DEF SendWrite
  <1>7. CASE TryFresh
    BY <1>7 DEF TryFresh
  <1>8. CASE TryNothing
    BY <1>8 DEF TryNothing
  <1>9. CASE PeekLo
    BY <1>9 DEF PeekLo
  <1>10. CASE PeekHi
    <2>1. buf.lo = buf.hi
      BY <1>10 DEF PeekHi
    <2>2. dout'.lo = buf.lo /\ dout'.hi = buf.hi
      BY <1>10 DEF PeekHi
    <2>3. CASE buf.hi = 0
      BY <1>10, <2>2, <2>3 DEF PeekHi
    <2>4. CASE buf.hi # 0
      <3>1. got' = dout' /\ got'.lo = got'.hi
        BY <1>10, <2>1, <2>2, <2>4 DEF PeekHi
      <3>2. lastRead = readId /\ got'.hi < lastRead
        BY <1>10, <2>2, <3>1 DEF PeekHi
      <3>3. QED
        BY <1>10, <2>2, <2>4, <3>1, <3>2 DEF PeekHi
    <2>5. QED
      BY <2>3, <2>4
  <1>11. CASE EnterWait
    BY <1>11 DEF EnterWait
  <1>12. CASE Wake
    BY <1>12 DEF Wake
  <1>13. CASE TimedOut
    BY <1>13 DEF TimedOut, LeaveWait
  <1>14. CASE LoadLo
    BY <1>14 DEF LoadLo
  <1>15. CASE LoadHi
    <2>1. dout'.lo = buf'.lo /\ dout'.hi = buf'.hi
      BY <1>15 DEF LoadHi
    <2>2. dout' = buf'
      BY <1>1, <2>1, HalfEqual
    <2>3. QED
      BY <1>15, <2>2 DEF LoadHi, LeaveWait
  <1>16. CASE SignalDone
    BY <1>16 DEF SignalDone
  <1>17. CASE CallerCancelled
    BY <1>17 DEF CallerCancelled
  <1>18. CASE Calls
    BY <1>18 DEF Calls, CallCreate, CallSend, CallRead, CallPurge, CallDestroy, Call
  <1>19. QED
    BY <1>2, <1>3, <1>4, <1>5, <1>6, <1>7, <1>8, <1>9, <1>10, <1>11, <1>12,
       <1>13, <1>14, <1>15, <1>16, <1>17, <1>18 DEF Inside

\* main() and stuttering change nothing the invariant is about.
LEMMA InvMain ==
  ASSUME Inv, MainCancel \/ SpClose \/ SpJoined \/ UNCHANGED vars
  PROVE  Inv'
  <1>1. UNCHANGED <<iovars, item, callervars>> /\ TypeOK'
    BY DEF MainCancel, SpClose, SpJoined, vars, Inv, TypeOK, item, iovars, callervars
  <1>2. QED
    BY <1>1 DEF Inv, TypeOK, NoTornRead, UserOwner, WaitSection, ReaderCount,
          Publication, CopyHolds, HandoverHolds, HandedOver, CopyIsFresh,
          Copying, item, iovars, callervars

\* The invariant holds in every state of the socket and its caller, however
\* many lines arrive, calls are made, time out or are cancelled.
THEOREM Invariance == Spec => []Inv
  <1>1. Inv /\ [Next]_vars => Inv'
    BY InvIo, InvCaller, InvMain DEF Next
  <1>2. QED
    BY InvInit, <1>1, PTL DEF Spec

\* Every variable of the socket keeps its type: in particular the counters
\* readers and waiting_readers never leave 0..SP_MAX_READERS.
THEOREM TypeCorrect == Spec => []TypeOK
  <1>1. Inv => TypeOK
    BY DEF Inv
  <1>2. QED
    BY Invariance, <1>1, PTL

\* sp_read() never returns parts of two lines.
THEOREM ReadsAreWhole == Spec => []NoTornRead
  <1>1. Inv => NoTornRead
    BY DEF Inv
  <1>2. QED
    BY Invariance, <1>1, PTL

\* A line handed over stays put until the reader says it is done.
THEOREM HandoverIsSafe == Spec => []HandoverHolds
  <1>1. Inv => HandoverHolds
    BY DEF Inv, CopyHolds
  <1>2. QED
    BY Invariance, <1>1, PTL

-----------------------------------------------------------------------------
(* A line is returned once. *)

\* A step in which sp_read() returns a line is the end of one of its two copies;
\* either is a copy of the buffer, made after last_read was brought up to date.
LEMMA ReturnsStep ==
  ASSUME Inv, Next, Returns
  PROVE  got'.hi = buf.hi /\ got.hi < got'.hi
  <1> USE DEF Returns
  <1>1. CASE PeekHi
    <2>1. dout'.hi = buf.hi /\ buf.hi # 0 /\ got' = dout'
      BY <1>1, HalfExcept, HalfFields DEF PeekHi, Inv, TypeOK
    <2>2. got.hi < buf.hi
      BY <1>1, <2>1 DEF PeekHi, Inv, CopyIsFresh, Copying
    <2>3. QED
      BY <2>1, <2>2
  <1>2. CASE SignalDone
    <2>1. rc = "line" /\ pc = "done" /\ got' = dout
      BY <1>2 DEF SignalDone
    <2>2. dout = buf /\ got.hi < buf.hi
      BY <2>1 DEF Inv, CopyHolds, CopyIsFresh, Copying
    <2>3. QED
      BY <2>1, <2>2
  <1>3. CASE Io \/ IoReadLine \/ PeerCloses
    BY <1>3
    DEF Io, IoStart, IoConnect, IoReadFails, IoLock, IoCopyLo, IoCopyHi,
        IoNoWaiter, IoNotify, IoAwaitDone, IoDone, IoUnlock, IoCancelled,
        IoReadLine, PeerCloses, callervars
  <1>4. CASE Inside \/ Calls
    BY <1>1, <1>2, <1>4
    DEF Inside, CreateReader, PurgeReader, DestroyReader, SendLock, SendWrite,
        TryFresh, TryNothing, PeekLo, EnterWait, Wake, TimedOut, LoadLo, LoadHi,
        CallerCancelled, Calls, CallCreate, CallSend, CallRead, CallPurge,
        CallDestroy, Call
  <1>5. CASE MainCancel \/ SpClose \/ SpJoined
    BY <1>5 DEF MainCancel, SpClose, SpJoined, callervars
  <1>6. QED
    BY <1>3, <1>4, <1>5 DEF Next

\* No line is returned twice, and each return is of the newest line.
THEOREM ReturnsNew == Spec => ReturnsNewest
  <1>1. Inv /\ [Next]_vars => [Returns => got'.hi = buf.hi /\ got.hi < got'.hi]_vars
    BY ReturnsStep
  <1>2. QED
    BY Invariance, <1>1, PTL DEF Spec, ReturnsNewest

-----------------------------------------------------------------------------
(* Refinement. *)

\* At first the box is empty and nothing was taken from it.
LEMMA MailboxInit == Init => Mailbox!Init
  BY DEF Init, Mailbox!Init

\* Only the second half of a publication posts, and only the return of a
\* successful sp_read() takes; every other step leaves the box alone.
LEMMA MailboxStep ==
  ASSUME Inv, Inv', [Next]_vars
  PROVE  [Mailbox!Next]_(Mailbox!vars)
  <1> USE DEF Mailbox!Next, Mailbox!Post, Mailbox!Take, Mailbox!vars, item,
              iovars, callervars
  <1>1. got.lo = got.hi /\ got'.lo = got'.hi
    BY DEF Inv, NoTornRead
  <1>2. CASE IoCopyHi
    <2>1. buf'.hi = buf.hi + 1
      BY <1>2, HalfExcept, HalfFields DEF IoCopyHi, Inv, TypeOK, Publication
    <2>2. QED
      BY <1>1, <1>2, <2>1 DEF IoCopyHi
  <1>3. CASE IoCopyLo
    BY <1>1, <1>3, HalfExcept DEF IoCopyLo, Inv, TypeOK
  <1>4. CASE PeekHi
    <2>1. dout'.hi = buf.hi
      BY <1>4, HalfExcept, HalfFields DEF PeekHi, Inv, TypeOK
    <2>2. CASE buf.hi = 0
      BY <1>1, <1>4, <2>2 DEF PeekHi
    <2>3. CASE buf.hi # 0
      BY <1>1, <1>4, <2>1, <2>3, HalfFields
      DEF PeekHi, Inv, TypeOK, CopyIsFresh, Copying
    <2>4. QED
      BY <2>2, <2>3
  <1>5. CASE SignalDone
    BY <1>1, <1>5, HalfFields
    DEF SignalDone, Inv, TypeOK, CopyHolds, CopyIsFresh, Copying
  <1>6. CASE UNCHANGED <<buf, got>>
    BY <1>1, <1>6
  <1>7. CASE Io \/ IoReadLine \/ PeerCloses
    BY <1>2, <1>3, <1>6, <1>7
    DEF Io, IoStart, IoConnect, IoReadFails, IoLock, IoNoWaiter, IoNotify,
        IoAwaitDone, IoDone, IoUnlock, IoCancelled, IoReadLine, PeerCloses
  <1>8. CASE Inside \/ Calls
    BY <1>4, <1>5, <1>6, <1>8
    DEF Inside, CreateReader, PurgeReader, DestroyReader, SendLock, SendWrite,
        TryFresh, TryNothing, PeekLo, EnterWait, Wake, TimedOut, LoadLo,
        LoadHi, CallerCancelled, Calls, CallCreate, CallSend, CallRead,
        CallPurge, CallDestroy, Call
  <1>9. CASE MainCancel \/ SpClose \/ SpJoined \/ UNCHANGED vars
    BY <1>6, <1>9 DEF MainCancel, SpClose, SpJoined, vars
  <1>10. QED
    BY <1>7, <1>8, <1>9 DEF Next

\* The socket implements the box: what sp_read() returns is always the newest
\* line, whole.
THEOREM Refinement == Spec => ImplementsMailbox
  <1>1. QED
    BY Invariance, MailboxInit, MailboxStep, PTL
    DEF Spec, ImplementsMailbox, Mailbox!Spec
===============================================================================
