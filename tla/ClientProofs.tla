---------------------------- MODULE ClientProofs ----------------------------
(***************************************************************************)
(* A client never takes a reply for that of another call, for any buffer,  *)
(* any replies and any number of calls, interrupted ones among them.       *)
(*                                                                         *)
(* Nothing matches replies to requests.  In C the reason is that a         *)
(* connection carries one command and cannot be made again; in Python,     *)
(* that a call reads the line it is owed before the next one, and that a   *)
(* connection that was lost with a line on it is not used again.  In       *)
(* Python that is so on a connection on which no request was longer than   *)
(* LINESIZE, and a new connection is one again.                            *)
(***************************************************************************)
EXTENDS Client, SequenceTheorems, TLAPS

AllOf(s, c) == \A i \in DOMAIN s : s[i] = c

Types ==
    /\ TypeOK
    /\ RxSize \in Nat \ {0}
    /\ rx \in Seq(Nat) /\ inbox \in Seq(Nat) /\ stream \in Seq(Nat)

\* The connection of the C library carries the command that is running.
OneCommand ==
    OfC => /\ connected <=> fd = "conn"
           /\ pc \in {"send", "recv"} => fd = "conn"
           /\ fd = "new" => inbox = <<>> /\ stream = <<>>
           /\ fd = "conn" /\ pc \notin {"recv", "close"} => inbox = <<>> /\ stream = <<>>
           /\ fd = "conn" /\ pc = "recv" => AllOf(inbox, call) /\ AllOf(stream, call)

\* No request on the connection was longer than LINESIZE.
Short == ~cut

\* A reply is kept only while it is judged.
Judged == OfPy /\ pc # "result" => rx = <<>>

\* The Python library is owed at most one line, by the call that is running.
OneLine ==
    OfPy /\ Short =>
            /\ pc \in {"idle", "send", "recv", "result"}
            /\ fd # "closed"
            /\ pc # "recv" => stream = <<>>
            /\ pc # "recv" /\ peer = "serving" => inbox = <<>>
            /\ pc = "recv" => AllOf(stream, call) /\ Len(stream) <= 1
            /\ pc = "recv" /\ peer = "serving" =>
                  AllOf(inbox, call) /\ (inbox = <<>> \/ (Len(inbox) = 1 /\ stream = <<>>))

\* What a call has received.
Own == OfC \/ Short => AllOf(rx, call)

Inv == Types /\ OneCommand /\ OneLine /\ Judged /\ Own

-----------------------------------------------------------------------------
(* Sequences whose elements are all one number.                            *)

\* The empty sequence.
LEMMA Empty == <<>> \in Seq(Nat) /\ Len(<<>>) = 0
  OBVIOUS

\* An empty sequence holds nothing else.
LEMMA EmptyAll == \A c : AllOf(<<>>, c)
  BY DEF AllOf

\* A request is added to the others, in as many parts as it is read in.
LEMMA RequestAll ==
    ASSUME NEW n \in Nat, call \in Nat, NEW s \in Seq(Nat)
    PROVE  /\ s \o Request(n) \in Seq(Nat)
           /\ s = <<>> => AllOf(s \o Request(n), call) /\ Len(s \o Request(n)) = n
<1>1. Request(n) \in Seq(Nat) /\ Len(Request(n)) = n /\ AllOf(Request(n), call)
  <2>1. Request(n) \in [1..n -> Nat]
    BY DEF Request
  <2> QED
    BY <2>1 DEF Request, AllOf
<1>2. s = <<>> => s \o Request(n) = Request(n)
  BY <1>1
<1>3. \A t \in Seq(Nat) : s \o t \in Seq(Nat)
  OBVIOUS
<1> HIDE DEF Request
<1> QED
  BY <1>1, <1>2, <1>3

\* Part of what is of one call is of that call.
LEMMA PartAll ==
    ASSUME NEW c \in Nat, NEW s \in Seq(Nat), NEW n \in 0..Len(s)
    PROVE  /\ SubSeq(s, 1, n) \in Seq(Nat) /\ Len(SubSeq(s, 1, n)) = n
           /\ SubSeq(s, n + 1, Len(s)) \in Seq(Nat)
           /\ AllOf(s, c) => AllOf(SubSeq(s, 1, n), c)
  BY DEF AllOf

\* A line, and the lines after it.
LEMMA HeadTail ==
    ASSUME NEW c \in Nat, NEW s \in Seq(Nat), s # <<>>
    PROVE  /\ Tail(s) \in Seq(Nat) /\ Len(Tail(s)) = Len(s) - 1
           /\ <<Head(s)>> \in Seq(Nat) /\ Len(<<Head(s)>>) = 1
           /\ AllOf(s, c) => AllOf(<<Head(s)>>, c) /\ AllOf(Tail(s), c)
           /\ Len(s) = 1 => Tail(s) = <<>>
<1>1. Tail(s) \in Seq(Nat) /\ Len(Tail(s)) = Len(s) - 1
  OBVIOUS
<1>2. <<Head(s)>> \in Seq(Nat) /\ Len(<<Head(s)>>) = 1
  OBVIOUS
<1>3. AllOf(s, c) => AllOf(<<Head(s)>>, c)
  BY <1>2 DEF AllOf
<1>4. AllOf(s, c) => AllOf(Tail(s), c)
  BY <1>1 DEF AllOf
<1>5. Len(s) = 1 => Tail(s) = <<>>
  <2>1. \A q \in Seq(Nat) : q # <<>> => Len(q) \in Nat \ {0}
    BY EmptySeq
  <2>2. CASE Len(s) = 1
    <3>1. Len(Tail(s)) = 0
      BY <1>1, <2>2
    <3> QED
      BY <1>1, <2>1, <3>1
  <2> QED
    BY <2>2
<1> QED
  BY <1>1, <1>2, <1>3, <1>4, <1>5

\* A reply after what is there already.
LEMMA ConcatAll ==
    ASSUME NEW c \in Nat, NEW s \in Seq(Nat), NEW t \in Seq(Nat)
    PROVE  /\ s \o t \in Seq(Nat) /\ Len(s \o t) = Len(s) + Len(t)
           /\ AllOf(s, c) /\ AllOf(t, c) => AllOf(s \o t, c)
  BY DEF AllOf

\* The reply has the number of the request that is at the front.
LEMMA ReplyAll ==
    ASSUME NEW n \in Nat, inbox \in Seq(Nat), inbox # <<>>
    PROVE  Reply(n) \in Seq(Nat) /\ Len(Reply(n)) = n /\ AllOf(Reply(n), inbox[1])
<1>1. inbox[1] \in Nat
  OBVIOUS
<1>2. Reply(n) \in [1..n -> Nat]
  BY <1>1 DEF Reply
<1> QED
  BY <1>2 DEF Reply, AllOf

-----------------------------------------------------------------------------
(* Each action keeps the invariant.                                       *)

\* Nothing is sent yet.
LEMMA InitInv == Init => Inv
<1> SUFFICES ASSUME Init PROVE Inv
  OBVIOUS
<1> USE DEF Init
<1>1. RxSize \in Nat \ {0} /\ MaxCalls \in Nat
  BY ClientAssumption
<1>2. TypeOK
  <2>1. Len(rx) <= RxSize
    BY <1>1, Empty
  <2>2. rc \in -2..RxSize /\ call \in 0..MaxCalls
    BY <1>1
  <2> QED
    BY <2>1, <2>2 DEF TypeOK
<1>3. Types
  BY <1>1, <1>2, Empty DEF Types
<1>4. OneCommand /\ OneLine /\ Judged /\ Own
  BY EmptyAll DEF Own, OneCommand, OneLine, Judged
<1> QED
  BY <1>3, <1>4 DEF Inv

\* The constants.
LEMMA Bounds ==
    /\ RxSize \in Nat \ {0} /\ MaxReply \in Nat \ {0} /\ MaxCalls \in Nat
    /\ CReads \in Nat \ {0} /\ PyReads \in Nat \ {0}
  BY ClientAssumption

\* An empty buffer fits.
LEMMA EmptyFits == Len(<<>>) <= RxSize
<1>1. 0 <= RxSize
  BY Bounds
<1>2. Len(<<>>) = 0
  BY Empty
<1> QED
  BY <1>1, <1>2

\* What the types say of numbers.
LEMMA Numbers ==
    Inv => call \in 0..MaxCalls /\ call \in Nat /\ rc \in -2..RxSize /\ Len(rx) <= RxSize
<1> SUFFICES ASSUME Inv PROVE call \in 0..MaxCalls /\ call \in Nat /\ rc \in -2..RxSize /\ Len(rx) <= RxSize
  OBVIOUS
<1>1. call \in 0..MaxCalls /\ rc \in -2..RxSize /\ Len(rx) <= RxSize
  BY DEF Inv, Types, TypeOK
<1>2. call \in Nat
  BY <1>1, Bounds
<1> QED
  BY <1>1, <1>2

-----------------------------------------------------------------------------
(* Calls.                                                                  *)

\* A new call begins with an empty buffer; nothing is left on its connection.
LEMMA BeginInv ==
    ASSUME NEW c, NEW at, Inv, Begin(c, at),
           at = IF OfPy THEN "send" ELSE "connect"
    PROVE  Inv'
<1> USE DEF Inv, Types, Begin, sock, server, lib
<1>1. TypeOK'
  <2>1. Len(rx') <= RxSize
    BY Bounds, Empty
  <2>2. call \in 0..MaxCalls
    BY DEF TypeOK
  <2>3. rc' \in -2..RxSize /\ call' \in 0..MaxCalls
    BY <2>2, Bounds
  <2> QED
    BY <2>1, <2>3 DEF TypeOK
<1>2. OneCommand'
  BY DEF OneCommand, OfC, OfPy
<1>3. OneLine'
  BY DEF OneLine, Short, OfC, OfPy
<1>j. Judged'
  BY DEF Judged, Short, OfC, OfPy
<1>4. Own'
  BY EmptyAll DEF Own, Short, OfC, OfPy
<1> QED
  BY <1>1, <1>2, <1>3, <1>4, Empty, <1>j

\* A call that is refused sends nothing.
LEMMA RefuseInv ==
    ASSUME NEW c, NEW code \in {-1, -2}, Inv, Refuse(c, code)
    PROVE  Inv'
<1> USE DEF Inv, Types, Refuse, sock, server, lib
<1>1. TypeOK'
  <2>1. Len(rx') <= RxSize
    BY Bounds, Empty
  <2>2. call \in 0..MaxCalls
    BY DEF TypeOK
  <2>3. rc' \in -2..RxSize /\ call' \in 0..MaxCalls
    BY <2>2, Bounds
  <2> QED
    BY <2>1, <2>3 DEF TypeOK
<1>2. OneCommand'
  BY DEF OneCommand, OfC
<1>3. OneLine'
  BY DEF OneLine, Short, OfPy
<1>j. Judged'
  BY DEF Judged, Short, OfC, OfPy
<1>4. Own'
  BY EmptyAll DEF Own, Short, OfC, OfPy
<1> QED
  BY <1>1, <1>2, <1>3, <1>4, Empty, <1>j

\* Every call of the interfaces begins or is refused.
LEMMA CallsInv == Inv /\ Calls => Inv'
<1> SUFFICES ASSUME Inv, Calls PROVE Inv'
  OBVIOUS
<1>1. CASE \E c : OfC /\ Begin(c, "connect")
  BY <1>1, BeginInv DEF OfC, OfPy
<1>2. CASE \E c : OfPy /\ Begin(c, "send")
  BY <1>2, BeginInv
<1>3. CASE \E c : \E code \in {-1, -2} : Refuse(c, code)
  BY <1>3, RefuseInv
<1> HIDE DEF Inv
<1>4. CASE NewDevice \/ DelSetDevice \/ OpenSaveDb \/ DelNewFile \/ Read \/ ReadAll \/ Restore
  BY <1>1, <1>3, <1>4 DEF NewDevice, DelSetDevice, OpenSaveDb, DelNewFile, Read, ReadAll, Restore
<1>5. CASE ReadHdr \/ ReadPerms \/ WriteData \/ WritePerms
  BY <1>1, <1>3, <1>5 DEF ReadHdr, ReadPerms, WriteData, WritePerms
<1>6. CASE PyDbCall \/ PyFileCall \/ PyReadCall \/ PyWriteCall
  BY <1>2, <1>3, <1>6 DEF PyDbCall, PyFileCall, PyReadCall, PyWriteCall
<1> QED
  BY <1>4, <1>5, <1>6 DEF Calls

-----------------------------------------------------------------------------
(* The C library.                                                          *)

\* Nothing is on its way on a new connection.
LEMMA ConnectInv == Inv /\ Connect => Inv'
<1> SUFFICES ASSUME Inv, Connect PROVE Inv'
  OBVIOUS
<1> USE DEF Inv, Types, Connect, sock, lib
<1>1. TypeOK'
  <2>1. rc' \in -2..RxSize
    BY Bounds, Numbers
  <2> QED
    BY <2>1 DEF TypeOK
<1>2. (rx \in Seq(Nat) /\ inbox \in Seq(Nat) /\ stream \in Seq(Nat))'
  OBVIOUS
<1>3. OneCommand'
  <2>1. CASE connected
    BY <2>1 DEF OneCommand, OfC
  <2>2. CASE ~connected /\ (fd = "closed" \/ srv = "down")
    BY <2>2 DEF OneCommand, OfC
  <2>3. CASE ~connected /\ fd # "closed" /\ srv # "down"
    <3>1. fd = "new" /\ inbox = <<>> /\ stream = <<>>
      BY <2>3 DEF OneCommand, TypeOK
    <3> QED
      BY <2>3, <3>1 DEF OneCommand, OfC
  <2> QED
    BY <2>1, <2>2, <2>3
<1>4. OneLine'
  BY DEF OneLine, Short, OfC, OfPy
<1>j. Judged'
  BY DEF Judged, Short, OfC, OfPy
<1>5. Own'
  BY DEF Own, Short, OfC, OfPy
<1> QED
  BY <1>1, <1>2, <1>3, <1>4, <1>5, <1>j

\* The request is the only thing on the connection.
LEMMA SendInv == Inv /\ Send => Inv'
<1> SUFFICES ASSUME Inv, Send PROVE Inv'
  OBVIOUS
<1> USE DEF Inv, Types, Send, sock, result, lib
<1>a. call \in Nat
  BY Numbers
<1>b. \A n \in 1..CReads : /\ inbox \o Request(n) \in Seq(Nat)
                           /\ inbox = <<>> => AllOf(inbox \o Request(n), call)
  <2>1. \A n \in 1..CReads : n \in Nat
    BY Bounds
  <2>2. inbox \in Seq(Nat)
    OBVIOUS
  <2> HIDE DEF Inv, Types, Send
  <2> QED
    BY <1>a, <2>1, <2>2, RequestAll, Zenon
<1>1. TypeOK'
  BY DEF TypeOK
<1>2. (rx \in Seq(Nat) /\ inbox \in Seq(Nat) /\ stream \in Seq(Nat))'
  <2>1. inbox' = inbox \/ \E n \in 1..CReads : inbox' = inbox \o Request(n)
    OBVIOUS
  <2>2. inbox' \in Seq(Nat)
    BY <1>b, <2>1
  <2> QED
    BY <2>2
<1>3. OneCommand'
  <2>1. CASE peer = "serving"
    <3>1. inbox = <<>> /\ stream = <<>>
      BY DEF OneCommand
    <3>2. AllOf(inbox', call)
      BY <1>b, <2>1, <3>1
    <3> QED
      BY <2>1, <3>1, <3>2, EmptyAll DEF OneCommand, OfC
  <2>2. CASE peer # "serving"
    BY <2>2 DEF OneCommand, OfC
  <2> QED
    BY <2>1, <2>2
<1>4. OneLine'
  BY DEF OneLine, Short, OfC, OfPy
<1>j. Judged'
  BY DEF Judged, Short, OfC, OfPy
<1>5. Own'
  BY DEF Own, Short, OfC, OfPy
<1> QED
  BY <1>1, <1>2, <1>3, <1>4, <1>5, <1>j

\* What is received is of this command.
LEMMA RecvInv ==
    ASSUME Inv, NEW n \in 0..Len(stream), n <= RxSize, Recv(n)
    PROVE  Inv'
<1> USE DEF Inv, Types, Recv, sock, lib
<1>a. call \in Nat
  BY Numbers
<1>b. /\ rx' \in Seq(Nat) /\ Len(rx') = n /\ stream' \in Seq(Nat)
      /\ AllOf(stream, call) => AllOf(rx', call)
  BY <1>a, PartAll
<1>c. AllOf(stream, call)
  BY DEF OneCommand
<1>1. TypeOK'
  <2>1. rc' \in -2..RxSize
    BY Bounds
  <2>2. Len(rx') <= RxSize
    BY <1>b
  <2> QED
    BY <2>1, <2>2 DEF TypeOK
<1>2. (rx \in Seq(Nat) /\ inbox \in Seq(Nat) /\ stream \in Seq(Nat))'
  BY <1>b
<1>3. OneCommand'
  BY DEF OneCommand, OfC, OfPy
<1>4. OneLine'
  BY DEF OneLine, Short, OfC, OfPy
<1>j. Judged'
  BY DEF Judged, Short, OfC, OfPy
<1>5. Own'
  BY <1>b, <1>c DEF Own
<1> QED
  BY <1>1, <1>2, <1>3, <1>4, <1>5, <1>j

\* The three ways in which recv() returns.
LEMMA ReceivesInv == Inv /\ (RecvFull \/ RecvEnd \/ RecvInterrupted) => Inv'
<1> SUFFICES ASSUME Inv, RecvFull \/ RecvEnd \/ RecvInterrupted PROVE Inv'
  OBVIOUS
<1>1. RxSize \in Nat /\ Len(stream) \in Nat
  BY Bounds DEF Inv, Types
<1>2. CASE RecvFull
  BY <1>1, <1>2, RecvInv DEF RecvFull
<1>3. CASE RecvEnd
  BY <1>1, <1>3, RecvInv DEF RecvEnd
<1>4. CASE Len(stream) \in 1..(RxSize - 1) /\ Recv(Len(stream))
  BY <1>1, <1>4, RecvInv
<1>5. CASE /\ OfC /\ pc = "recv" /\ stream = <<>> /\ pc' = "close" /\ rc' = -1
           /\ UNCHANGED <<lib, call, cmd, sock, rx, out, server>>
  <2> USE <1>5 DEF Inv, Types, sock, server, lib
  <2>1. TypeOK'
    <3>1. rc' \in -2..RxSize
      BY <1>1
    <3> QED
      BY <3>1 DEF TypeOK
  <2>2. OneCommand'
    BY DEF OneCommand, OfC
  <2>3. OneLine'
    BY DEF OneLine, Short, OfC, OfPy
  <2>4. Judged' /\ Own'
    BY DEF Judged, Own, Short, OfC, OfPy
  <2> QED
    BY <2>1, <2>2, <2>3, <2>4
<1> QED
  BY <1>2, <1>3, <1>4, <1>5 DEF RecvInterrupted

\* What is left on the connection goes with it.
LEMMA DisconnectInv == Inv /\ Disconnect => Inv'
<1> SUFFICES ASSUME Inv, Disconnect PROVE Inv'
  OBVIOUS
<1> USE DEF Inv, Types, Disconnect, result, server, lib
<1>1. TypeOK'
  BY DEF TypeOK
<1>2. (rx \in Seq(Nat) /\ inbox \in Seq(Nat) /\ stream \in Seq(Nat))'
  OBVIOUS
<1>3. OneCommand'
  BY DEF OneCommand, OfC, OfPy
<1>4. OneLine'
  BY DEF OneLine, Short, OfC, OfPy
<1>j. Judged'
  BY DEF Judged, Short, OfC, OfPy
<1>5. Own'
  BY DEF Own, Short, OfC, OfPy
<1> QED
  BY <1>1, <1>2, <1>3, <1>4, <1>5, <1>j

\* The call is over, whatever it found in the buffer.
LEMMA ReturnsInv ==
    ASSUME Inv, OfC, pc = "result", NEW code, NEW given, code \in -2..RxSize,
           given \in {"none", "no data", "zeros"}, Returns(code, given)
    PROVE  Inv'
<1> USE DEF Inv, Types, Returns, sock, server, lib
<1>a. rx' = IF rc > 0 THEN <<>> ELSE rx
  OBVIOUS
<1>b. Len(rx') <= RxSize /\ rx' \in Seq(Nat)
  <2>1. CASE rc > 0
    <3>1. rx' = <<>>
      BY <1>a, <2>1
    <3>2. Len(<<>>) <= RxSize
      BY EmptyFits
    <3> QED
      BY <3>1, <3>2, Empty
  <2>2. CASE ~(rc > 0)
    BY <1>a, <2>2, Numbers
  <2> QED
    BY <2>1, <2>2
<1>1. TypeOK'
  BY <1>b DEF TypeOK
<1>2. (rx \in Seq(Nat) /\ inbox \in Seq(Nat) /\ stream \in Seq(Nat))'
  BY <1>b
<1>3. OneCommand'
  BY DEF OneCommand, OfC, OfPy
<1>4. OneLine'
  BY DEF OneLine, Short, OfC, OfPy
<1>j. Judged'
  BY DEF Judged, Short, OfC, OfPy
<1>5. Own'
  BY EmptyAll DEF Own, Short, OfC, OfPy
<1> QED
  BY <1>1, <1>2, <1>3, <1>4, <1>5, <1>j

\* What each call of otdb_cli.c makes of its reply.
LEMMA ResultsInv ==
    Inv /\ (PlainResult \/ ReadResult \/ ReadAllResult \/ ReadHdrResult \/ ReadPermsResult) => Inv'
<1> SUFFICES ASSUME Inv, PlainResult \/ ReadResult \/ ReadAllResult \/ ReadHdrResult \/ ReadPermsResult
             PROVE Inv'
  OBVIOUS
<1>1. rc \in -2..RxSize /\ 0 \in -2..RxSize
  BY Bounds, Numbers
<1>2. CASE PlainResult
  BY <1>1, <1>2, ReturnsInv DEF PlainResult
<1>3. CASE ReadResult
  BY <1>1, <1>3, ReturnsInv DEF ReadResult
<1>4. CASE ReadAllResult
  BY <1>1, <1>4, ReturnsInv DEF ReadAllResult
<1>5. CASE ReadHdrResult
  BY <1>1, <1>5, ReturnsInv DEF ReadHdrResult
<1>6. CASE ReadPermsResult
  <2>1. CASE OfC /\ pc = "result" /\ Returns(rc, "none")
    BY <1>1, <2>1, ReturnsInv
  <2>2. CASE OfC /\ pc' = "spins" /\ pc = "result" /\ UNCHANGED <<lib, call, cmd, sock, result, server>>
    <3> USE <2>2 DEF Inv, Types, sock, result, server, lib
    <3>1. TypeOK'
      BY DEF TypeOK
    <3>2. OneCommand' /\ OneLine'
      BY DEF OneCommand, OneLine, Short, OfC, OfPy
    <3>3. Judged' /\ Own'
      BY DEF Judged, Own, Short, OfC, OfPy
    <3> QED
      BY <3>1, <3>2, <3>3
  <2> QED
    BY <1>6, <2>1, <2>2 DEF ReadPermsResult
<1> QED
  BY <1>2, <1>3, <1>4, <1>5, <1>6

\* otdb_connect() by the program.
LEMMA UserConnectsInv == Inv /\ UserConnects => Inv'
<1> SUFFICES ASSUME Inv, UserConnects PROVE Inv'
  OBVIOUS
<1> USE DEF Inv, Types, UserConnects, result, lib
<1>1. TypeOK'
  BY DEF TypeOK
<1>2. (rx \in Seq(Nat) /\ inbox \in Seq(Nat) /\ stream \in Seq(Nat))'
  OBVIOUS
<1>3. OneCommand'
  BY DEF OneCommand, OfC, OfPy
<1>4. OneLine'
  BY DEF OneLine, Short, OfC, OfPy
<1>j. Judged'
  BY DEF Judged, Short, OfC, OfPy
<1>5. Own'
  BY DEF Own, Short, OfC, OfPy
<1> QED
  BY <1>1, <1>2, <1>3, <1>4, <1>5, <1>j

\* otdb_disconnect() by the program.
LEMMA UserDisconnectsInv == Inv /\ UserDisconnects => Inv'
<1> SUFFICES ASSUME Inv, UserDisconnects PROVE Inv'
  OBVIOUS
<1> USE DEF Inv, Types, UserDisconnects, result, server, lib
<1>1. TypeOK'
  BY DEF TypeOK
<1>2. (rx \in Seq(Nat) /\ inbox \in Seq(Nat) /\ stream \in Seq(Nat))'
  OBVIOUS
<1>3. OneCommand'
  BY DEF OneCommand, OfC, OfPy
<1>4. OneLine'
  BY DEF OneLine, Short, OfC, OfPy
<1>j. Judged'
  BY DEF Judged, Short, OfC, OfPy
<1>5. Own'
  BY DEF Own, Short, OfC, OfPy
<1> QED
  BY <1>1, <1>2, <1>3, <1>4, <1>5, <1>j

\* otdb_deinit().
LEMMA DeinitInv == Inv /\ Deinit => Inv'
<1> SUFFICES ASSUME Inv, Deinit PROVE Inv'
  OBVIOUS
<1> USE DEF Inv, Types, Deinit, sock, result, server, lib
<1>1. TypeOK'
  BY DEF TypeOK
<1>2. (rx \in Seq(Nat) /\ inbox \in Seq(Nat) /\ stream \in Seq(Nat))'
  OBVIOUS
<1>3. OneCommand'
  BY DEF OneCommand, OfC, OfPy
<1>4. OneLine'
  BY DEF OneLine, Short, OfC, OfPy
<1>j. Judged'
  BY DEF Judged, Short, OfC, OfPy
<1>5. Own'
  BY DEF Own, Short, OfC, OfPy
<1> QED
  BY <1>1, <1>2, <1>3, <1>4, <1>5, <1>j

-----------------------------------------------------------------------------
(* The Python library.                                                     *)

\* A new socket has nothing on it.
LEMMA PyConnectInv == Inv /\ PyConnect => Inv'
<1> SUFFICES ASSUME Inv, PyConnect PROVE Inv'
  OBVIOUS
<1> USE DEF Inv, Types, PyConnect, result, lib
<1>1. TypeOK'
  BY DEF TypeOK
<1>2. (rx \in Seq(Nat) /\ inbox \in Seq(Nat) /\ stream \in Seq(Nat))'
  BY Empty
<1>3. OneCommand'
  BY DEF OneCommand, OfC, OfPy
<1>4. OneLine'
  BY DEF OneLine, Short, OfC, OfPy
<1>j. Judged'
  BY DEF Judged, Short, OfC, OfPy
<1>5. Own'
  <2>1. rx' = <<>>
    BY DEF Judged, OfPy
  <2> QED
    BY <2>1, EmptyAll DEF Own
<1> QED
  BY <1>1, <1>2, <1>3, <1>4, <1>5, <1>j

\* What is on its way stays there.
LEMMA PyDisconnectInv == Inv /\ PyDisconnect => Inv'
<1> SUFFICES ASSUME Inv, PyDisconnect PROVE Inv'
  OBVIOUS
<1> USE DEF Inv, Types, PyDisconnect, result, server, lib
<1>1. TypeOK'
  BY DEF TypeOK
<1>2. (rx \in Seq(Nat) /\ inbox \in Seq(Nat) /\ stream \in Seq(Nat))'
  OBVIOUS
<1>3. OneCommand'
  BY DEF OneCommand, OfC, OfPy
<1>4. OneLine'
  BY DEF OneLine, Short, OfC, OfPy
<1>j. Judged'
  BY DEF Judged, Short, OfC, OfPy
<1>5. Own'
  BY DEF Own, Short, OfC, OfPy
<1> QED
  BY <1>1, <1>2, <1>3, <1>4, <1>5, <1>j

\* The line of the last call has been read.
LEMMA PySendInv == Inv /\ PySend => Inv'
<1> SUFFICES ASSUME Inv, PySend PROVE Inv'
  OBVIOUS
<1> USE DEF Inv, Types, PySend, sock, lib
<1>a. call \in Nat
  BY Numbers
<1>b. connected /\ peer = "serving" =>
        \E n \in 1..PyReads : inbox' = inbox \o Request(n) /\ cut' = (cut \/ n > 1)
  <2> SUFFICES ASSUME connected, peer = "serving"
               PROVE  \E n \in 1..PyReads : inbox' = inbox \o Request(n) /\ cut' = (cut \/ n > 1)
    OBVIOUS
  <2>1. PICK n \in IF cmd \in {"db", "write"} THEN 1..PyReads ELSE {1} :
               inbox' = inbox \o Request(n) /\ cut' = (cut \/ n > 1)
    OBVIOUS
  <2>2. n \in 1..PyReads
    BY <2>1, Bounds
  <2> QED
    BY <2>1, <2>2
<1>c. \A n \in 1..PyReads :
        /\ inbox \o Request(n) \in Seq(Nat)
        /\ inbox = <<>> => AllOf(inbox \o Request(n), call) /\ Len(inbox \o Request(n)) = n
  <2>1. \A n \in 1..PyReads : n \in Nat
    BY Bounds
  <2>2. inbox \in Seq(Nat)
    OBVIOUS
  <2> HIDE DEF Inv, Types, PySend
  <2> QED
    BY <1>a, <2>1, <2>2, RequestAll, Zenon
<1>d. cut' \in BOOLEAN /\ (Short' => Short)
  BY <1>b DEF Short, TypeOK
<1>1. TypeOK'
  <2>1. rc' \in -2..RxSize
    BY Bounds, Numbers
  <2> QED
    BY <1>d, <2>1 DEF TypeOK
<1>2. (rx \in Seq(Nat) /\ inbox \in Seq(Nat) /\ stream \in Seq(Nat))'
  <2>1. inbox' = inbox \/ \E n \in 1..PyReads : inbox' = inbox \o Request(n)
    BY <1>b
  <2>2. inbox' \in Seq(Nat)
    BY <1>c, <2>1
  <2> QED
    BY <2>2
<1>3. OneCommand'
  BY DEF OneCommand, OfC, OfPy
<1>4. OneLine'
  <2>1. CASE connected /\ peer = "serving" /\ Short'
    <3>1. inbox = <<>> /\ stream = <<>>
      BY <1>d, <2>1 DEF OneLine
    <3>2. PICK n \in 1..PyReads : inbox' = inbox \o Request(n) /\ cut' = (cut \/ n > 1)
      BY <1>b, <2>1
    <3>3. n = 1
      <4>1. ~(n > 1)
        BY <2>1, <3>2, Zenon DEF Short
      <4> QED
        BY <4>1, Bounds
    <3>4. AllOf(inbox', call) /\ Len(inbox') = 1
      BY <1>c, <3>1, <3>2, <3>3
    <3> QED
      BY <1>d, <2>1, <3>1, <3>4, EmptyAll, Empty DEF OneLine, OfPy
  <2>2. CASE ~(connected /\ peer = "serving" /\ Short')
    BY <1>d, <2>2 DEF OneLine, OfPy
  <2> QED
    BY <2>1, <2>2
<1>j. Judged'
  BY DEF Judged, Short, OfC, OfPy
<1>5. Own'
  BY <1>d DEF Own, OfC, OfPy
<1> QED
  BY <1>1, <1>2, <1>3, <1>4, <1>5, <1>j

\* The line that is read is the one the call is owed.
LEMMA PyReadlineInv == Inv /\ PyReadline => Inv'
<1> SUFFICES ASSUME Inv, PyReadline PROVE Inv'
  OBVIOUS
<1> USE DEF Inv, Types, PyReadline, sock, lib
<1>a. call \in Nat
  BY Numbers
<1>b. Short => AllOf(stream, call) /\ Len(stream) <= 1
  BY DEF OneLine
<1>c. /\ rx' \in Seq(Nat) /\ Len(rx') <= 1 /\ stream' \in Seq(Nat)
      /\ Short => AllOf(rx', call) /\ stream' = <<>>
  <2>1. CASE stream = <<>>
    BY <2>1, Empty, EmptyAll
  <2>2. CASE stream # <<>>
    <3>1. Len(stream) \in Nat \ {0}
      BY <2>2, EmptySeq
    <3>2. Short => Len(stream) = 1
      BY <1>b, <3>1
    <3>3. /\ Tail(stream) \in Seq(Nat) /\ <<Head(stream)>> \in Seq(Nat) /\ Len(<<Head(stream)>>) = 1
          /\ AllOf(stream, call) => AllOf(<<Head(stream)>>, call)
          /\ Len(stream) = 1 => Tail(stream) = <<>>
      BY <1>a, <2>2, HeadTail
    <3>4. rx' = <<Head(stream)>> /\ stream' = Tail(stream)
      BY <2>2
    <3>5. Len(rx') <= 1
      BY <3>3, <3>4
    <3> HIDE DEF Inv, Types, PyReadline
    <3> QED
      BY <1>b, <3>2, <3>3, <3>4, <3>5
  <2> QED
    BY <2>1, <2>2
<1>1. TypeOK'
  <2>1. Len(rx') <= RxSize
    BY <1>c, Bounds
  <2> QED
    BY <2>1 DEF TypeOK
<1>2. (rx \in Seq(Nat) /\ inbox \in Seq(Nat) /\ stream \in Seq(Nat))'
  BY <1>c
<1>3. OneCommand'
  BY DEF OneCommand, OfC, OfPy
<1>4. OneLine'
  <2>1. Short /\ peer = "serving" => inbox = <<>>
    BY Empty DEF OneLine
  <2> QED
    BY <1>c, <2>1 DEF OneLine, Short, OfPy
<1>j. Judged'
  BY DEF Judged, Short, OfC, OfPy
<1>5. Own'
  BY <1>c DEF Own, Short, OfC, OfPy
<1> QED
  BY <1>1, <1>2, <1>3, <1>4, <1>5, <1>j

\* The line has been judged; the call is over.
LEMMA PyResultInv == Inv /\ PyResult => Inv'
<1> SUFFICES ASSUME Inv, PyResult PROVE Inv'
  OBVIOUS
<1> USE DEF Inv, Types, PyResult, sock, server, lib
<1>1. TypeOK'
  <2>1. rc' \in -2..RxSize
    BY Bounds
  <2>2. out' \in {"none", "data"}
    OBVIOUS
  <2> QED
    BY <2>1, <2>2, EmptyFits DEF TypeOK
<1>2. (rx \in Seq(Nat) /\ inbox \in Seq(Nat) /\ stream \in Seq(Nat))'
  BY Empty
<1>3. OneCommand'
  BY DEF OneCommand, OfC, OfPy
<1>4. OneLine'
  BY DEF OneLine, Short, OfC, OfPy
<1>j. Judged'
  BY DEF Judged, Short, OfC, OfPy
<1>5. Own'
  BY EmptyAll DEF Own, Short, OfC, OfPy
<1> QED
  BY <1>1, <1>2, <1>3, <1>4, <1>5, <1>j

-----------------------------------------------------------------------------
(* otdb.                                                                   *)

\* A reply has the number of the request, which is that of the running call.
LEMMA ServerRunsInv == Inv /\ ServerRuns => Inv'
<1> SUFFICES ASSUME Inv, ServerRuns PROVE Inv'
  OBVIOUS
<1> USE DEF Inv, Types, ServerRuns, sock, result, lib
<1>a. call \in Nat /\ inbox \in Seq(Nat) /\ stream \in Seq(Nat) /\ inbox # <<>>
  BY Numbers
<1>b. PICK n \in IF OfPy THEN {1} ELSE 0..MaxReply :
        stream' = IF fd = "closed" THEN stream ELSE stream \o Reply(n)
  OBVIOUS
<1>c. n \in Nat /\ (OfPy => n = 1)
  BY <1>b, Bounds
<1>d. Reply(n) \in Seq(Nat) /\ Len(Reply(n)) = n /\ AllOf(Reply(n), inbox[1])
  BY <1>a, <1>c, ReplyAll
<1>e. inbox' \in Seq(Nat) /\ Len(inbox') = Len(inbox) - 1
      /\ (AllOf(inbox, call) => AllOf(inbox', call)) /\ (Len(inbox) = 1 => inbox' = <<>>)
  BY <1>a, HeadTail
<1>f. AllOf(inbox, call) => inbox[1] = call
  BY <1>a DEF AllOf
<1>g. /\ stream \o Reply(n) \in Seq(Nat) /\ Len(stream \o Reply(n)) = Len(stream) + n
      /\ AllOf(stream, call) /\ AllOf(Reply(n), call) => AllOf(stream \o Reply(n), call)
  <2>1. ASSUME NEW t \in Seq(Nat)
        PROVE  /\ stream \o t \in Seq(Nat) /\ Len(stream \o t) = Len(stream) + Len(t)
               /\ AllOf(stream, call) /\ AllOf(t, call) => AllOf(stream \o t, call)
    BY <1>a, ConcatAll, Zenon
  <2> HIDE DEF Inv, Types, ServerRuns
  <2> QED
    BY <1>d, <2>1
<1>1. TypeOK'
  BY DEF TypeOK
<1>2. (rx \in Seq(Nat) /\ inbox \in Seq(Nat) /\ stream \in Seq(Nat))'
  BY <1>a, <1>b, <1>e, <1>g
<1>3. OneCommand'
  <2>1. CASE OfC /\ fd = "conn"
    <3>1. pc = "recv" \/ pc = "close"
      BY <1>a, <2>1 DEF OneCommand
    <3>2. pc = "recv" => AllOf(inbox', call) /\ AllOf(stream', call)
      BY <1>b, <1>d, <1>e, <1>f, <1>g, <2>1 DEF OneCommand
    <3> QED
      BY <2>1, <3>1, <3>2 DEF OneCommand, OfC
  <2>2. CASE OfC /\ fd # "conn"
    BY <1>a, <2>2 DEF OneCommand, OfC
  <2>3. CASE ~OfC
    BY <2>3 DEF OneCommand, OfC
  <2> QED
    BY <2>1, <2>2, <2>3
<1>4. OneLine'
  <2>1. CASE OfPy /\ Short
    <3>1. pc = "recv" /\ peer = "serving" /\ fd # "closed" /\ n = 1
      BY <1>a, <1>c, <2>1 DEF OneLine
    <3>2. AllOf(inbox, call) /\ Len(inbox) = 1 /\ stream = <<>>
      BY <1>a, <2>1, <3>1 DEF OneLine
    <3>3. Len(stream') <= 1 /\ AllOf(stream', call)
      BY <1>b, <1>d, <1>f, <1>g, <3>1, <3>2, Empty, EmptyAll
    <3>4. inbox' = <<>> /\ AllOf(inbox', call)
      BY <1>e, <3>2
    <3> QED
      BY <2>1, <3>1, <3>3, <3>4 DEF OneLine, OfPy
  <2>2. CASE ~(OfPy /\ Short)
    BY <2>2 DEF OneLine, Short, OfPy
  <2> QED
    BY <2>1, <2>2
<1>j. Judged'
  BY DEF Judged, Short, OfC, OfPy
<1>5. Own'
  BY DEF Own, Short, OfC, OfPy
<1> QED
  BY <1>1, <1>2, <1>3, <1>4, <1>5, <1>j

\* Nothing is run any more.
LEMMA ServerSticksInv == Inv /\ ServerSticks => Inv'
<1> SUFFICES ASSUME Inv, ServerSticks PROVE Inv'
  OBVIOUS
<1> USE DEF Inv, Types, ServerSticks, sock, result, lib
<1>1. TypeOK'
  BY DEF TypeOK
<1>2. (rx \in Seq(Nat) /\ inbox \in Seq(Nat) /\ stream \in Seq(Nat))'
  OBVIOUS
<1>3. OneCommand'
  BY DEF OneCommand, OfC, OfPy
<1>4. OneLine'
  BY DEF OneLine, Short, OfC, OfPy
<1>j. Judged'
  BY DEF Judged, Short, OfC, OfPy
<1>5. Own'
  BY DEF Own, Short, OfC, OfPy
<1> QED
  BY <1>1, <1>2, <1>3, <1>4, <1>5, <1>j

\* What is on its way when otdb ends can still be read.
LEMMA ServerEndsInv == Inv /\ ServerEnds => Inv'
<1> SUFFICES ASSUME Inv, ServerEnds PROVE Inv'
  OBVIOUS
<1> USE DEF Inv, Types, ServerEnds, sock, result, lib
<1>1. TypeOK'
  BY DEF TypeOK
<1>2. (rx \in Seq(Nat) /\ inbox \in Seq(Nat) /\ stream \in Seq(Nat))'
  OBVIOUS
<1>3. OneCommand'
  BY DEF OneCommand, OfC, OfPy
<1>4. OneLine'
  BY DEF OneLine, Short, OfC, OfPy
<1>j. Judged'
  BY DEF Judged, Short, OfC, OfPy
<1>5. Own'
  BY DEF Own, Short, OfC, OfPy
<1> QED
  BY <1>1, <1>2, <1>3, <1>4, <1>5, <1>j

-----------------------------------------------------------------------------
\* Nothing happens.
LEMMA StutterInv == Inv /\ UNCHANGED vars => Inv'
<1> SUFFICES ASSUME Inv, UNCHANGED vars PROVE Inv'
  OBVIOUS
<1>0. UNCHANGED <<kind, cut, pc, call, cmd, fd, connected, rx, rc, out, srv, peer, inbox, stream>>
  BY DEF vars, lib, sock, result, server
<1>1. TypeOK'
  <2>1. TypeOK
    BY DEF Inv, Types
  <2>2. (kind \in Kinds /\ cut \in BOOLEAN /\ connected \in BOOLEAN)'
    BY <1>0, <2>1 DEF TypeOK
  <2>3. (call \in 0..MaxCalls /\ rc \in -2..RxSize /\ Len(rx) <= RxSize)'
    BY <1>0, <2>1 DEF TypeOK
  <2> QED
    BY <1>0, <2>1, <2>2, <2>3, Zenon DEF TypeOK
<1> USE <1>0 DEF Inv, Types
<1>2. OneCommand'
  BY DEF OneCommand, OfC
<1>a. OneLine'
  BY DEF OneLine, Short, OfPy
<1>3. Judged'
  BY DEF Judged, OfPy
<1>4. Own'
  BY DEF Own, Short, OfC
<1> QED
  BY <1>1, <1>2, <1>a, <1>3, <1>4

\* Every step keeps the invariant.
LEMMA NextInv == Inv /\ [Next]_vars => Inv'
<1>1. Inv /\ Goes => Inv'
  BY ConnectInv, SendInv, ReceivesInv, DisconnectInv, ResultsInv, PySendInv, PyReadlineInv, PyResultInv
     DEF Goes
<1> QED
  BY <1>1, CallsInv, ReceivesInv, UserConnectsInv, UserDisconnectsInv, DeinitInv, PyConnectInv,
     PyDisconnectInv, ServerRunsInv, ServerSticksInv, ServerEndsInv, StutterInv DEF Next

\* What is on a connection, or in the buffer, is of the call that is running:
\* otdb_connect(), sub_docmd() and otdb_disconnect() in C, _docmd() in Python.
THEOREM Invariance == Spec => []Inv
<1> QED
  BY InitInv, NextInv, PTL DEF Spec

\* No variable leaves its type, and a reply never fills more than rxbuf.
THEOREM TypeCorrect == Spec => []TypeOK
<1>1. Inv => TypeOK
  BY DEF Inv, Types
<1> QED
  BY <1>1, Invariance, PTL

\* No call takes the reply to another for its own, whatever was interrupted,
\* failed or was connected again before it: with any requests in C, and in Python
\* on every connection whose requests otdb has read at once,
\* dterm_socket_clithread().
THEOREM RepliesAreOwn == Spec => []RepliesBelong
<1>1. Inv => RepliesBelong
  BY DEF Inv, Own, Short, AllOf, RepliesBelong
<1> QED
  BY <1>1, Invariance, PTL

=============================================================================
