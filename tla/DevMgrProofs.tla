---------------------------- MODULE DevMgrProofs ----------------------------
(***************************************************************************)
(* Proofs about DevMgr, for every length of the two time-outs and every     *)
(* number of calls and lines: a call keeps to its time-outs, the frame it   *)
(* returns fits the ack it accepted, and after a quiet start its success    *)
(* is its own.                                                              *)
(*                                                                          *)
(* Accounting is inductive given the types: each subtraction takes off all  *)
(* of the time since the beginning, so budget and elapsed together never    *)
(* exceed global_timeout.  FrameFitsAck needs that packet ids tell calls    *)
(* apart wherever an id is kept (SidsTellCalls), and SucceedsWhenQuiet that *)
(* whatever is still due belongs to the call (QuietHolds).                  *)
(***************************************************************************)
EXTENDS DevMgr, TLAPS

\* The device and the network leave the call alone, its history included.
LEMMA DeviceLeavesCall ==
  ASSUME Device
  PROVE  UNCHANGED <<local, history>>
  BY DEF Device, DeviceAcks, DeviceDrops, NetworkAnswers, NetworkDrops,
         DeviceChatters

-----------------------------------------------------------------------------
(* Types *)

\* Before the first call all is empty.
LEMMA TypeInit == Init => TypeOK
  <1> SUFFICES ASSUME Init PROVE TypeOK
    OBVIOUS
  <1> USE TimeoutAssumption, BoundAssumption
  <1>1. newest \in Lines
    BY DEF Init, Lines
  <1>2. requests \in Seq(Calls)
    BY DEF Init
  <1>3. sid \in Sids \union {0} /\ rc \in Results
    BY DEF Init, Results
  <1>4. /\ budget \in Int /\ elapsed \in Nat /\ posted \in 0..MaxLines
        /\ taken \in 0..posted /\ call \in 0..MaxCalls
        /\ acked \in 0..MaxCalls /\ answered \in 0..MaxCalls
    BY DEF Init, Box!Init
  <1>5. packets \subseteq [of : Calls, sid : Sids]
    BY DEF Init
  <1>6. pc = "idle" /\ state \in 0..2
    BY DEF Init
  <1>7. held \in BOOLEAN /\ quiet \in BOOLEAN
    BY Zenon DEF Init
  <1>8. QED
    BY <1>1, <1>2, <1>3, <1>4, <1>5, <1>6, <1>7 DEF TypeOK

\* The number of a line that arrives is a packet id.
LEMMA NextSid ==
  ASSUME TypeOK, NEW l, Arrives(l)
  PROVE  /\ posted' = posted + 1 /\ posted + 1 \in Sids /\ posted' \in 0..MaxLines
         /\ taken' \in 0..posted' /\ newest' = l /\ held' \in BOOLEAN
  BY BoundAssumption DEF TypeOK, Arrives, Box!Post, Sids

\* The device's lines and packets are of their types.
LEMMA TypeDevice ==
  ASSUME TypeOK, Device
  PROVE  TypeOK'
  <1> USE DEF TypeOK
  <1>1. UNCHANGED <<pc, state, sid, budget, elapsed, rc, call, quiet, acked, answered>>
    BY DeviceLeavesCall DEF local, history
  <1>2. SUFFICES /\ held' \in BOOLEAN /\ newest' \in Lines
                 /\ posted' \in 0..MaxLines /\ taken' \in 0..posted'
                 /\ requests' \in Seq(Calls)
                 /\ packets' \subseteq [of : Calls, sid : Sids]
    BY <1>1
  <1>3. CASE DeviceAcks
    <2>1. requests' \in Seq(Calls) /\ Head(requests) \in Calls
      BY <1>3 DEF DeviceAcks
    <2>2. PICK err \in BOOLEAN, s \in {0, posted + 1} :
            /\ Arrives([type |-> "ack", of |-> Head(requests), err |-> err, sid |-> s])
            /\ packets' = IF err \/ s = 0 THEN packets
                          ELSE packets \union {[of |-> Head(requests), sid |-> s]}
      BY <1>3 DEF DeviceAcks
    <2>3. s \in Sids \union {0} /\ posted + 1 \in Sids
      BY <2>2, NextSid
    <2>4. newest' \in Lines
      BY <2>1, <2>2, <2>3, NextSid DEF Lines
    <2>5. packets' \subseteq [of : Calls, sid : Sids]
      <3>1. CASE err \/ s = 0
        BY <2>2, <3>1
      <3>2. CASE ~(err \/ s = 0)
        <4>1. [of |-> Head(requests), sid |-> s] \in [of : Calls, sid : Sids]
          BY <2>1, <2>3, <3>2
        <4>2. QED
          BY <2>2, <3>2, <4>1
      <3>3. QED
        BY <3>1, <3>2
    <2>6. QED
      BY <2>1, <2>2, <2>4, <2>5, NextSid
  <1>4. CASE DeviceDrops
    BY <1>4 DEF DeviceDrops, box
  <1>5. CASE NetworkAnswers
    <2>1. PICK p \in packets, good \in BOOLEAN :
            /\ Arrives([type |-> "rxstat", of |-> p.of, good |-> good, sid |-> p.sid])
            /\ packets' = packets \ {p}
      BY <1>5 DEF NetworkAnswers
    <2>2. p.of \in Calls /\ p.sid \in Sids
      OBVIOUS
    <2>3. newest' \in Lines
      BY <2>1, <2>2, NextSid DEF Lines
    <2>4. QED
      BY <1>5, <2>1, <2>3, NextSid DEF NetworkAnswers
  <1>6. CASE NetworkDrops
    BY <1>6 DEF NetworkDrops, box
  <1>7. CASE DeviceChatters
    <2>1. newest' \in Lines
      BY <1>7, NextSid DEF DeviceChatters, Lines
    <2>2. QED
      BY <1>7, <2>1, NextSid DEF DeviceChatters, device
  <1>8. QED
    BY <1>3, <1>4, <1>5, <1>6, <1>7 DEF Device

\* An ack carries a packet id or 0, and the number of a call.
LEMMA AckFields ==
  ASSUME TypeOK, newest.type = "ack"
  PROVE  newest.sid \in Sids \union {0} /\ newest.of \in 0..MaxCalls /\ newest.err \in BOOLEAN
  BY BoundAssumption DEF TypeOK, Lines, Calls

\* So does an rxstat, whose packet id is never 0.
LEMMA RxstatFields ==
  ASSUME TypeOK, newest.type = "rxstat"
  PROVE  newest.sid \in Sids /\ newest.of \in 0..MaxCalls
  BY BoundAssumption DEF TypeOK, Lines, Calls

\* Subtracting the time leaves whole numbers, and goes on or returns.
LEMMA RetractType ==
  ASSUME TypeOK, NEW d \in 0..ReadTimeout, NEW next \in {"send", "read"},
         NEW out \in {"retriesOut", "ignoredOut"}, Retract(d, next, out)
  PROVE  /\ elapsed' = elapsed + d /\ elapsed' \in Nat
         /\ budget' = budget - elapsed' /\ budget' \in Int
         /\ rc' \in Results /\ pc' \in {next, "destroy"}
         /\ pc' = next => budget' > 0 /\ rc' = rc
         /\ pc' = "destroy" => rc' = out
  BY TimeoutAssumption DEF TypeOK, Retract, Return, Results

\* Every step of a call keeps the types.
LEMMA TypeCall ==
  ASSUME TypeOK, Begin \/ Inside
  PROVE  TypeOK'
  <1> USE TimeoutAssumption, BoundAssumption
  <1>1. CASE Begin
    BY <1>1 DEF Begin, NewReader, device, TypeOK, Calls
  <1>2. CASE Send
    <2>1. call \in Calls
      BY <1>2 DEF Send, TypeOK
    <2>2. requests' \in Seq(Calls)
      BY <1>2, <2>1 DEF Send, TypeOK
    <2>3. QED
      BY <1>2, <2>2 DEF Send, box, TypeOK
  <1>3. CASE SendFails
    BY <1>3 DEF SendFails, Return, Results, box, device, history, TypeOK
  <1>4. CASE Destroy
    BY <1>4 DEF Destroy, box, device, history, TypeOK
  <1>5. CASE ReadTimesOut
    BY <1>5, RetractType DEF ReadTimesOut, device, history, TypeOK
  <1>6. ASSUME NEW d \in 0..ReadTimeout, Reads(d)
        PROVE  /\ taken' \in 0..posted' /\ held' \in BOOLEAN /\ call \in Calls
               /\ UNCHANGED <<newest, posted, requests, packets, call, quiet>>
    BY <1>6 DEF Reads, Box!Take, device, TypeOK
  <1>7. CASE ReadAck
    <2>1. PICK d \in 0..ReadTimeout :
            /\ Reads(d) /\ ExpectedAck
            /\ \/ newest.err /\ Return("refused") /\ UNCHANGED <<state, budget, elapsed>>
               \/ ~newest.err /\ newest.sid = 0 /\ Return("acked")
                  /\ UNCHANGED <<state, budget, elapsed>>
               \/ ~newest.err /\ newest.sid # 0 /\ state' = 1
                  /\ Retract(d, "read", "ignoredOut")
      BY <1>7 DEF ReadAck
    <2>2. newest.sid \in Sids \union {0} /\ newest.of \in 0..MaxCalls
      BY <2>1, AckFields DEF ExpectedAck
    <2>3. /\ elapsed' \in Nat /\ budget' \in Int /\ rc' \in Results
          /\ pc' \in {"read", "destroy"} /\ state' \in 0..2
      <3>1. CASE Retract(d, "read", "ignoredOut") /\ state' = 1
        BY <3>1, RetractType
      <3>2. CASE pc' = "destroy" /\ rc' \in {"refused", "acked"}
                 /\ UNCHANGED <<state, budget, elapsed>>
        BY <3>2 DEF TypeOK, Results
      <3>3. QED
        BY <2>1, <3>1, <3>2 DEF Return
    <2>4. QED
      BY <1>6, <1>7, <2>1, <2>2, <2>3 DEF ReadAck, TypeOK
  <1>8. CASE ReadFrame
    <2>1. newest.of \in 0..MaxCalls
      BY <1>8, RxstatFields DEF ReadFrame, ExpectedFrame
    <2>2. QED
      BY <1>6, <1>8, <2>1 DEF ReadFrame, Return, Results, TypeOK
  <1>9. CASE ReadBadFrame
    BY <1>6, <1>9, RetractType DEF ReadBadFrame, TypeOK
  <1>10. CASE ReadOther
    BY <1>6, <1>10, RetractType DEF ReadOther, TypeOK
  <1>11. QED
    BY <1>1, <1>2, <1>3, <1>4, <1>5, <1>7, <1>8, <1>9, <1>10 DEF Inside
-----------------------------------------------------------------------------
(* The invariant: what the device's steps do to it *)

\* A line that arrives has a number of its own, so that no id is given twice.
LEMMA SidsDevice ==
  ASSUME Inv, Device
  PROVE  SidsTellCalls'
  <1> USE DEF Inv, SidsTellCalls
  <1>0. TypeOK /\ UNCHANGED <<pc, state, sid, rc, acked, answered>>
    BY DeviceLeavesCall DEF local, history
  <1>1. sid \in Int /\ posted \in Nat /\ \A p \in packets : p.sid \in Nat \ {0}
    BY BoundAssumption DEF TypeOK, Sids
  <1>2. CASE DeviceAcks
    <2>1. PICK err \in BOOLEAN, s \in {0, posted + 1} :
            /\ Arrives([type |-> "ack", of |-> Head(requests), err |-> err, sid |-> s])
            /\ packets' = IF err \/ s = 0 THEN packets
                          ELSE packets \union {[of |-> Head(requests), sid |-> s]}
      BY <1>2 DEF DeviceAcks
    <2>2. newest' = [type |-> "ack", of |-> Head(requests), err |-> err, sid |-> s]
          /\ posted' = posted + 1
      BY <1>0, <2>1, NextSid
    <2>3. newest'.type = "ack" /\ newest'.of = Head(requests) /\ newest'.sid = s
      BY <2>2
    <2>4. \A p \in packets' :
            p \in packets \/ (p.of = Head(requests) /\ p.sid = s /\ s = posted + 1)
      BY <2>1
    <2>5. \A p \in packets : p.sid # s
      BY <1>1
    <2>6. \A p \in packets' : p.sid <= posted'
      BY <1>1, <2>2, <2>4
    <2>7. \A p, q \in packets' : p.sid = q.sid => p.of = q.of
      BY <2>4, <2>5
    <2>8. \A p \in packets' : p.sid = newest'.sid => p.of = newest'.of
      BY <2>3, <2>4, <2>5
    <2>9. pc' = "read" /\ state' = 1 =>
             \A p \in packets' : p.sid = sid' => p.of = acked'
      BY <1>0, <1>1, <2>4
    <2>10. sid # s \/ s = 0
      BY <1>1
    <2>11. newest'.sid <= posted' /\ sid' <= posted'
      BY <1>0, <1>1, <2>2, <2>3
    <2>12. pc' = "read" /\ state' = 1 => sid' # 0
      BY <1>0
    <2>13. QED
      BY <1>0, <2>3, <2>6, <2>7, <2>8, <2>9, <2>10, <2>11, <2>12
  <1>3. CASE DeviceDrops
    BY <1>0, <1>3 DEF DeviceDrops, box
  <1>4. CASE NetworkAnswers
    <2>1. PICK p \in packets, good \in BOOLEAN :
            /\ Arrives([type |-> "rxstat", of |-> p.of, good |-> good, sid |-> p.sid])
            /\ packets' = packets \ {p}
      BY <1>4 DEF NetworkAnswers
    <2>2. /\ newest'.type = "rxstat" /\ newest'.of = p.of /\ newest'.sid = p.sid
          /\ posted' = posted + 1
      BY <1>0, <2>1, NextSid
    <2>3. \A q \in packets' : q \in packets
      BY <2>1
    <2>4. QED
      BY <1>0, <1>1, <2>2, <2>3
  <1>5. CASE NetworkDrops
    BY <1>0, <1>5 DEF NetworkDrops, box
  <1>6. CASE DeviceChatters
    <2>1. newest'.type = "msg" /\ posted' = posted + 1
      BY <1>0, <1>6, NextSid DEF DeviceChatters
    <2>2. QED
      BY <1>0, <1>1, <1>6, <2>1 DEF DeviceChatters, device
  <1>7. QED
    BY <1>2, <1>3, <1>4, <1>5, <1>6 DEF Device

\* What is answered was due, and what was due is of this call.
LEMMA QuietDevice ==
  ASSUME Inv, Device
  PROVE  QuietHolds'
  <1> USE DEF Inv, QuietHolds
  <1>0. TypeOK /\ UNCHANGED <<pc, rc, call, quiet, answered>>
    BY DeviceLeavesCall DEF local, history
  <1>1. SUFFICES ASSUME quiet, call > 0
                 PROVE  /\ \A i \in 1..Len(requests') : requests'[i] = call
                        /\ \A p \in packets' : p.of = call
                        /\ newest'.type \in {"ack", "rxstat"} /\ taken' < posted'
                             => newest'.of = call
    BY <1>0
  <1>2. requests # <<>> => /\ Head(requests) = call
                           /\ \A i \in 1..Len(Tail(requests)) : Tail(requests)[i] = call
    <2>1. requests \in Seq(Calls)
      BY DEF TypeOK
    <2>2. QED
      BY <1>1, <2>1
  <1>3. CASE DeviceAcks
    <2>1. PICK err \in BOOLEAN, s \in {0, posted + 1} :
            /\ Arrives([type |-> "ack", of |-> Head(requests), err |-> err, sid |-> s])
            /\ packets' = IF err \/ s = 0 THEN packets
                          ELSE packets \union {[of |-> Head(requests), sid |-> s]}
      BY <1>3 DEF DeviceAcks
    <2>2. newest'.of = Head(requests)
      BY <1>0, <2>1, NextSid
    <2>3. \A p \in packets' : p \in packets \/ p.of = Head(requests)
      BY <2>1
    <2>4. QED
      BY <1>1, <1>2, <1>3, <2>2, <2>3 DEF DeviceAcks
  <1>4. CASE DeviceDrops
    BY <1>1, <1>2, <1>4 DEF DeviceDrops, box
  <1>5. CASE NetworkAnswers
    <2>1. PICK p \in packets, good \in BOOLEAN :
            /\ Arrives([type |-> "rxstat", of |-> p.of, good |-> good, sid |-> p.sid])
            /\ packets' = packets \ {p}
      BY <1>5 DEF NetworkAnswers
    <2>2. newest'.of = p.of
      BY <1>0, <2>1, NextSid
    <2>3. QED
      BY <1>1, <1>5, <2>1, <2>2 DEF NetworkAnswers
  <1>6. CASE NetworkDrops
    BY <1>1, <1>6 DEF NetworkDrops, box
  <1>7. CASE DeviceChatters
    <2>1. newest'.type = "msg"
      BY <1>0, <1>7, NextSid DEF DeviceChatters
    <2>2. QED
      BY <1>1, <1>7, <2>1 DEF DeviceChatters, device
  <1>8. QED
    BY <1>3, <1>4, <1>5, <1>6, <1>7 DEF Device
-----------------------------------------------------------------------------
(* The invariant: what the steps of a call do to it *)

\* Each subtraction takes off at least the time that passed since the last one.
LEMMA AccountingCall ==
  ASSUME Inv, Begin \/ Inside
  PROVE  Accounting'
  <1> USE TimeoutAssumption DEF Inv, Accounting
  <1>0. TypeOK /\ budget \in Int /\ elapsed \in Nat
    BY DEF TypeOK
  <1>1. ASSUME NEW d \in 0..ReadTimeout, NEW next \in {"send", "read"},
               NEW out \in {"retriesOut", "ignoredOut"},
               pc = "read", Retract(d, next, out)
        PROVE  Accounting'
    <2>1. /\ elapsed' = elapsed + d /\ budget' = budget - elapsed'
          /\ pc' \in {next, "destroy"} /\ (pc' = next => budget' > 0)
      BY <1>0, <1>1, RetractType
    <2>2. QED
      BY <1>0, <1>1, <2>1
  <1>2. ASSUME UNCHANGED <<budget, elapsed>>, pc' \in {"send", "read"} => pc \in {"send", "read"}
        PROVE  Accounting'
    BY <1>0, <1>2
  <1>3. CASE Begin
    BY <1>3 DEF Begin
  <1>4. CASE Send \/ SendFails \/ Destroy
    BY <1>2, <1>4 DEF Send, SendFails, Destroy, Return
  <1>5. CASE ReadTimesOut
    BY <1>1, <1>5 DEF ReadTimesOut
  <1>6. CASE ReadAck
    BY <1>1, <1>2, <1>6 DEF ReadAck, Reads, Return
  <1>7. CASE ReadFrame
    BY <1>2, <1>7 DEF ReadFrame, Return
  <1>8. CASE ReadBadFrame
    BY <1>1, <1>8 DEF ReadBadFrame, Reads
  <1>9. CASE ReadOther
    BY <1>1, <1>9 DEF ReadOther, Reads
  <1>10. QED
    BY <1>3, <1>4, <1>5, <1>6, <1>7, <1>8, <1>9 DEF Inside

\* Only an ack is remembered, with its call, and only while it is waited for;
\* the frame that is returned has the remembered id, hence is of that call.
LEMMA SidsCall ==
  ASSUME Inv, Begin \/ Inside
  PROVE  SidsTellCalls'
  <1> USE DEF Inv, SidsTellCalls
  <1>0. TypeOK /\ posted \in Nat
    BY DEF TypeOK
  <1>1. CASE Begin
    BY <1>0, <1>1 DEF Begin, device
  <1>2. CASE Send
    BY <1>0, <1>2 DEF Send, box
  <1>3. CASE SendFails \/ Destroy
    BY <1>3 DEF SendFails, Destroy, Return, box, device, history
  <1>4. CASE ReadTimesOut
    <2>1. pc' \in {"send", "destroy"} /\ (pc' = "destroy" => rc' = "retriesOut")
      BY <1>0, <1>4, RetractType, TimeoutAssumption DEF ReadTimesOut
    <2>2. QED
      BY <1>4, <2>1 DEF ReadTimesOut, device, history
  <1>5. ASSUME NEW d \in 0..ReadTimeout, Reads(d)
        PROVE  UNCHANGED <<newest, posted, packets>>
    BY <1>5 DEF Reads, Box!Take, device
  <1>6. CASE ReadAck
    <2>1. newest.type = "ack" /\ UNCHANGED <<newest, posted, packets>>
          /\ sid' = newest.sid /\ acked' = newest.of
      BY <1>5, <1>6 DEF ReadAck, ExpectedAck
    <2>2. pc' = "read" => newest.sid # 0
      BY <1>6 DEF ReadAck, Return
    <2>3. pc' \in {"destroy", "idle"} => rc' # "frame"
      <3>1. ASSUME NEW d \in 0..ReadTimeout, Retract(d, "read", "ignoredOut")
            PROVE  pc' \in {"read", "destroy"} /\ (pc' = "destroy" => rc' = "ignoredOut")
        BY <1>0, <3>1, RetractType
      <3>2. QED
        BY <1>6, <3>1 DEF ReadAck, Return
    <2>4. QED
      BY <2>1, <2>2, <2>3
  <1>7. CASE ReadFrame
    BY <1>5, <1>7 DEF ReadFrame, ExpectedFrame, Reads, Return
  <1>8. CASE ReadBadFrame
    <2>1. pc' \in {"send", "destroy"} /\ (pc' = "destroy" => rc' = "retriesOut")
      BY <1>0, <1>8, RetractType DEF ReadBadFrame
    <2>2. QED
      BY <1>5, <1>8, <2>1 DEF ReadBadFrame
  <1>9. CASE ReadOther
    <2>1. pc = "read" /\ pc' \in {"read", "destroy"} /\ (pc' = "destroy" => rc' = "ignoredOut")
      BY <1>0, <1>9, RetractType DEF ReadOther, Reads
    <2>2. QED
      BY <1>5, <1>9, <2>1 DEF ReadOther
  <1>10. QED
    BY <1>1, <1>2, <1>3, <1>4, <1>6, <1>7, <1>8, <1>9 DEF Inside

\* A call that begins quietly has nothing but its own commands under way, and
\* NewReader leaves no line of another to be read.
LEMMA QuietCall ==
  ASSUME Inv, Begin \/ Inside
  PROVE  QuietHolds'
  <1> USE DEF Inv, QuietHolds
  <1>0. TypeOK /\ posted \in Nat /\ taken \in Nat /\ call \in Nat
    BY BoundAssumption DEF TypeOK
  <1>a. call' > 0
    BY <1>0, BoundAssumption
    DEF TypeOK, Calls, Inside, Begin, Send, SendFails, Destroy, ReadTimesOut,
        ReadAck, ReadFrame, ReadBadFrame, ReadOther, Reads, history
  <1>1. CASE Begin
    <2>1. requests' = requests /\ packets' = packets /\ taken' = posted' /\ pc' = "send"
      BY <1>1 DEF Begin, NewReader, device
    <2>2. quiet' => Len(requests') = 0 /\ packets' = {}
      BY <1>1, <2>1 DEF Begin
    <2>3. QED
      BY <1>0, <1>1, <1>a, <2>1, <2>2 DEF Begin
  <1>2. CASE Send
    <2>1. requests \in Seq(Calls) /\ requests' = Append(requests, call)
      BY <1>2 DEF Send, TypeOK
    <2>2. (\A i \in 1..Len(requests) : requests[i] = call) =>
             \A i \in 1..Len(requests') : requests'[i] = call
      BY <2>1
    <2>3. QED
      BY <1>2, <1>a, <2>2 DEF Send, box
  <1>3. CASE SendFails \/ Destroy
    BY <1>3, <1>a DEF SendFails, Destroy, Return, box, device, history
  <1>4. CASE ReadTimesOut
    <2>1. pc' \in {"send", "destroy"} /\ (pc' = "destroy" => rc' = "retriesOut")
      BY <1>0, <1>4, RetractType, TimeoutAssumption DEF ReadTimesOut
    <2>2. QED
      BY <1>4, <1>a, <2>1 DEF ReadTimesOut, device, history
  <1>5. ASSUME NEW d \in 0..ReadTimeout, Reads(d)
        PROVE  /\ UNCHANGED <<newest, posted, requests, packets, call, quiet>>
               /\ taken < posted /\ taken' = posted /\ pc = "read"
    BY <1>5 DEF Reads, Box!Take, device
  <1>6. CASE ReadAck
    <2>1. newest.type = "ack" /\ taken < posted
      BY <1>5, <1>6 DEF ReadAck, ExpectedAck
    <2>2. UNCHANGED <<newest, posted, requests, packets, call, quiet>> /\ taken' = posted
      BY <1>5, <1>6 DEF ReadAck
    <2>3. pc' = "destroy" \/ pc' = "read"
      <3>1. ASSUME NEW d \in 0..ReadTimeout, Retract(d, "read", "ignoredOut")
            PROVE  pc' \in {"read", "destroy"}
        BY <1>0, <3>1, RetractType
      <3>2. QED
        BY <1>6, <3>1 DEF ReadAck, Return
    <2>4. pc' = "destroy" => answered' = newest.of
      BY <1>6 DEF ReadAck
    <2>5. QED
      BY <1>0, <1>a, <2>1, <2>2, <2>3, <2>4
  <1>7. CASE ReadFrame
    BY <1>0, <1>a, <1>5, <1>7 DEF ReadFrame, ExpectedFrame, Return
  <1>8. CASE ReadBadFrame
    <2>1. pc' \in {"send", "destroy"} /\ (pc' = "destroy" => rc' = "retriesOut")
      BY <1>0, <1>8, RetractType DEF ReadBadFrame
    <2>2. QED
      BY <1>0, <1>a, <1>5, <1>8, <2>1 DEF ReadBadFrame
  <1>9. CASE ReadOther
    <2>1. pc' \in {"read", "destroy"} /\ (pc' = "destroy" => rc' = "ignoredOut")
      BY <1>0, <1>9, RetractType DEF ReadOther
    <2>2. QED
      BY <1>0, <1>a, <1>5, <1>9, <2>1 DEF ReadOther
  <1>10. QED
    BY <1>1, <1>2, <1>3, <1>4, <1>6, <1>7, <1>8, <1>9 DEF Inside

-----------------------------------------------------------------------------
(* The theorems *)

\* The invariant holds before the first call.
LEMMA InvInit == Init => Inv
  <1> SUFFICES ASSUME Init PROVE Inv
    OBVIOUS
  <1>1. TypeOK
    BY TypeInit
  <1>2. newest.type = "msg" /\ packets = {} /\ call = 0
    BY DEF Init
  <1>3. Accounting
    BY TimeoutAssumption DEF Init, Accounting
  <1>4. SidsTellCalls
    BY <1>2 DEF Init, Box!Init, SidsTellCalls
  <1>5. QuietHolds
    BY <1>2 DEF Init, QuietHolds
  <1>6. QED
    BY <1>1, <1>3, <1>4, <1>5 DEF Inv

\* Every step keeps the invariant.
LEMMA InvNext ==
  ASSUME Inv, [Next]_vars
  PROVE  Inv'
  <1>1. CASE Device
    <2>1. Accounting'
      BY <1>1, DeviceLeavesCall DEF Inv, Accounting, local, history
    <2>2. QED
      BY <1>1, <2>1, TypeDevice, SidsDevice, QuietDevice DEF Inv
  <1>2. CASE Begin \/ Inside
    BY <1>2, TypeCall, AccountingCall, SidsCall, QuietCall DEF Inv
  <1>3. CASE UNCHANGED vars
    BY <1>3 DEF Inv, TypeOK, Accounting, SidsTellCalls, QuietHolds, vars, local,
                box, device, history
  <1>4. QED
    BY <1>1, <1>2, <1>3 DEF Next

\* The invariant holds throughout, for all calls, lines and losses.
THEOREM Invariance == Spec => []Inv
  <1>1. QED
    BY InvInit, InvNext, PTL DEF Spec

\* Every variable keeps its type.
THEOREM TypeCorrect == Spec => []TypeOK
  <1>1. Inv => TypeOK
    BY DEF Inv
  <1>2. QED
    BY Invariance, <1>1, PTL

\* A call is over within its time-outs, whatever mix of lines and silence.
THEOREM KeepsTime == Spec => []WithinTimeout
  <1>1. Inv => WithinTimeout
    BY TimeoutAssumption DEF Inv, TypeOK, Accounting, WithinTimeout
  <1>2. QED
    BY Invariance, <1>1, PTL

\* A frame is returned only with the ack of the same command before it.
THEOREM FramesFit == Spec => []FrameFitsAck
  <1>1. Inv => FrameFitsAck
    BY DEF Inv, SidsTellCalls, FrameFitsAck
  <1>2. QED
    BY Invariance, <1>1, PTL

\* After a quiet start a success is the command's own.
THEOREM QuietSuccess == Spec => []SucceedsWhenQuiet
  <1>1. Inv => SucceedsWhenQuiet
    <2>1. SUFFICES ASSUME Inv, Succeeded, quiet PROVE answered = call
      BY DEF SucceedsWhenQuiet
    <2>2. call > 0
      BY <2>1, BoundAssumption DEF Inv, TypeOK, QuietHolds, Succeeded
    <2>3. QED
      BY <2>1, <2>2 DEF Inv, QuietHolds, Succeeded
  <1>2. QED
    BY Invariance, <1>1, PTL
=============================================================================
