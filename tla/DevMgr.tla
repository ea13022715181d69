------------------------------- MODULE DevMgr -------------------------------
(***************************************************************************)
(* sub_devmgr_socket() (main/cmd_devmgr.c): one call sends a command to the *)
(* device manager and waits for its ack and, when the ack names a packet,   *)
(* for the rxstat of that packet.  A read that times out and a frame that   *)
(* is not usable send the command again, until the time is used up.         *)
(*                                                                          *)
(* sp_read() is the Mailbox that SockPush implements: a read returns the    *)
(* newest line if it is new to the reader, or times out, at times though a  *)
(* line is there.  SockPush also shows that the hand-shake of a read can    *)
(* leave sp_iothread() asleep with user_mutex: "held" is that.  Nothing     *)
(* arrives then, no call that needs the mutex returns, and a read times out *)
(* and thereby wakes the thread.                                            *)
(*                                                                          *)
(* The device manager is external: it answers commands in their order, and  *)
(* the network answers packets in any order at any time.                    *)
(* Time is counted in whole units; TLC's unit is 400 ms.                    *)
(***************************************************************************)
EXTENDS Integers, Sequences, FiniteSets

CONSTANTS
    ReadTimeout,        \* read_timeout, 800 ms
    GlobalTimeout,      \* global_timeout, 3000 ms
    MaxCalls,           \* bound: calls of cmd_devmgr()
    MaxLines            \* bound: lines the device manager sends

ASSUME TimeoutAssumption ==
    ReadTimeout \in Nat \ {0} /\ GlobalTimeout \in Nat \ {0}
ASSUME BoundAssumption == MaxCalls \in Nat /\ MaxLines \in Nat

VARIABLES
    \* one call of sub_devmgr_socket()
    pc,                 \* "idle", or what it does next: "send", "read", "destroy"
    state, sid,         \* state and cmd_sid
    budget, elapsed,    \* global_timeout, and the time since ref
    rc,                 \* how the last call ended
    \* the socket
    newest,             \* the newest line that arrived
    posted, taken,      \* the box, as in Mailbox
    held,               \* sp_iothread() sleeps in its hand-shake
    requests,           \* commands sent and not answered, by their calls
    packets,            \* packets on the network: call and sid
    \* history
    call,               \* the number of the call
    quiet,              \* nothing of an earlier call was due when it began
    acked, answered     \* the call whose ack, and whose answer, was accepted

local   == <<pc, state, sid, budget, elapsed, rc>>
box     == <<newest, posted, taken, held>>
device  == <<requests, packets>>
history == <<call, quiet, acked, answered>>
vars    == <<local, box, device, history>>

Box == INSTANCE Mailbox

Calls == 1..MaxCalls
Sids  == 1..MaxLines

\* "ack": err, sid.  "rxstat": sid, and whether qual is 0 and frame a string.
\* "msg": anything else.  "of" is the call of the command that it answers.
Lines ==
    [type : {"ack"}, of : Calls, err : BOOLEAN, sid : Sids \union {0}] \union
    [type : {"rxstat"}, of : Calls, good : BOOLEAN, sid : Sids] \union
    [type : {"msg"}]

Results == {"none", "noReader", "notSent", "refused", "acked", "frame",
            "retriesOut", "ignoredOut"}

Init ==
    /\ held = FALSE
    /\ pc = "idle" /\ state = 0 /\ sid = 0
    /\ budget = GlobalTimeout /\ elapsed = 0 /\ rc = "none"
    /\ newest = [type |-> "msg"] /\ Box!Init
    /\ requests = <<>> /\ packets = {}
    /\ call = 0 /\ quiet = TRUE /\ acked = 0 /\ answered = 0

-----------------------------------------------------------------------------
(* The device manager and the network. *)

Arrives(l) ==
    Box!Post /\ posted < MaxLines /\ ~held /\ newest' = l /\ UNCHANGED held

\* The head of the commands is answered: an error, no packet, or a packet.
DeviceAcks ==
    /\ requests # <<>> /\ requests' = Tail(requests)
    /\ \E err \in BOOLEAN, s \in {0, posted + 1} :
        /\ Arrives([type |-> "ack", of |-> Head(requests), err |-> err, sid |-> s])
        /\ packets' = IF err \/ s = 0 THEN packets
                      ELSE packets \union {[of |-> Head(requests), sid |-> s]}
    /\ UNCHANGED <<local, history>>

\* The command is lost between here and the device.
DeviceDrops ==
    /\ requests # <<>> /\ requests' = Tail(requests)
    /\ UNCHANGED <<local, box, packets, history>>

NetworkAnswers ==
    /\ \E p \in packets, good \in BOOLEAN :
        /\ Arrives([type |-> "rxstat", of |-> p.of, good |-> good, sid |-> p.sid])
        /\ packets' = packets \ {p}
    /\ UNCHANGED <<local, requests, history>>

NetworkDrops ==
    /\ \E p \in packets : packets' = packets \ {p}
    /\ UNCHANGED <<local, box, requests, history>>

\* A message, or the output of another node: neither ack nor rxstat.
DeviceChatters ==
    /\ Arrives([type |-> "msg"])
    /\ UNCHANGED <<local, device, history>>

-----------------------------------------------------------------------------
(* sub_devmgr_socket() *)

\* Mutant of NewReader: the reader does not start from the newest line.
NewReaderUnpurged == UNCHANGED taken

\* Mutant of NewReader: last_read is one ahead of read_id.
NewReaderAhead == taken' = posted + 1

\* sp_reader_create(): what has arrived so far is not for this reader.
NewReader == taken' = posted

\* A call begins: the reader and the time reference.
Begin ==
    /\ pc = "idle" /\ ~held /\ call < MaxCalls
    /\ call' = call + 1
    /\ quiet' = (requests = <<>> /\ packets = {})
    /\ NewReader
    /\ pc' = "send" /\ budget' = GlobalTimeout /\ elapsed' = 0
    /\ acked' = 0 /\ answered' = 0
    /\ UNCHANGED <<state, sid, rc, newest, posted, held, device>>

\* sp_sendcmd(): state and cmd_sid start over with every send.
Send ==
    /\ pc = "send" /\ ~held
    /\ requests' = Append(requests, call)
    /\ pc' = "read" /\ state' = 0 /\ sid' = 0 /\ acked' = 0
    /\ UNCHANGED <<budget, elapsed, rc, box, packets, call, quiet, answered>>

Return(r) == pc' = "destroy" /\ rc' = r

\* sp_reader_destroy() has no effect on the box.
Destroy ==
    /\ pc = "destroy" /\ ~held
    /\ pc' = "idle"
    /\ UNCHANGED <<state, sid, budget, elapsed, rc, box, device, history>>

SendFails ==
    /\ pc = "send" /\ ~held /\ Return("notSent")
    /\ UNCHANGED <<state, sid, budget, elapsed, box, device, history>>

\* Mutant of Retract: the time that has passed is not subtracted.
RetractNothing(d, next, out) ==
    /\ elapsed' = elapsed + d
    /\ budget' = budget
    /\ IF budget' <= 0 THEN Return(out) ELSE pc' = next /\ UNCHANGED rc

\* The time since ref, which is never moved, is subtracted after every read.
\* Then the call ends, or goes on with "next".
Retract(d, next, out) ==
    /\ elapsed' = elapsed + d
    /\ budget' = budget - elapsed'
    /\ IF budget' <= 0 THEN Return(out) ELSE pc' = next /\ UNCHANGED rc

\* Mutant of ReadTimesOut: read on, and leave the time out of account.
ReadTimesOutForFree ==
    pc = "read" /\ UNCHANGED vars

\* sp_read() comes back empty handed, perhaps just as a line is handed to it.
ReadTimesOut ==
    /\ pc = "read" /\ Retract(ReadTimeout, "send", "retriesOut")
    /\ held' \in BOOLEAN /\ (held' => ~held /\ taken < posted)
    /\ UNCHANGED <<state, sid, newest, posted, taken, device, history>>

\* sp_read() returns the newest line, after d.
Reads(d) ==
    /\ pc = "read" /\ ~held /\ d \in 0..ReadTimeout
    /\ Box!Take /\ held' \in BOOLEAN
    /\ UNCHANGED <<newest, device, call, quiet>>

ExpectedAck == state = 0 /\ newest.type = "ack"

\* Mutant of ExpectedFrame: the rxstat of any packet will do.
ExpectedFrameOfAny == state = 1 /\ newest.type = "rxstat"

ExpectedFrame == state = 1 /\ newest.type = "rxstat" /\ newest.sid = sid

ReadAck ==
    /\ \E d \in 0..ReadTimeout :
        /\ Reads(d) /\ ExpectedAck
        /\ \/ newest.err /\ Return("refused") /\ UNCHANGED <<state, budget, elapsed>>
           \/ ~newest.err /\ newest.sid = 0 /\ Return("acked")
              /\ UNCHANGED <<state, budget, elapsed>>
           \/ ~newest.err /\ newest.sid # 0 /\ state' = 1
              /\ Retract(d, "read", "ignoredOut")
    /\ sid' = newest.sid
    /\ acked' = newest.of
    /\ answered' = IF pc' = "destroy" THEN newest.of ELSE answered

\* A usable frame is copied to dst and its length returned.
ReadFrame ==
    /\ \E d \in 0..ReadTimeout : Reads(d)
    /\ ExpectedFrame /\ newest.good
    /\ Return("frame") /\ state' = 2 /\ answered' = newest.of
    /\ UNCHANGED <<sid, budget, elapsed, acked>>

\* The right packet, but qual is not 0 or the frame is missing: retry.
ReadBadFrame ==
    /\ \E d \in 0..ReadTimeout : Reads(d) /\ Retract(d, "send", "retriesOut")
    /\ ExpectedFrame /\ ~newest.good
    /\ state' = 2
    /\ UNCHANGED <<sid, acked, answered>>

\* Any other line, JSON or not, is passed over.
ReadOther ==
    /\ \E d \in 0..ReadTimeout : Reads(d) /\ Retract(d, "read", "ignoredOut")
    /\ ~ExpectedAck /\ ~ExpectedFrame
    /\ UNCHANGED <<state, sid, acked, answered>>

-----------------------------------------------------------------------------
Device == DeviceAcks \/ DeviceDrops \/ NetworkAnswers \/ NetworkDrops \/ DeviceChatters

Inside ==
    \/ Send \/ SendFails \/ Destroy \/ ReadTimesOut
    \/ ReadAck \/ ReadFrame \/ ReadBadFrame \/ ReadOther

Next == Device \/ Begin \/ Inside

Spec == Init /\ [][Next]_vars

\* The thread that runs the command goes on; the device owes it nothing.
FairSpec == Spec /\ WF_vars(Inside)

-----------------------------------------------------------------------------
(* Properties *)

\* Every variable stays within its type.
TypeOK ==
    /\ pc \in {"idle", "send", "read", "destroy"} /\ held \in BOOLEAN /\ state \in 0..2
    /\ sid \in Sids \union {0}
    /\ budget \in Int /\ elapsed \in Nat /\ rc \in Results
    /\ newest \in Lines /\ posted \in 0..MaxLines /\ taken \in 0..posted
    /\ requests \in Seq(Calls)
    /\ packets \subseteq [of : Calls, sid : Sids]
    /\ call \in 0..MaxCalls /\ quiet \in BOOLEAN /\ (pc # "idle" => call \in Calls)
    /\ acked \in 0..MaxCalls /\ answered \in 0..MaxCalls

Succeeded == pc = "idle" /\ rc \in {"acked", "frame"}

\* A frame that is returned answers the command whose ack was accepted after the
\* last send: the ack of one command and the rxstat of another are never paired,
\* in whatever order late lines of several commands come in.
FrameFitsAck == (pc = "idle" /\ rc = "frame") => answered = acked

\* A success is a success of this command, provided that nothing was still to
\* come for an earlier command when it began: lines that had arrived before,
\* its own retries, and lost acks do no harm.
SucceedsWhenQuiet == (Succeeded /\ quiet) => answered = call

\* The time a call takes is bounded by its time-outs: it does not start another
\* read when it has used up global_timeout, however lines and silence mix.
WithinTimeout ==
    /\ elapsed < GlobalTimeout + ReadTimeout
    /\ pc \in {"send", "read"} => elapsed < GlobalTimeout

(* The inductive invariant that these three rest on. *)

\* What has been spent is at least the time that has passed.
Accounting ==
    /\ elapsed + budget <= GlobalTimeout
    /\ pc \in {"send", "read"} => budget > 0
    /\ elapsed < GlobalTimeout + ReadTimeout

\* A packet id is given out once, so that it tells the call: the one on the
\* network, the one in the newest line and the one waited for are of one call
\* if they have one number.
SidsTellCalls ==
    /\ \A p \in packets : p.sid <= posted
    /\ \A p, q \in packets : p.sid = q.sid => p.of = q.of
    /\ newest.type \in {"ack", "rxstat"} =>
          \A p \in packets : p.sid = newest.sid => p.of = newest.of
    /\ newest.type \in {"ack", "rxstat"} => newest.sid <= posted
    /\ sid <= posted
    /\ pc = "read" /\ state = 1 =>
          /\ sid # 0
          /\ \A p \in packets : p.sid = sid => p.of = acked
          /\ newest.type \in {"ack", "rxstat"} /\ newest.sid = sid => newest.of = acked
    /\ pc \in {"destroy", "idle"} /\ rc = "frame" => answered = acked

\* After a quiet start all that is due, or arrives unread, is of this call.
QuietHolds ==
    /\ call = 0 => rc = "none"
    /\ quiet /\ call > 0 =>
        /\ \A i \in 1..Len(requests) : requests[i] = call
        /\ \A p \in packets : p.of = call
        /\ newest.type \in {"ack", "rxstat"} /\ taken < posted => newest.of = call
        /\ pc \in {"destroy", "idle"} /\ rc \in {"acked", "frame"} => answered = call

Inv == TypeOK /\ Accounting /\ SidsTellCalls /\ QuietHolds

\* A call comes to an end, whatever the device manager sends or does not send,
\* unless it waits for the mutex that the I/O thread sleeps with.
Terminates ==
    (pc # "idle") ~> (pc = "idle" \/ (held /\ pc \in {"send", "destroy"}))
=============================================================================
