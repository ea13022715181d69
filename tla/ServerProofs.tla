---------------------------- MODULE ServerProofs ----------------------------
(***************************************************************************)
(* What the socket server promises, for any clients, devices and number of *)
(* lines, however they are cut into parts and chunks.                      *)
(*                                                                         *)
(* Everything rests on iso_mutex being held for a whole chunk: what a      *)
(* command finds in the variables that the threads share is what its own   *)
(* thread has left there.  The order of the lines rests on their numbers,  *)
(* which grow along a client's stream from the part that was run last to   *)
(* the part that was sent last.                                            *)
(***************************************************************************)
EXTENDS Server, TLAPS

PartNames == {"all", "head", "tail"}
States == {"none", "read", "lock", "line", "exec", "stuck", "gone"}
Ranges == [n : 0..MaxRequests, part : PartNames]

Types ==
    /\ unread \in [Clients -> Seq(Parts)] /\ chunk \in [Clients -> Seq(Parts)]
    /\ tpc \in [Clients -> States]
    /\ ran \in [Clients -> Ranges]
    /\ left \in [Clients -> SUBSET (Devices \union {0})]
    /\ sent \in 0..MaxRequests
    /\ iso \in Clients \union {"free"} /\ isoCtx \in Clients \union {"free"}
    /\ active \in Devices \union {0} /\ lastSet \in Devices \union {0}
    /\ db \in {"open", "freed"} /\ signalled \in BOOLEAN
    /\ main \in Serving \union {"woken", "freed", "exited"}

\* A thread that runs lines of its chunk owns iso_mutex, and there are lines.
Holds(c) == tpc[c] \in {"line", "exec", "stuck"}
MutexHeld == \A c \in Clients : Holds(c) => iso = c
ChunkReady == \A c \in Clients : tpc[c] \in {"lock", "line", "exec", "stuck"} => chunk[c] # <<>>

\* The init file is run before there is a thread.
Quiet == main \in {"start", "init", "create"} => \A c \in Clients : tpc[c] = "none"

\* The device that a line left active is active when the next line begins.
DeviceKept ==
    \A c \in Clients :
        /\ tpc[c] \in {"none", "read", "lock"} => left[c] = {}
        /\ tpc[c] \in {"line", "exec"} /\ left[c] # {} => active \in left[c]

Control == MutexHeld /\ ChunkReady /\ Quiet /\ DeviceKept /\ AllocatorsIsolated

\* The order of the parts of one client's lines.
Follows(p, q) == p.n < q.n \/ (p.n = q.n /\ p.part = "head" /\ q.part = "tail")
InOrder(s) == \A i, j \in DOMAIN s : i < j => Follows(s[i], s[j])
Before(p, s) == \A i \in DOMAIN s : Follows(p, s[i])
UpTo(s, n) == \A i \in DOMAIN s : s[i].n <= n

\* A client's stream: what was run last, what is in the chunk, what is unread.
Stream(p, s, t, n) ==
    /\ Before(p, s) /\ Before(p, t) /\ p.n <= n
    /\ InOrder(s) /\ InOrder(t) /\ \A i \in DOMAIN s : Before(s[i], t)
    /\ UpTo(s, n) /\ UpTo(t, n)

Order == \A c \in Clients : Stream(ran[c], chunk[c], unread[c], sent)

Inv == Types /\ Control /\ Order

-----------------------------------------------------------------------------
(* Streams.                                                                *)

\* Taking the first n parts away from the others.
LEMMA Cut ==
    ASSUME NEW s \in Seq(Parts), NEW n \in 0..Len(s)
    PROVE  /\ SubSeq(s, 1, n) \in Seq(Parts) /\ SubSeq(s, n + 1, Len(s)) \in Seq(Parts)
           /\ Len(SubSeq(s, 1, n)) = n /\ Len(SubSeq(s, n + 1, Len(s))) = Len(s) - n
           /\ \A i \in 1..n : SubSeq(s, 1, n)[i] = s[i]
           /\ \A i \in 1..(Len(s) - n) : SubSeq(s, n + 1, Len(s))[i] = s[n + i]
<1>1. SubSeq(s, 1, n) \in Seq(Parts) /\ Len(SubSeq(s, 1, n)) = n
  OBVIOUS
<1>2. SubSeq(s, n + 1, Len(s)) \in Seq(Parts) /\ Len(SubSeq(s, n + 1, Len(s))) = Len(s) - n
  OBVIOUS
<1>3. \A i \in 1..n : SubSeq(s, 1, n)[i] = s[i]
  OBVIOUS
<1>4. \A i \in 1..(Len(s) - n) : SubSeq(s, n + 1, Len(s))[i] = s[n + i]
  OBVIOUS
<1> QED
  BY <1>1, <1>2, <1>3, <1>4

\* A part is a record with a number.
LEMMA PartType ==
    ASSUME NEW s \in Seq(Parts), NEW i \in DOMAIN s
    PROVE  s[i].n \in 1..MaxRequests /\ s[i].part \in PartNames /\ s[i].n \in Nat
<1>1. s[i] \in Parts
  OBVIOUS
<1>2. s[i].n \in 1..MaxRequests /\ s[i].part \in PartNames
  BY <1>1 DEF Parts, PartNames
<1> QED
  BY <1>2

\* read(): the unread parts become a chunk and the rest.
LEMMA ReadStream ==
    ASSUME NEW s \in Seq(Parts), NEW t \in Seq(Parts), NEW p, NEW m,
           NEW n \in 0..Len(t), Stream(p, s, t, m)
    PROVE  Stream(p, SubSeq(t, 1, n), SubSeq(t, n + 1, Len(t)), m)
<1> DEFINE a == SubSeq(t, 1, n)
           b == SubSeq(t, n + 1, Len(t))
<1>1. /\ a \in Seq(Parts) /\ b \in Seq(Parts) /\ Len(a) = n /\ Len(b) = Len(t) - n
      /\ \A i \in 1..n : a[i] = t[i]
      /\ \A i \in 1..(Len(t) - n) : b[i] = t[n + i]
  BY Cut
<1>2. \A i \in DOMAIN a : i \in DOMAIN t /\ i <= n /\ a[i] = t[i]
  BY <1>1
<1>3. \A i \in DOMAIN b : n + i \in DOMAIN t /\ i > 0 /\ b[i] = t[n + i]
  BY <1>1
<1> HIDE DEF a, b
<1>4. Before(p, a) /\ Before(p, b) /\ UpTo(a, m) /\ UpTo(b, m)
  BY <1>2, <1>3 DEF Stream, Before, UpTo
<1>5. InOrder(a)
  BY <1>2 DEF Stream, InOrder
<1>6. InOrder(b)
  <2> SUFFICES ASSUME NEW i \in DOMAIN b, NEW j \in DOMAIN b, i < j PROVE Follows(b[i], b[j])
    BY DEF InOrder
  <2>1. n + i < n + j
    BY <1>1
  <2> QED
    BY <1>3, <2>1 DEF Stream, InOrder
<1>7. \A i \in DOMAIN a : Before(a[i], b)
  <2> SUFFICES ASSUME NEW i \in DOMAIN a, NEW j \in DOMAIN b PROVE Follows(a[i], b[j])
    BY DEF Before
  <2>1. i < n + j
    BY <1>1, <1>2, <1>3
  <2> QED
    BY <1>2, <1>3, <2>1 DEF Stream, InOrder
<1> QED
  BY <1>4, <1>5, <1>6, <1>7 DEF Stream, a, b

\* A line of l parts has been run: the rest follows its last part.
LEMMA RunStream ==
    ASSUME NEW s \in Seq(Parts), NEW t \in Seq(Parts), NEW p, NEW m,
           NEW l \in 1..Len(s), Stream(p, s, t, m)
    PROVE  Stream([n |-> s[l].n, part |-> s[l].part], SubSeq(s, l + 1, Len(s)), t, m)
<1> DEFINE q == [n |-> s[l].n, part |-> s[l].part]
           b == SubSeq(s, l + 1, Len(s))
<1>1. /\ b \in Seq(Parts) /\ Len(b) = Len(s) - l
      /\ \A i \in 1..(Len(s) - l) : b[i] = s[l + i]
  BY Cut
<1>2. \A i \in DOMAIN b : l + i \in DOMAIN s /\ i > 0 /\ b[i] = s[l + i]
  BY <1>1
<1>3. \A x : Follows(q, x) <=> Follows(s[l], x)
  BY DEF Follows
<1>4. q.n <= m
  BY DEF Stream, UpTo
<1> HIDE DEF b, q
<1>5. Before(q, b)
  <2> SUFFICES ASSUME NEW i \in DOMAIN b PROVE Follows(s[l], b[i])
    BY <1>3 DEF Before
  <2>1. l < l + i /\ l \in DOMAIN s
    BY <1>1, <1>2
  <2> QED
    BY <1>2, <2>1 DEF Stream, InOrder
<1>6. Before(q, t)
  <2>1. l \in DOMAIN s
    OBVIOUS
  <2> QED
    BY <1>3, <2>1 DEF Stream, Before
<1>7. InOrder(b)
  <2> SUFFICES ASSUME NEW i \in DOMAIN b, NEW j \in DOMAIN b, i < j PROVE Follows(b[i], b[j])
    BY DEF InOrder
  <2>1. l + i < l + j
    BY <1>1
  <2> QED
    BY <1>2, <2>1 DEF Stream, InOrder
<1>8. (\A i \in DOMAIN b : Before(b[i], t)) /\ UpTo(b, m)
  BY <1>2 DEF Stream, UpTo
<1> QED
  BY <1>4, <1>5, <1>6, <1>7, <1>8 DEF Stream, b, q

\* A line that is sent is newer than all that was sent before.
LEMMA SendStream ==
    ASSUME NEW s \in Seq(Parts), NEW t \in Seq(Parts), NEW p \in Ranges, NEW m \in Nat,
           NEW w \in Seq(Parts), Stream(p, s, t, m), InOrder(w), \A i \in DOMAIN w : w[i].n = m + 1
    PROVE  Stream(p, s, t \o w, m + 1)
<1> DEFINE u == t \o w
<1>1. u \in Seq(Parts) /\ Len(u) = Len(t) + Len(w)
  OBVIOUS
<1>2. \A i \in DOMAIN u : \/ i \in DOMAIN t /\ u[i] = t[i]
                          \/ i > Len(t) /\ i - Len(t) \in DOMAIN w /\ u[i] = w[i - Len(t)]
  OBVIOUS
<1> HIDE DEF u
<1>3. \A i \in DOMAIN u : \/ i \in DOMAIN t /\ i <= Len(t) /\ u[i] = t[i]
                          \/ i > Len(t) /\ u[i].n = m + 1
  BY <1>2
<1>4. \A i \in DOMAIN s : s[i].n \in Nat /\ s[i].n <= m
  BY PartType DEF Stream, UpTo
<1>5. \A i \in DOMAIN t : t[i].n \in Nat /\ t[i].n <= m
  BY PartType DEF Stream, UpTo
<1>6. p.n \in Nat /\ p.n <= m
  BY DEF Stream, Ranges
<1>7. Before(p, u)
  BY <1>3, <1>6 DEF Stream, Before, Follows
<1>8. \A i \in DOMAIN s : Before(s[i], u)
  BY <1>3, <1>4 DEF Stream, Before, Follows
<1>9. InOrder(u)
  <2> SUFFICES ASSUME NEW i \in DOMAIN u, NEW j \in DOMAIN u, i < j PROVE Follows(u[i], u[j])
    BY DEF InOrder
  <2>0. i \in Nat /\ j \in Nat /\ Len(t) \in Nat
    BY <1>1
  <2>1. CASE j \in DOMAIN t /\ u[j] = t[j]
    BY <1>2, <2>0, <2>1 DEF Stream, InOrder
  <2>2. CASE i \in DOMAIN t /\ u[i] = t[i] /\ u[j].n = m + 1
    BY <1>5, <2>2 DEF Follows
  <2>3. CASE i > Len(t) /\ j > Len(t)
    <3>1. /\ i - Len(t) \in DOMAIN w /\ j - Len(t) \in DOMAIN w
          /\ u[i] = w[i - Len(t)] /\ u[j] = w[j - Len(t)]
      BY <1>2, <2>0, <2>3
    <3>2. i - Len(t) < j - Len(t)
      BY <2>0
    <3> QED
      BY <3>1, <3>2 DEF InOrder
  <2> QED
    BY <1>2, <1>3, <2>0, <2>1, <2>2, <2>3
<1>10. UpTo(s, m + 1) /\ UpTo(u, m + 1) /\ p.n <= m + 1
  BY <1>3, <1>4, <1>5, <1>6 DEF UpTo
<1> QED
  BY <1>7, <1>8, <1>9, <1>10 DEF Stream, u

-----------------------------------------------------------------------------
(* What the actions do to the parts of the state the invariant is about.   *)

\* The line that is run is one part or two of the chunk.
LEMMA LineOfChunk ==
    ASSUME NEW c \in Clients, Types, chunk[c] # <<>>
    PROVE  /\ LineLength(chunk[c]) \in 1..Len(chunk[c])
           /\ Len(TheLine(c)) = LineLength(chunk[c])
           /\ TheLine(c)[Len(TheLine(c))] = chunk[c][LineLength(chunk[c])]
           /\ TheLine(c)[1] = chunk[c][1] /\ chunk[c][1] \in Parts
           /\ TheRest(c) \in Seq(Parts)
<1> DEFINE s == chunk[c]
           l == LineLength(s)
<1>1. s \in Seq(Parts) /\ s # <<>>
  BY DEF Types
<1>2. Len(s) \in Nat /\ Len(s) >= 1
  BY <1>1
<1>3. l \in 1..Len(s)
  BY <1>2 DEF LineLength
<1>4. s[1] \in Parts
  BY <1>1, <1>2
<1> HIDE DEF s, l
<1>5. /\ Len(SubSeq(s, 1, l)) = l /\ SubSeq(s, l + 1, Len(s)) \in Seq(Parts)
      /\ \A i \in 1..l : SubSeq(s, 1, l)[i] = s[i]
  BY <1>1, <1>3, Cut
<1>6. 1 \in 1..l /\ l \in 1..l
  BY <1>2, <1>3
<1> QED
  BY <1>3, <1>4, <1>5, <1>6 DEF TheLine, TheRest, s, l

\* A step that runs a line, or begins to wait for ever in it.
Runs1(c) ==
    /\ tpc[c] = "exec" /\ Ran(c)
    /\ active' \in Devices \union {0} /\ lastSet' \in Devices \union {0}
    /\ UNCHANGED <<sent, unread, db>>
    /\ main' \in {main, IF main = "wait" THEN "woken" ELSE main} /\ signalled' \in {TRUE, signalled}

LEMMA RunSteps ==
    ASSUME Types, NEW c \in Clients,
           RunPiece(c) \/ RunDevSet(c) \/ RunRead(c) \/ RunDevNewDel(c) \/ RunDevices(c) \/ RunQuit(c)
    PROVE  Runs1(c)
<1> USE DEF Runs1, mainvars, Types
<1>1. CASE RunPiece(c)
  BY <1>1 DEF RunPiece
<1>2. CASE RunDevSet(c)
  <2>1. PICK r \in Requests : /\ Runs(c, r) /\ r.cmd = "dev-set" /\ Ran(c)
                              /\ \/ active' = r.dev /\ lastSet' = r.dev
                                 \/ UNCHANGED <<active, lastSet>>
    BY <1>2 DEF RunDevSet
  <2>2. r.dev \in Devices
    BY <2>1 DEF Requests
  <2> QED
    BY <1>2, <2>1, <2>2 DEF RunDevSet, Runs
<1>3. CASE RunRead(c)
  <2>1. PICK r \in Requests : /\ Runs(c, r) /\ r.cmd = "r" /\ Ran(c)
                              /\ active' \in IF r.dev = 0 THEN {active} ELSE {active, r.dev}
    BY <1>3 DEF RunRead
  <2>2. r.dev \in Devices \union {0}
    BY <2>1 DEF Requests
  <2> QED
    BY <1>3, <2>1, <2>2 DEF RunRead, Runs
<1>4. CASE RunDevNewDel(c)
  <2>1. PICK r \in Requests : /\ Runs(c, r) /\ Ran(c)
                              /\ \/ r.cmd = "dev-new" /\ active' \in {active, r.dev}
                                 \/ r.cmd = "dev-del" /\ active' \in {active, 0}
    BY <1>4 DEF RunDevNewDel
  <2>2. r.dev \in Devices \union {0}
    BY <2>1 DEF Requests
  <2> QED
    BY <1>4, <2>1, <2>2 DEF RunDevNewDel, Runs
<1>5. CASE RunDevices(c)
  BY <1>5 DEF RunDevices, Runs
<1>6. CASE RunQuit(c)
  BY <1>6 DEF RunQuit, Ran, Signal, Runs
<1> QED
  BY <1>1, <1>2, <1>3, <1>4, <1>5, <1>6

\* A step of main() or of a user: the threads go on as they were, but at the end.
MainStep ==
    /\ UNCHANGED <<sent, unread, chunk, ran, left, lastSet, iso, isoCtx>>
    /\ \/ UNCHANGED <<tpc, active>>
       \/ main = "init" /\ main' = "create" /\ active' \in Devices \union {0} /\ UNCHANGED tpc
       \/ tpc' = [c \in Clients |-> "gone"] /\ main' = "exited" /\ UNCHANGED active
    /\ main' \in {"start", "init", "create"} => main \in {"start", "init", "create"}
    /\ main' \in Serving \union {"woken", "freed", "exited"}
    /\ db' \in {"open", "freed"} /\ signalled' \in BOOLEAN

LEMMA MainSteps ==
    ASSUME Types, Main \/ SpuriousWakeup \/ UserSignal
    PROVE  MainStep
<1> USE DEF MainStep, MainGoes, shared, threads, Types, Serving
<1>1. CASE MainHandlers
  BY <1>1 DEF MainHandlers
<1>2. CASE MainInitFile
  BY <1>2 DEF MainInitFile
<1>3. CASE MainCreate \/ MainWaits
  BY <1>3 DEF MainCreate, MainWaits
<1>4. CASE MainFreesDb
  BY <1>4 DEF MainFreesDb
<1>5. CASE MainDeinit
  BY <1>5 DEF MainDeinit
<1>6. CASE SpuriousWakeup
  BY <1>6 DEF SpuriousWakeup
<1>7. CASE UserSignal
  BY <1>7 DEF UserSignal, Signal
<1> QED
  BY <1>1, <1>2, <1>3, <1>4, <1>5, <1>6, <1>7 DEF Main

\* Lines of other clients are newer, too.
LEMMA Later ==
    ASSUME NEW s \in Seq(Parts), NEW t \in Seq(Parts), NEW p \in Ranges, NEW m \in Nat,
           Stream(p, s, t, m)
    PROVE  Stream(p, s, t, m + 1)
<1>1. \A i \in DOMAIN s : s[i].n \in Nat /\ s[i].n <= m
  BY PartType DEF Stream, UpTo
<1>2. \A i \in DOMAIN t : t[i].n \in Nat /\ t[i].n <= m
  BY PartType DEF Stream, UpTo
<1>3. p.n \in Nat /\ p.n <= m
  BY DEF Stream, Ranges
<1>4. UpTo(s, m + 1) /\ UpTo(t, m + 1) /\ p.n <= m + 1
  BY <1>1, <1>2, <1>3 DEF UpTo
<1> QED
  BY <1>4 DEF Stream

-----------------------------------------------------------------------------
(* Each action keeps the invariant.                                        *)

\* Nothing is sent and no thread runs.
LEMMA InitInv == Init => Inv
<1> SUFFICES ASSUME Init PROVE Inv
  OBVIOUS
<1> USE DEF Init
<1>1. Types
  <2>1. 0 \in 0..MaxRequests
    BY ServerAssumption
  <2>2. ran \in [Clients -> Ranges]
    BY <2>1 DEF Ranges, PartNames
  <2>3. <<>> \in Seq(Parts)
    OBVIOUS
  <2>4. tpc \in [Clients -> States] /\ left \in [Clients -> SUBSET (Devices \union {0})]
    BY DEF States
  <2>5. unread \in [Clients -> Seq(Parts)] /\ chunk \in [Clients -> Seq(Parts)]
    BY <2>3
  <2> QED
    BY <2>1, <2>2, <2>4, <2>5 DEF Types, Serving
<1>2. Control
  BY DEF Control, MutexHeld, ChunkReady, Quiet, DeviceKept, AllocatorsIsolated, Holds
<1>3. Order
  BY DEF Order, Stream, Before, InOrder, UpTo
<1> QED
  BY <1>1, <1>2, <1>3 DEF Inv

\* A new thread has nothing to run.
LEMMA AcceptInv == ASSUME Inv, NEW c \in Clients, Accept(c) PROVE Inv'
<1> USE DEF Accept, Inv, shared, mainvars
<1>1. Types'
  BY DEF Types, States
<1>2. Control'
  BY DEF Types, Control, MutexHeld, ChunkReady, Quiet, DeviceKept, AllocatorsIsolated, Holds, Serving
<1>3. Order'
  BY DEF Order
<1> QED
  BY <1>1, <1>2, <1>3

\* The parts of a new line.
LEMMA NewParts ==
    ASSUME NEW n \in 1..MaxRequests, NEW r \in Requests, NEW parts \in Cuts
    PROVE  LET w == [i \in DOMAIN parts |-> [n |-> n, req |-> r, part |-> parts[i]]]
           IN  w \in Seq(Parts) /\ InOrder(w) /\ \A i \in DOMAIN w : w[i].n = n
<1> DEFINE w == [i \in DOMAIN parts |-> [n |-> n, req |-> r, part |-> parts[i]]]
<1>1. parts = <<"all">> \/ parts = <<"head", "tail">>
  BY ServerAssumption
<1>2. CASE parts = <<"all">>
  <2>1. DOMAIN w = 1..1 /\ w[1] = [n |-> n, req |-> r, part |-> "all"]
    BY <1>2
  <2>2. w[1] \in Parts
    BY <2>1 DEF Parts
  <2>3. w \in [1..1 -> Parts]
    BY <2>1, <2>2
  <2>4. w \in Seq(Parts)
    BY <2>3
  <2>5. InOrder(w)
    BY <2>1 DEF InOrder
  <2> QED
    BY <2>1, <2>4, <2>5
<1>3. CASE parts = <<"head", "tail">>
  <2>1. /\ DOMAIN w = 1..2 /\ w[1] = [n |-> n, req |-> r, part |-> "head"]
        /\ w[2] = [n |-> n, req |-> r, part |-> "tail"]
    BY <1>3
  <2>2. w[1] \in Parts /\ w[2] \in Parts
    BY <2>1 DEF Parts
  <2>3. w \in [1..2 -> Parts]
    BY <2>1, <2>2
  <2>4. w \in Seq(Parts)
    BY <2>3
  <2>5. Follows(w[1], w[2])
    BY <2>1 DEF Follows
  <2>6. InOrder(w)
    BY <2>1, <2>5 DEF InOrder
  <2>7. \A i \in DOMAIN w : w[i].n = n
    BY <2>1
  <2> QED
    BY <2>4, <2>6, <2>7
<1> QED
  BY <1>1, <1>2, <1>3

\* The new line goes to the end of its client's stream.
LEMMA ClientSendsInv == ASSUME Inv, NEW c \in Clients, ClientSends(c) PROVE Inv'
<1> USE DEF Inv, threads, shared, mainvars
<1>1. sent' = sent + 1 /\ sent' \in 1..MaxRequests /\ sent \in Nat
  BY ServerAssumption DEF Types, ClientSends
<1>2. PICK r \in Requests, parts \in Cuts :
        unread' = [unread EXCEPT ![c] =
            @ \o [i \in DOMAIN parts |-> [n |-> sent', req |-> r, part |-> parts[i]]]]
  BY DEF ClientSends
<1> DEFINE w == [i \in DOMAIN parts |-> [n |-> sent', req |-> r, part |-> parts[i]]]
<1>3. w \in Seq(Parts) /\ InOrder(w) /\ \A i \in DOMAIN w : w[i].n = sent + 1
  BY <1>1, NewParts
<1> HIDE DEF w
<1>4. unread' = [unread EXCEPT ![c] = @ \o w]
  BY <1>2 DEF w
<1>5. unread[c] \o w \in Seq(Parts)
  BY <1>3 DEF Types
<1>6. Types'
  <2>1. unread' \in [Clients -> Seq(Parts)]
    BY <1>4, <1>5 DEF Types
  <2>2. sent' \in 0..MaxRequests
    BY <1>1
  <2> QED
    BY <2>1, <2>2 DEF Types, ClientSends
<1>7. Control'
  BY DEF ClientSends, Control, MutexHeld, ChunkReady, Quiet, DeviceKept, AllocatorsIsolated, Holds
<1>8. Order'
  <2> SUFFICES ASSUME NEW d \in Clients PROVE Stream(ran[d], chunk[d], unread'[d], sent + 1)
    BY <1>1 DEF Order, ClientSends
  <2>1. /\ Stream(ran[d], chunk[d], unread[d], sent) /\ ran[d] \in Ranges
        /\ chunk[d] \in Seq(Parts) /\ unread[d] \in Seq(Parts)
    BY DEF Order, Types
  <2>2. CASE d = c
    <3>1. unread'[d] = unread[d] \o w
      BY <1>4, <2>2 DEF Types
    <3> QED
      BY <1>1, <1>3, <2>1, <3>1, SendStream
  <2>3. CASE d # c
    <3>1. unread'[d] = unread[d]
      BY <1>4, <2>3 DEF Types
    <3> QED
      BY <1>1, <2>1, <3>1, Later
  <2> QED
    BY <2>2, <2>3
<1> QED
  BY <1>6, <1>7, <1>8

\* The chunk is the beginning of what was unread.
LEMMA ReadInv == ASSUME Inv, NEW c \in Clients, Read(c) PROVE Inv'
<1> USE DEF Inv, shared, mainvars
<1>1. PICK n \in 1..Len(unread[c]) :
         /\ chunk' = [chunk EXCEPT ![c] = SubSeq(unread[c], 1, n)]
         /\ unread' = [unread EXCEPT ![c] = SubSeq(@, n + 1, Len(@))]
  BY DEF Read
<1>2. unread[c] \in Seq(Parts) /\ chunk[c] \in Seq(Parts) /\ n \in 0..Len(unread[c])
  BY DEF Types
<1>3. /\ SubSeq(unread[c], 1, n) \in Seq(Parts) /\ Len(SubSeq(unread[c], 1, n)) = n
      /\ SubSeq(unread[c], n + 1, Len(unread[c])) \in Seq(Parts)
  BY <1>2, Cut
<1>4. Types'
  <2>1. chunk' \in [Clients -> Seq(Parts)] /\ unread' \in [Clients -> Seq(Parts)]
    BY <1>1, <1>3 DEF Types
  <2> QED
    BY <2>1 DEF Types, Read, States
<1>5. Control'
  <2>1. SubSeq(unread[c], 1, n) # <<>>
    BY <1>3
  <2>2. \A d \in Clients : tpc'[d] = IF d = c THEN "lock" ELSE tpc[d]
    BY DEF Read, Types
  <2>3. ChunkReady'
    BY <1>1, <2>1, <2>2 DEF Types, Control, ChunkReady
  <2>4. MutexHeld' /\ Quiet'
    BY <2>2 DEF Read, Control, MutexHeld, Quiet, Holds
  <2>5. DeviceKept' /\ AllocatorsIsolated'
    BY <2>2 DEF Read, Control, DeviceKept, AllocatorsIsolated
  <2> QED
    BY <2>3, <2>4, <2>5 DEF Control
<1>6. Order'
  <2> SUFFICES ASSUME NEW d \in Clients PROVE Stream(ran[d], chunk'[d], unread'[d], sent)
    BY DEF Order, Read
  <2>1. Stream(ran[d], chunk[d], unread[d], sent)
    BY DEF Order
  <2>2. CASE d = c
    <3>1. /\ chunk'[d] = SubSeq(unread[d], 1, n)
          /\ unread'[d] = SubSeq(unread[d], n + 1, Len(unread[d]))
      BY <1>1, <2>2 DEF Types
    <3> QED
      BY <1>2, <2>1, <2>2, <3>1, ReadStream
  <2>3. CASE d # c
    BY <1>1, <2>1, <2>3 DEF Types
  <2> QED
    BY <2>2, <2>3
<1> QED
  BY <1>4, <1>5, <1>6

LEMMA ReadsEndInv == ASSUME Inv, NEW c \in Clients, ReadsEnd(c) PROVE Inv'
<1> USE DEF ReadsEnd, Inv, shared, mainvars
<1>1. Types'
  BY DEF Types, States
<1>2. Control'
  BY DEF Types, Control, MutexHeld, ChunkReady, Quiet, DeviceKept, AllocatorsIsolated, Holds
<1>3. Order'
  BY DEF Order
<1> QED
  BY <1>1, <1>2, <1>3

\* iso_mutex was free: no other thread is in a chunk.
LEMMA LockInv == ASSUME Inv, NEW c \in Clients, Lock(c) PROVE Inv'
<1> USE DEF Lock, Inv, mainvars
<1>1. Types'
  BY DEF Types, States
<1>2. \A d \in Clients : ~Holds(d)
  BY ServerAssumption DEF Control, MutexHeld
<1>3. Control'
  BY <1>2 DEF Types, Control, MutexHeld, ChunkReady, Quiet, DeviceKept, AllocatorsIsolated, Holds
<1>4. Order'
  BY DEF Order
<1> QED
  BY <1>1, <1>3, <1>4

\* The context is changed by the owner of iso_mutex only.
LEMMA StartLineInv == ASSUME Inv, NEW c \in Clients, StartLine(c) PROVE Inv'
<1> USE DEF StartLine, Inv, mainvars
<1>1. Types'
  BY DEF Types, States
<1>2. \A d \in Clients : Holds(d) => d = c
  BY DEF Control, MutexHeld, Holds
<1>3. Control'
  BY <1>2 DEF Types, Control, MutexHeld, ChunkReady, Quiet, DeviceKept, AllocatorsIsolated, Holds
<1>4. Order'
  BY DEF Order
<1> QED
  BY <1>1, <1>3, <1>4

\* A line is run: the device it left active is the one to keep.
LEMMA FinishedInv == ASSUME Inv, NEW c \in Clients, Runs1(c), Finished(c) PROVE Inv'
<1> USE DEF Inv, Runs1
<1> DEFINE l == LineLength(chunk[c])
<1>1. chunk[c] # <<>> /\ chunk[c] \in Seq(Parts) /\ unread[c] \in Seq(Parts)
  BY DEF Control, ChunkReady, Types
<1>2. /\ l \in 1..Len(chunk[c])
      /\ TheLine(c)[Len(TheLine(c))] = chunk[c][l]
      /\ TheRest(c) \in Seq(Parts) /\ TheRest(c) = SubSeq(chunk[c], l + 1, Len(chunk[c]))
  BY <1>1, LineOfChunk DEF TheRest
<1> HIDE DEF l
<1>3. /\ ran' = [ran EXCEPT ![c] = [n |-> chunk[c][l].n, part |-> chunk[c][l].part]]
      /\ isoCtx' = "free"
      /\ chunk' = [chunk EXCEPT ![c] = TheRest(c)]
      /\ chunk'[c] = TheRest(c)
      /\ \/ iso' = "free" /\ tpc' = [tpc EXCEPT ![c] = "read"] /\ left' = [left EXCEPT ![c] = {}]
         \/ /\ TheRest(c) # <<>> /\ iso' = iso /\ tpc' = [tpc EXCEPT ![c] = "line"]
            /\ left' = [left EXCEPT ![c] = {active'}]
  BY <1>2 DEF Finished, Continue, Types
<1>4. [n |-> chunk[c][l].n, part |-> chunk[c][l].part] \in Ranges
  BY <1>1, <1>2, PartType DEF Ranges
<1>5. Types'
  <2>1. ran' \in [Clients -> Ranges] /\ chunk' \in [Clients -> Seq(Parts)]
    BY <1>2, <1>3, <1>4 DEF Types
  <2>2. left' \in [Clients -> SUBSET (Devices \union {0})]
    <3> DEFINE D == Devices \union {0}
    <3>1. active' \in D /\ left \in [Clients -> SUBSET D]
      BY DEF Types
    <3>2. {active'} \in SUBSET D /\ {} \in SUBSET D
      BY <3>1
    <3> HIDE DEF D
    <3>3. left' \in [Clients -> SUBSET D]
      BY <1>3, <3>1, <3>2
    <3> QED
      BY <3>3 DEF D
  <2>3. tpc' \in [Clients -> States] /\ iso' \in Clients \union {"free"}
    BY <1>3 DEF Types, States
  <2> QED
    BY <1>3, <2>1, <2>2, <2>3 DEF Types, Serving
<1>6. \A d \in Clients : Holds(d) => d = c
  BY DEF Control, MutexHeld, Holds
<1>7. tpc'[c] \in {"read", "line"} /\ \A d \in Clients \ {c} : tpc'[d] = tpc[d] /\ ~Holds(d)
  BY <1>3, <1>6 DEF Types
<1>8. MutexHeld' /\ ChunkReady' /\ AllocatorsIsolated'
  BY <1>3, <1>7 DEF Types, Control, MutexHeld, ChunkReady, AllocatorsIsolated, Holds
<1>9. Quiet'
  BY DEF Control, Quiet
<1>10. DeviceKept'
  <2> SUFFICES ASSUME NEW d \in Clients
               PROVE  /\ tpc'[d] \in {"none", "read", "lock"} => left'[d] = {}
                      /\ tpc'[d] \in {"line", "exec"} /\ left'[d] # {} => active' \in left'[d]
    BY DEF DeviceKept
  <2>1. CASE d # c
    BY <1>3, <1>7, <2>1 DEF Types, Control, DeviceKept, Holds
  <2>2. CASE d = c
    BY <1>3, <2>2 DEF Types
  <2> QED
    BY <2>1, <2>2
<1>11. Order'
  <2> SUFFICES ASSUME NEW d \in Clients PROVE Stream(ran'[d], chunk'[d], unread[d], sent)
    BY DEF Order
  <2>1. Stream(ran[d], chunk[d], unread[d], sent)
    BY DEF Order
  <2>2. CASE d = c
    <3>1. ran'[d] = [n |-> chunk[d][l].n, part |-> chunk[d][l].part]
      BY <1>3, <2>2 DEF Types
    <3>2. chunk'[d] = SubSeq(chunk[d], l + 1, Len(chunk[d]))
      BY <1>2, <1>3, <2>2
    <3> QED
      BY <1>1, <1>2, <2>1, <2>2, <3>1, <3>2, RunStream
  <2>3. CASE d # c
    BY <1>3, <2>1, <2>3 DEF Types
  <2> QED
    BY <2>2, <2>3
<1> QED
  BY <1>5, <1>8, <1>9, <1>10, <1>11 DEF Control

\* A line that waits for ever keeps iso_mutex.
LEMMA BlocksInv == ASSUME Inv, NEW c \in Clients, Runs1(c), Blocks(c) PROVE Inv'
<1> USE DEF Inv, Runs1, Blocks
<1>1. Types'
  BY DEF Types, States, Serving
<1>2. \A d \in Clients : Holds(d) => d = c
  BY DEF Control, MutexHeld, Holds
<1>3. MutexHeld' /\ ChunkReady' /\ AllocatorsIsolated'
  BY DEF Types, Control, MutexHeld, ChunkReady, AllocatorsIsolated, Holds
<1>4. Quiet'
  BY DEF Control, Quiet
<1>5. DeviceKept'
  BY <1>2 DEF Types, Control, DeviceKept, Holds
<1>6. Order'
  BY DEF Order
<1> QED
  BY <1>1, <1>3, <1>4, <1>5, <1>6 DEF Control

\* main() touches what the threads use before there are threads only.
LEMMA MainInv == ASSUME Inv, MainStep PROVE Inv'
<1> USE DEF Inv, MainStep
<1>1. Types'
  BY DEF Types, States
<1>2. ASSUME UNCHANGED <<tpc, active>> PROVE Control'
  BY <1>2 DEF Control, MutexHeld, ChunkReady, Quiet, DeviceKept, AllocatorsIsolated, Holds
<1>3. ASSUME main = "init", main' = "create", UNCHANGED tpc PROVE Control'
  BY <1>3 DEF Control, MutexHeld, ChunkReady, Quiet, DeviceKept, AllocatorsIsolated, Holds
<1>4. ASSUME tpc' = [c \in Clients |-> "gone"], main' = "exited", UNCHANGED active PROVE Control'
  BY <1>4 DEF Control, MutexHeld, ChunkReady, Quiet, DeviceKept, AllocatorsIsolated, Holds
<1>5. Order'
  BY DEF Order
<1> QED
  BY <1>1, <1>2, <1>3, <1>4, <1>5 DEF Control

LEMMA NextInv == Inv /\ [Next]_vars => Inv'
<1>1. ASSUME Inv, NEW c \in Clients, Thread(c) PROVE Inv'
  <2>1. CASE \/ RunPiece(c) \/ RunDevSet(c) \/ RunRead(c)
             \/ RunDevNewDel(c) \/ RunDevices(c) \/ RunQuit(c)
    <3>1. Runs1(c)
      BY <1>1, <2>1, RunSteps DEF Inv
    <3> QED
      BY <1>1, <3>1, FinishedInv, BlocksInv DEF Runs1, Ran
  <2> QED
    BY <1>1, <2>1, ReadInv, LockInv, StartLineInv DEF Thread
<1>2. ASSUME Inv, Main \/ SpuriousWakeup \/ UserSignal PROVE Inv'
  <2>1. Types
    BY <1>2 DEF Inv
  <2> QED
    BY <1>2, <2>1, MainSteps, MainInv
<1>3. ASSUME Inv, UNCHANGED vars PROVE Inv'
  BY <1>3 DEF vars, threads, shared, mainvars, Inv, Types, Control, MutexHeld, ChunkReady, Quiet,
              DeviceKept, AllocatorsIsolated, Holds, Order
<1> QED
  BY <1>1, <1>2, <1>3, AcceptInv, ClientSendsInv, ReadsEndInv DEF Next

-----------------------------------------------------------------------------
(* Theorems.                                                               *)

\* iso_mutex belongs to the thread that runs lines or waits in one, what a line has
\* left active is active when the next begins, and a stream is in order
\* (dterm_socket_clithread).
THEOREM Invariance == Spec => []Inv
<1> QED
  BY InitInv, NextInv, PTL DEF Spec

\* No variable leaves its type.
THEOREM TypeCorrect == Spec => []TypeOK
<1>1. Inv => TypeOK
  BY DEF Inv, Types, TypeOK, States, Ranges, PartNames
<1> QED
  BY <1>1, Invariance, PTL

\* The allocators have the context of the client whose command runs, for all of
\* the command (sub_proc_lineinput).
THEOREM AllocatorsAreOwn == Spec => []AllocatorsIsolated
<1>1. Inv => AllocatorsIsolated
  BY DEF Inv, Control
<1> QED
  BY <1>1, Invariance, PTL

\* Whatever the commands of the clients do to the active device, none of another
\* client changes it between two lines of a communication.
THEOREM DeviceIsKept == Spec => []BatchKeepsDevice
<1>1. Inv => BatchKeepsDevice
  BY DEF Inv, Control, DeviceKept, BatchKeepsDevice
<1> QED
  BY <1>1, Invariance, PTL

\* Lines are run in the order in which they were sent, and nothing of a line is
\* run twice, for every way to cut the stream.
THEOREM RunsInOrder == Spec => []RunOnceInOrder
<1>1. Inv => RunOnceInOrder
  <2> SUFFICES ASSUME Inv, NEW c \in Clients, tpc[c] = "exec"
               PROVE  Follows(ran[c], TheLine(c)[1])
    BY DEF RunOnceInOrder, Follows
  <2>1. chunk[c] # <<>> /\ chunk[c] \in Seq(Parts) /\ Before(ran[c], chunk[c])
    BY DEF Inv, Control, ChunkReady, Types, Order, Stream
  <2>2. TheLine(c)[1] = chunk[c][1]
    BY <2>1, LineOfChunk DEF Inv
  <2>3. 1 \in DOMAIN chunk[c]
    BY <2>1
  <2> QED
    BY <2>1, <2>2, <2>3 DEF Before
<1> QED
  BY <1>1, Invariance, PTL

=============================================================================
