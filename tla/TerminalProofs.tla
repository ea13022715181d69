-------------------------- MODULE TerminalProofs --------------------------
(***************************************************************************)
(* What the terminal promises of iso_mutex and of the line buffer, for any *)
(* size of the line and of the ring, any names and files, and any number   *)
(* of keys; and of the cursors of the history, for any ring of at least    *)
(* two characters.                                                         *)
(***************************************************************************)
EXTENDS Terminal, FiniteSetTheorems, SequenceTheorems, TLAPS

-----------------------------------------------------------------------------
(* iso_mutex.                                                              *)

Starting == {"start", "init", "cmdfile", "ready"}

\* The mutex has the owner that the prompt says, and there is no thread before
\* main() has made it.
Mutex == PromptHoldsMutex /\ (main \in Starting => pc = "none")

\* main() up to the thread, and its end.
LEMMA MainMutex ==
    ASSUME Mutex,
           \/ dterm_open \/ CmdFileFails \/ CmdFileStarts \/ CmdFileLine \/ CmdFileEnds
           \/ CreateThread \/ MainWaits \/ MainEnds
    PROVE  Mutex'
<1>1. CASE dterm_open \/ CmdFileFails \/ MainWaits \/ CmdFileLine
  BY <1>1 DEF dterm_open, CmdFileFails, MainWaits, CmdFileLine, prompt, Mutex, PromptHoldsMutex, Starting
<1>2. CASE CmdFileStarts \/ CmdFileEnds
  BY <1>2 DEF CmdFileStarts, CmdFileEnds, Mutex, PromptHoldsMutex, Starting
<1>3. CASE CreateThread \/ MainEnds
  BY <1>3 DEF CreateThread, MainEnds, Mutex, PromptHoldsMutex, Starting
<1> QED
  BY <1>1, <1>2, <1>3

\* The keys of the prompt, the end of a command, and the piper.
LEMMA ThreadMutex ==
    ASSUME Mutex,
           \/ KeyIgnored \/ EscOpens \/ EscCloses \/ KeySigint \/ KeySigquit \/ KeyDelete \/ KeyOther
           \/ KeyTab \/ KeyArrow \/ KeyEnter \/ RunEnds \/ PrompterEnds
           \/ \E c \in Chars : KeyChar(c)
           \/ PiperRead \/ PiperLine \/ PiperEnds
    PROVE  Mutex'
<1>1. CASE KeyIgnored \/ KeyDelete \/ KeyTab \/ KeyArrow \/ \E c \in Chars : KeyChar(c)
  <2>1. UNCHANGED <<main, pc, state, iso>>
    BY <1>1 DEF KeyIgnored, KeyDelete, KeyTab, KeyArrow, KeyChar, Keeps
  <2> QED
    BY <2>1 DEF Mutex, PromptHoldsMutex
<1>2. CASE EscOpens \/ EscCloses \/ KeyOther
  BY <1>2 DEF EscOpens, EscCloses, KeyOther, Key, Keeps, Mutex, PromptHoldsMutex, Starting
<1>3. CASE KeySigint \/ KeySigquit \/ PrompterEnds
  BY <1>3 DEF KeySigint, KeySigquit, PrompterEnds, Key, Raise, Mutex, PromptHoldsMutex, Starting
<1>4. CASE KeyEnter
  BY <1>4 DEF KeyEnter, Key, Mutex, PromptHoldsMutex, Starting
<1>5. CASE RunEnds
  BY <1>5 DEF RunEnds, Raise, Mutex, PromptHoldsMutex, Starting
<1>6. CASE PiperRead \/ PiperLine \/ PiperEnds
  BY <1>6 DEF PiperRead, PiperLine, PiperEnds, Raise, prompt, Mutex, PromptHoldsMutex, Starting
<1> QED
  BY <1>1, <1>2, <1>3, <1>4, <1>5, <1>6

\* iso_mutex belongs to the prompt from ESC to the end of the command, and before
\* that to the command file as long as it runs: dterm_prompter(), dterm_cmdfile().
THEOREM PromptIsolated == Spec => []PromptHoldsMutex
<1>1. Init => Mutex
  BY DEF Init, Mutex, PromptHoldsMutex, Starting
<1>2. Mutex /\ [Next]_vars => Mutex'
  <2> SUFFICES ASSUME Mutex, [Next]_vars PROVE Mutex'
    OBVIOUS
  <2>1. CASE UNCHANGED vars
    BY <2>1 DEF vars, prompt, Mutex, PromptHoldsMutex
  <2>2. CASE Next
    BY <2>2, MainMutex, ThreadMutex DEF Next
  <2> QED
    BY <2>1, <2>2
<1>3. Mutex => PromptHoldsMutex
  BY DEF Mutex
<1> QED
  BY <1>1, <1>2, <1>3, PTL DEF Spec

-----------------------------------------------------------------------------
(* The line buffer and loadbuf.                                            *)

\* A line is looked for in what read() has returned.
ReadOK == pc = "line" => loadlen >= -1
Buffers == BuffersOK /\ ReadOK /\ OneStaleChar

\* A string of the history has a length.
LEMMA Offered == ASSUME NEW h PROVE Len(Command(h)) \in Nat
<1> DEFINE told == {i \in Ring : /\ h.start + i < HistSize
                                 /\ \A j \in 0..i : h.ring[h.start + j] # NUL}
           n == Cardinality(told)
           m == IF h.start + n < HistSize THEN n ELSE n + 1
<1>1. IsFiniteSet(Ring)
  BY TerminalAssumption, FS_Interval DEF Ring
<1>2. n \in Nat
  <2>1. IsFiniteSet(told)
    BY <1>1, FS_Subset
  <2> QED
    BY <2>1, FS_CardinalityType
<1> HIDE DEF n
<1>3. m \in Nat
  BY <1>2
<1>4. Command(h) = [i \in 1..m |-> IF h.start + i - 1 < HistSize THEN h.ring[h.start + i - 1] ELSE "?"]
  BY DEF Command, n
<1> HIDE DEF m
<1> QED
  BY <1>3, <1>4

\* dterm_putcmd() puts all of a string or nothing.
LEMMA PutIsLine ==
    ASSUME NEW b, DOMAIN b = 0..(LineSize - 1), NEW n \in 0..LineSize, NEW s, Len(s) \in Nat,
           \A i \in DOMAIN b : i > n => b[i] = NUL
    PROVE  /\ DOMAIN PutAt(b, n, s) = 0..(LineSize - 1) /\ LenAfter(n, s) \in 0..LineSize
           /\ \A i \in DOMAIN PutAt(b, n, s) : i > LenAfter(n, s) => PutAt(b, n, s)[i] = NUL
<1>1. LineSize \in Nat
  BY TerminalAssumption
<1>2. CASE Fits(n, s)
  <2>1. /\ LenAfter(n, s) = n + Len(s) /\ n + Len(s) <= LineSize
        /\ PutAt(b, n, s) = [i \in 0..(LineSize - 1) |-> IF i \in n..(n + Len(s) - 1) THEN s[i - n + 1] ELSE b[i]]
    BY <1>2 DEF Fits, LenAfter, PutAt
  <2>2. ASSUME NEW i \in 0..(LineSize - 1), i > n + Len(s) PROVE PutAt(b, n, s)[i] = NUL
    <3>1. i \notin n..(n + Len(s) - 1) /\ i > n
      BY <2>2
    <3> QED
      BY <2>1, <3>1
  <2>3. DOMAIN PutAt(b, n, s) = 0..(LineSize - 1)
    BY <2>1
  <2>4. LenAfter(n, s) \in 0..LineSize
    BY <1>1, <2>1
  <2> QED
    BY <2>1, <2>2, <2>3, <2>4
<1>3. CASE ~Fits(n, s)
  BY <1>3 DEF LenAfter, PutAt
<1> QED
  BY <1>2, <1>3

\* dterm_remln() and dterm_putsc().
LEMMA ReplaceIsLine ==
    ASSUME NEW s, Len(s) \in Nat, Replace(s)
    PROVE  /\ DOMAIN linebuf' = 0..(LineSize - 1) /\ linelen' \in 0..LineSize
           /\ \A i \in DOMAIN linebuf' : i > linelen' => linebuf'[i] = NUL
<1>1. DOMAIN Blank = 0..(LineSize - 1) /\ \A i \in DOMAIN Blank : Blank[i] = NUL
  BY DEF Blank
<1>2. 0 \in 0..LineSize
  BY TerminalAssumption
<1> QED
  BY <1>1, <1>2, PutIsLine DEF Replace

\* The line and what is behind it, after a step that does not touch the piper.
LineOK == /\ DOMAIN linebuf = 0..(LineSize - 1) /\ linelen \in 0..LineSize
          /\ \A i \in DOMAIN linebuf : i > linelen => linebuf[i] = NUL

LEMMA LineStep ==
    ASSUME Buffers, LineOK', UNCHANGED pipe, pc' = "line" => pc = "line"
    PROVE  Buffers'
<1>1. UNCHANGED <<pos, loadlen, closed>>
  BY DEF pipe
<1> QED
  BY <1>1 DEF Buffers, BuffersOK, ReadOK, OneStaleChar, LineOK

LEMMA Reset == ASSUME dterm_reset PROVE LineOK'
  BY TerminalAssumption DEF dterm_reset, Blank, LineOK

\* main() leaves the buffers alone.
LEMMA MainBuffers ==
    ASSUME Buffers,
           \/ dterm_open \/ CmdFileFails \/ CmdFileStarts \/ CmdFileLine \/ CmdFileEnds
           \/ CreateThread \/ MainWaits \/ MainEnds \/ UNCHANGED vars
    PROVE  Buffers'
<1>1. UNCHANGED <<linebuf, linelen>> /\ UNCHANGED pipe
  BY DEF dterm_open, CmdFileFails, CmdFileStarts, CmdFileLine, CmdFileEnds, CreateThread, MainWaits,
         MainEnds, vars, prompt
<1>2. pc' = "line" => pc = "line"
  BY DEF dterm_open, CmdFileFails, CmdFileStarts, CmdFileLine, CmdFileEnds, CreateThread, MainWaits,
         MainEnds, vars
<1>3. LineOK'
  BY <1>1 DEF Buffers, BuffersOK, OneStaleChar, LineOK
<1> QED
  BY <1>1, <1>2, <1>3, LineStep

\* The keys that leave the line, reset it, or change it.
LEMMA KeyBuffers ==
    ASSUME Buffers,
           \/ KeyIgnored \/ EscOpens \/ EscCloses \/ KeySigint \/ KeySigquit \/ KeyDelete \/ KeyOther
           \/ KeyTab \/ KeyArrow \/ KeyEnter \/ RunEnds \/ PrompterEnds
           \/ \E c \in Chars : KeyChar(c)
    PROVE  Buffers'
<1>1. UNCHANGED pipe
  BY DEF KeyIgnored, EscOpens, EscCloses, KeySigint, KeySigquit, KeyDelete, KeyOther, KeyTab, KeyArrow, KeyEnter,
         RunEnds, PrompterEnds, KeyChar, Key
<1>2. pc' = "line" => pc = "line"
  BY DEF KeyIgnored, EscOpens, EscCloses, KeySigint, KeySigquit, KeyDelete, KeyOther, KeyTab, KeyArrow,
         KeyEnter, RunEnds, PrompterEnds, KeyChar, Keeps
<1>3. LineOK
  BY DEF Buffers, BuffersOK, OneStaleChar, LineOK
<1>4. Same => LineOK'
  BY <1>3 DEF Same, LineOK
<1>5. dterm_reset => LineOK'
  BY Reset
<1>6. ASSUME NEW c \in Chars, KeyChar(c) PROVE LineOK'
  <2>1. Len(<<c>>) \in Nat
    OBVIOUS
  <2> QED
    BY <1>3, <1>6, <2>1, PutIsLine DEF KeyChar, LineOK
<1>7. ASSUME KeyDelete, ~Same PROVE LineOK'
  <2>1. /\ linelen > 0 /\ linelen' = linelen - 1
        /\ linebuf' = [i \in DOMAIN linebuf |-> IF i = linelen THEN NUL ELSE linebuf[i]]
    BY <1>7 DEF KeyDelete
  <2>2. LineSize \in Nat
    BY TerminalAssumption
  <2> QED
    BY <1>3, <2>1, <2>2 DEF LineOK
<1>8. ASSUME KeyTab, ~Same PROVE LineOK'
  <2>1. PICK name \in Names : Replace(name)
    BY <1>8 DEF KeyTab
  <2>2. Len(name) \in Nat
    BY TerminalAssumption
  <2> QED
    BY <2>1, <2>2, ReplaceIsLine DEF LineOK
<1>9. ASSUME KeyArrow, ~Same PROVE LineOK'
  <2>1. PICK h \in {ch_prev(hist), ch_next(hist)} : Replace(Command(h))
    BY <1>9 DEF KeyArrow
  <2> QED
    BY <2>1, Offered, ReplaceIsLine DEF LineOK
<1>10. LineOK'
  BY <1>4, <1>5, <1>6, <1>7, <1>8, <1>9
     DEF KeyIgnored, EscOpens, EscCloses, KeySigint, KeySigquit, KeyOther, KeyEnter, RunEnds, PrompterEnds
<1> QED
  BY <1>1, <1>2, <1>10, LineStep

\* The piper reads, hands on what it has read, and ends.
LEMMA PiperBuffers ==
    ASSUME Buffers, PiperRead \/ PiperLine \/ PiperEnds
    PROVE  Buffers'
<1>1. LineSize \in Nat \ {0} /\ loadlen \in (-LineSize - 2)..LineSize /\ pos \in Nat /\ closed \in BOOLEAN
  BY TerminalAssumption DEF Buffers, BuffersOK
<1>2. CASE PiperRead
  <2>1. LineOK'
    BY <1>2, Reset DEF PiperRead
  <2>2. loadlen' \in (-LineSize - 2)..LineSize /\ pos' = pos
    <3>1. loadlen' \in -1..LineSize /\ pos' = pos
      BY <1>2 DEF PiperRead
    <3> QED
      BY <1>1, <3>1
  <2>3. closed' \in BOOLEAN
    BY <1>2 DEF PiperRead
  <2>4. loadlen' >= -1
    <3>1. loadlen' \in -1..LineSize
      BY <1>2 DEF PiperRead
    <3> QED
      BY <1>1, <3>1
  <2> QED
    BY <1>1, <2>1, <2>2, <2>3, <2>4 DEF Buffers, BuffersOK, ReadOK, OneStaleChar, LineOK
<1>3. CASE PiperLine
  <2>1. PICK len \in Lengths : loadlen' = loadlen - (len + 1) /\ pos' = pos + len + 1
    BY <1>3 DEF PiperLine
  <2>2. UNCHANGED closed /\ UNCHANGED <<linebuf, linelen>>
    BY <1>3 DEF PiperLine, prompt
  <2>3. len \in Nat /\ len <= IF loadlen > 0 THEN loadlen ELSE LineSize
    BY <1>1 DEF Lengths
  <2>4. loadlen' \in (-LineSize - 2)..LineSize /\ pos' \in Nat
    <3>1. CASE loadlen > 0
      BY <1>1, <2>1, <2>3, <3>1
    <3>2. CASE ~ (loadlen > 0)
      <4>1. loadlen \in {-1, 0}
        BY <1>1, <1>3, <3>2 DEF PiperLine, Buffers, ReadOK
      <4> QED
        BY <1>1, <2>1, <2>3, <3>2, <4>1
    <3> QED
      BY <3>1, <3>2
  <2>5. pc' = "line" => loadlen' >= -1
    BY <1>1, <1>3, <2>4 DEF PiperLine
  <2> QED
    BY <1>1, <2>2, <2>4, <2>5 DEF Buffers, BuffersOK, ReadOK, OneStaleChar
<1>4. CASE PiperEnds
  BY <1>4 DEF PiperEnds, prompt, pipe, Buffers, BuffersOK, ReadOK, OneStaleChar
<1> QED
  BY <1>2, <1>3, <1>4

\* The line keeps to its buffer, whatever keys are used and whatever the pipe gives:
\* dterm_putcmd(), dterm_remc(), dterm_piper().
LEMMA BuffersInvariant == Spec => []Buffers
<1>1. Init => Buffers
  <2> SUFFICES ASSUME Init PROVE Buffers
    OBVIOUS
  <2>1. LineSize \in Nat
    BY TerminalAssumption
  <2>2. DOMAIN Blank = 0..(LineSize - 1) /\ \A i \in DOMAIN Blank : Blank[i] = NUL
    BY DEF Blank
  <2>3. 0 \in (-LineSize - 2)..LineSize /\ 0 \in 0..LineSize
    BY <2>1
  <2>4. BuffersOK
    BY <2>2, <2>3 DEF Init, BuffersOK
  <2> QED
    BY <2>2, <2>4 DEF Init, Buffers, ReadOK, OneStaleChar
<1>2. Buffers /\ [Next]_vars => Buffers'
  <2> SUFFICES ASSUME Buffers, [Next]_vars PROVE Buffers'
    OBVIOUS
  <2> QED
    BY MainBuffers, KeyBuffers, PiperBuffers DEF Next
<1> QED
  BY <1>1, <1>2, PTL DEF Spec

\* The line never grows past LINESIZE, and the piper never has more left to run than one
\* read() gives, also when the read fails.  Its loadbuf has no bound.
THEOREM BuffersHold == Spec => []BuffersOK
<1>1. Buffers => BuffersOK
  BY DEF Buffers
<1> QED
  BY <1>1, BuffersInvariant, PTL

\* Behind the cursor of the line at most one character is left of an older line,
\* the one that dterm_remc() deleted last.
THEOREM LineIsClean == Spec => []OneStaleChar
<1>1. Buffers => OneStaleChar
  BY DEF Buffers
<1> QED
  BY <1>1, BuffersInvariant, PTL

-----------------------------------------------------------------------------
(* The history.  ch_inc() returns its argument except at the end of the    *)
(* ring, so that all cursors stay where they begin and the ring holds one  *)
(* character, the first of the line that was added last.                   *)

\* A set of naturals has a least element.
LEMMA LeastOf ==
    ASSUME NEW S \in SUBSET Nat, S # {}
    PROVE  \E m \in S : \A k \in S : m <= k
<1> DEFINE R == {ss \in Nat \X Nat : ss[1] < ss[2]}
<1>1. IsWellFoundedOn(R, Nat)
  BY NatLessThanWellFounded DEF OpToRel
<1>2. PICK m \in S : \A k \in S : <<k, m>> \notin R
  BY <1>1, WFMin
<1>3. ASSUME NEW k \in S PROVE m <= k
  <2>1. <<k, m>> \notin R /\ <<k, m>> \in Nat \X Nat
    BY <1>2
  <2> QED
    BY <2>1
<1> QED
  BY <1>3

\* A set of naturals with 0 and the successor of each is all of them.
LEMMA Induction ==
    ASSUME NEW P \in SUBSET Nat, 0 \in P, \A n \in P : n + 1 \in P
    PROVE  P = Nat
<1>1. SUFFICES ASSUME Nat \ P # {} PROVE FALSE
  OBVIOUS
<1>2. PICK m \in Nat \ P : \A k \in Nat \ P : m <= k
  BY <1>1, LeastOf
<1>3. m # 0 /\ m - 1 \in Nat /\ ~ (m <= m - 1) /\ (m - 1) + 1 = m
  BY <1>2
<1>4. m - 1 \in P
  BY <1>2, <1>3
<1> QED
  BY <1>2, <1>3, <1>4

\* A ring with the character c at its beginning and no other.
History(ring, n) == [ring |-> ring, put |-> 0, start |-> 0, end |-> 0, count |-> n]
Cells(c) == [i \in Ring |-> IF i = 0 THEN c ELSE NUL]
OneChar(c, n) == History(Cells(c), n)
WithChar(h, c) == [h EXCEPT !.ring[0] = c, !.put = 0]

\* The parts of such a history, and what changes of them leave.
LEMMA HistoryParts ==
    ASSUME NEW ring, NEW n, NEW h, h = History(ring, n)
    PROVE  /\ h.ring = ring /\ h.put = 0 /\ h.start = 0 /\ h.end = 0 /\ h.count = n
           /\ [h EXCEPT !.put = 0] = h /\ [h EXCEPT !.start = 0] = h /\ [h EXCEPT !.end = 0] = h
           /\ \A m : [h EXCEPT !.count = m] = History(ring, m)
           /\ \A other : [h EXCEPT !.ring = other] = History(other, n)
<1>1. h = [ring |-> ring, put |-> 0, start |-> 0, end |-> 0, count |-> n]
  BY DEF History
<1>2. h.ring = ring /\ h.put = 0 /\ h.start = 0 /\ h.end = 0 /\ h.count = n
  BY <1>1
<1>3. [h EXCEPT !.put = 0] = h
  BY <1>1
<1>4. [h EXCEPT !.start = 0] = h
  BY <1>1
<1>5. [h EXCEPT !.end = 0] = h
  BY <1>1
<1>6. \A m : [h EXCEPT !.count = m] = History(ring, m)
  BY <1>1 DEF History
<1>7. \A other : [h EXCEPT !.ring = other] = History(other, n)
  BY <1>1 DEF History
<1> QED
  BY <1>2, <1>3, <1>4, <1>5, <1>6, <1>7

\* The ring of such a history.
LEMMA CellParts ==
    ASSUME NEW c
    PROVE  /\ DOMAIN Cells(c) = Ring /\ Cells(c)[0] = c
           /\ \A i \in Ring : i # 0 => Cells(c)[i] = NUL
           /\ \A y : [Cells(c) EXCEPT ![0] = y] = Cells(y)
           /\ \A f : DOMAIN f = Ring /\ f = [i \in Ring |-> IF i = 0 THEN c ELSE NUL] => f = Cells(c)
<1>1. 0 \in Ring
  BY TerminalAssumption DEF Ring
<1> QED
  BY <1>1 DEF Cells

\* The places of the ring and the steps between them.
LEMMA RingSteps ==
    /\ 0 \in Ring /\ HistSize - 1 \in Ring /\ HistSize - 1 # 0
    /\ ch_inc(0) = 0 /\ ch_dec(0) = HistSize - 1
    /\ \A c \in Ring : ch_inc(c) \in {0, c} /\ ch_dec(c) \in Ring
BY TerminalAssumption DEF Ring, ch_inc, ch_dec

\* ch_remove() clears one character.
LEMMA ClearOne ==
    ASSUME NEW ring, DOMAIN ring = Ring
    PROVE  Clear(ring, 0) = [c \in Ring |-> IF c = 0 THEN NUL ELSE ring[c]]
<1> DEFINE Fixed(f) == f = [c \in Ring |-> {c} \cup IF ch_inc(c) \in {0, c} \/ ring[ch_inc(c)] = NUL
                                                    THEN {} ELSE f[ch_inc(c)]]
           cells == CHOOSE f : Fixed(f)
<1>1. Fixed([c \in Ring |-> {c}])
  BY RingSteps
<1>2. Fixed(cells)
  BY <1>1
<1>3. cells[0] = {0}
  BY <1>2, RingSteps
<1>4. Clear(ring, 0) = [c \in Ring |-> IF c \in cells[0] THEN NUL ELSE ring[c]]
  BY DEF Clear
<1> HIDE DEF cells
<1> QED
  BY <1>3, <1>4

\* ch_add() puts one character, the first of the string or its end.
LEMMA AddOne ==
    ASSUME NEW c, NEW count \in Nat, NEW s, Len(s) \in Nat
    PROVE  ch_add(OneChar(c, count), s) = OneChar(At(s, 1), IF c = NUL THEN count + 1 ELSE count)
<1> DEFINE h == OneChar(c, count)
           h0 == [h EXCEPT !.count = @ + 1, !.start = h.put]
           n == Len(s) + 1
           After(f) == f = [k \in 0..n |-> IF k = 0 THEN h0 ELSE Put(f[k - 1], At(s, k))]
           after == CHOOSE f : After(f)
<1>1. n \in Nat /\ n >= 1
  OBVIOUS
<1> HIDE DEF n, h0
<1>2. \E f : After(f)
  <2> DEFINE Solves(f, m) == \A k \in 0..m : f[k] = IF k = 0 THEN h0 ELSE Put(f[k - 1], At(s, k))
             P == {m \in Nat : \E f : Solves(f, m)}
  <2>1. 0 \in P
    <3>1. Solves([k \in {0} |-> h0], 0)
      OBVIOUS
    <3> QED
      BY <3>1
  <2>2. ASSUME NEW m \in P PROVE m + 1 \in P
    <3>1. PICK f : Solves(f, m)
      OBVIOUS
    <3> DEFINE g == [k \in 0..(m + 1) |-> IF k <= m THEN f[k] ELSE Put(f[m], At(s, k))]
    <3>2. ASSUME NEW k \in 0..(m + 1) PROVE g[k] = IF k = 0 THEN h0 ELSE Put(g[k - 1], At(s, k))
      <4>1. CASE k = 0
        BY <3>1, <4>1
      <4>2. CASE k # 0 /\ k <= m
        <5>1. g[k] = f[k] /\ g[k - 1] = f[k - 1] /\ k \in 0..m
          BY <4>2
        <5> QED
          BY <3>1, <4>2, <5>1
      <4>3. CASE k = m + 1
        <5>1. g[k] = Put(f[m], At(s, k)) /\ g[k - 1] = f[m] /\ k # 0
          BY <4>3
        <5> QED
          BY <5>1
      <4> QED
        BY <4>1, <4>2, <4>3
    <3>3. Solves(g, m + 1)
      BY <3>2
    <3>4. m + 1 \in Nat
      OBVIOUS
    <3> HIDE DEF Solves, g
    <3> QED
      BY <3>3, <3>4
  <2>3. P = Nat
    <3> HIDE DEF P
    <3>1. P \in SUBSET Nat
      BY DEF P
    <3> QED
      BY <2>1, <2>2, <3>1, Induction
  <2>4. PICK f : Solves(f, n)
    BY <1>1, <2>3
  <2> DEFINE r == [k \in 0..n |-> f[k]]
  <2>5. ASSUME NEW k \in 0..n PROVE r[k] = IF k = 0 THEN h0 ELSE Put(r[k - 1], At(s, k))
    <3>1. k # 0 => k - 1 \in 0..n
      BY <1>1
    <3> QED
      BY <2>4, <3>1
  <2> HIDE DEF r
  <2>6. r = [k \in 0..n |-> r[k]]
    BY DEF r
  <2>7. After(r)
    BY <2>5, <2>6
  <2> QED
    BY <2>7
<1>3. After(after)
  BY <1>2
<1> HIDE DEF after
<1>4. after[1] = Put(h0, At(s, 1))
  <2>1. 0 \in 0..n /\ 1 \in 0..n
    BY <1>1
  <2>2. after[0] = h0 /\ after[1] = Put(after[0], At(s, 1))
    BY <1>3, <2>1
  <2> QED
    BY <2>2
<1> DEFINE h1 == OneChar(At(s, 1), IF c = NUL THEN count + 1 ELSE count)
<1>5. h0 = OneChar(c, count + 1)
  <2>1. h = History(Cells(c), count)
    BY DEF OneChar
  <2> HIDE DEF h
  <2> DEFINE more == [h EXCEPT !.count = count + 1]
  <2>2. more = History(Cells(c), count + 1) /\ h.put = 0 /\ h.count = count
    BY <2>1, HistoryParts
  <2>3. h0 = [more EXCEPT !.start = 0]
    BY <2>2 DEF h0
  <2> HIDE DEF more
  <2> QED
    BY <2>2, <2>3, HistoryParts DEF OneChar
<1>6. Put(h0, At(s, 1)) = h1
  <2>1. ASSUME NEW x, NEW y, NEW m, NEW o, o = OneChar(x, m)
        PROVE  WithChar(o, y) = OneChar(y, m)
    <3> DEFINE other == [o.ring EXCEPT ![0] = y]
               put == [o EXCEPT !.ring = other]
    <3>1. o.ring = Cells(x) /\ other = Cells(y)
      BY <2>1, HistoryParts, CellParts DEF OneChar
    <3>2. WithChar(o, y) = [put EXCEPT !.put = 0]
      BY DEF WithChar
    <3> HIDE DEF other
    <3>3. put = History(Cells(y), m)
      BY <2>1, <3>1, HistoryParts DEF OneChar
    <3> HIDE DEF put
    <3> QED
      BY <3>2, <3>3, HistoryParts DEF OneChar
  <2>2. /\ h0.put = 0 /\ h0.count = count + 1 /\ h0.ring = Cells(c)
        /\ h0.ring[0] = c /\ DOMAIN h0.ring = Ring /\ ch_inc(0) = 0
    BY <1>5, HistoryParts, CellParts, RingSteps DEF OneChar
  <2>3. CASE c = NUL
    <3>1. Put(h0, At(s, 1)) = WithChar(h0, At(s, 1))
      BY <2>2, <2>3 DEF Put, WithChar
    <3>2. WithChar(h0, At(s, 1)) = OneChar(At(s, 1), count + 1)
      BY <1>5, <2>1
    <3>3. h1 = OneChar(At(s, 1), count + 1)
      BY <2>3
    <3> HIDE DEF h1
    <3> QED
      BY <3>1, <3>2, <3>3
  <2>4. CASE c # NUL
    <3> DEFINE cleared == Clear(h0.ring, 0)
               less == [h0 EXCEPT !.count = h0.count - 1]
               free == ch_remove(h0, 0)
    <3>1. cleared = Cells(NUL)
      BY <2>2, ClearOne, CellParts DEF Cells
    <3>2. less = History(Cells(c), count)
      <4>1. h0.count - 1 = count
        BY <2>2
      <4> QED
        BY <1>5, <4>1, HistoryParts DEF OneChar
    <3>3. free = [less EXCEPT !.ring = cleared]
      BY DEF ch_remove
    <3> HIDE DEF less, cleared
    <3>4. free = OneChar(NUL, count)
      BY <3>1, <3>2, <3>3, HistoryParts DEF OneChar
    <3>5. free.put = 0
      BY <3>4, HistoryParts DEF OneChar
    <3>6. Put(h0, At(s, 1)) = WithChar(free, At(s, 1))
      BY <2>2, <2>4, <3>5 DEF Put, WithChar
    <3> HIDE DEF free
    <3>7. WithChar(free, At(s, 1)) = OneChar(At(s, 1), count)
      BY <2>1, <3>4
    <3>8. h1 = OneChar(At(s, 1), count)
      BY <2>4
    <3> HIDE DEF h1
    <3> QED
      BY <3>6, <3>7, <3>8
  <2> QED
    BY <2>3, <2>4
<1>7. AddFrom(h0, s) = h1
  <2> DEFINE S == {k \in 1..n : after[k].put = h0.start \/ At(s, k) = NUL}
  <2>1. AddFrom(h0, s) = after[Min(S)]
    BY DEF AddFrom, after, n
  <2>2. 1 \in S /\ \A k \in S : k \in Int /\ 1 <= k
    <3>1. after[1].put = 0 /\ h0.start = 0
      BY <1>4, <1>5, <1>6, HistoryParts DEF OneChar
    <3> QED
      BY <1>1, <3>1
  <2> HIDE DEF S
  <2>3. Min(S) \in S /\ \A k \in S : Min(S) <= k
    BY <2>2 DEF Min
  <2>4. Min(S) = 1
    BY <2>2, <2>3
  <2> QED
    BY <1>4, <1>6, <2>1, <2>4
<1>8. ch_add(h, s) = [h1 EXCEPT !.end = h1.put]
  BY <1>7 DEF ch_add, h0
<1>9. h1 = History(Cells(At(s, 1)), IF c = NUL THEN count + 1 ELSE count)
  BY DEF OneChar
<1> HIDE DEF h1
<1> QED
  BY <1>8, <1>9, HistoryParts DEF OneChar

\* The arrows leave the cursors where they are.
LEMMA ArrowsStay ==
    ASSUME NEW x, NEW n
    PROVE  ch_next(OneChar(x, n)) = OneChar(x, n) /\ ch_prev(OneChar(x, n)) = OneChar(x, n)
<1> DEFINE h == OneChar(x, n)
           W(f, stop, back, nul) ==
             f = [c \in Ring |-> LET next == IF back THEN ch_dec(c) ELSE ch_inc(c)
                                 IN  IF next # stop /\ (h.ring[next] = NUL) = nul THEN f[next] ELSE next]
<1>1. /\ h.put = 0 /\ h.start = 0 /\ h.end = 0
      /\ \A c \in Ring : c # 0 => h.ring[c] = NUL
      /\ [h EXCEPT !.start = 0, !.end = 0] = h
  <2>1. h = History(Cells(x), n)
    BY DEF OneChar
  <2> HIDE DEF h
  <2> DEFINE started == [h EXCEPT !.start = 0]
  <2>2. [h EXCEPT !.start = 0, !.end = 0] = [started EXCEPT !.end = 0]
    OBVIOUS
  <2>3. started = h
    BY <2>1, HistoryParts
  <2> HIDE DEF started
  <2> QED
    BY <2>1, <2>2, <2>3, HistoryParts, CellParts
<1> HIDE DEF h
<1>2. ASSUME NEW nul \in BOOLEAN PROVE Walk(h, 0, 0, FALSE, nul) = 0
  <2> DEFINE walk == CHOOSE f : W(f, 0, FALSE, nul)
             f0 == [c \in Ring |-> 0]
             f1 == [c \in Ring |-> ch_inc(c)]
  <2>1. nul = TRUE => W(f0, 0, FALSE, nul)
    BY <1>1, RingSteps
  <2>2. nul = FALSE => W(f1, 0, FALSE, nul)
    BY <1>1, RingSteps
  <2>3. W(walk, 0, FALSE, nul)
    BY <2>1, <2>2
  <2>4. walk[0] = 0
    BY <2>3, RingSteps
  <2> QED
    BY <2>4 DEF Walk
<1>3. Walk(h, 0, 0, TRUE, FALSE) = HistSize - 1
  <2> DEFINE walk == CHOOSE f : W(f, 0, TRUE, FALSE)
  <2>1. W([c \in Ring |-> ch_dec(c)], 0, TRUE, FALSE)
    BY <1>1, RingSteps
  <2>2. W(walk, 0, TRUE, FALSE)
    BY <2>1
  <2>3. walk[0] = HistSize - 1
    BY <1>1, <2>2, RingSteps
  <2> QED
    BY <2>3 DEF Walk
<1>4. Walk(h, 0, 0, TRUE, TRUE) = 0
  <2> DEFINE walk == CHOOSE f : W(f, 0, TRUE, TRUE)
  <2>1. W([c \in Ring |-> 0], 0, TRUE, TRUE)
    BY <1>1, RingSteps
  <2>2. W(walk, 0, TRUE, TRUE)
    BY <2>1
  <2> HIDE DEF walk
  <2>3. \A c \in Ring : walk[c] = IF ch_dec(c) = 0 THEN 0 ELSE walk[ch_dec(c)]
    BY <1>1, <2>2, RingSteps
  <2> DEFINE P == {m \in Nat : m + 1 \in Ring => walk[m + 1] = 0}
  <2>4. 0 \in P
    BY <2>3 DEF ch_dec
  <2>5. ASSUME NEW m \in P PROVE m + 1 \in P
    <3>1. m + 1 \in Nat
      OBVIOUS
    <3>2. ASSUME (m + 1) + 1 \in Ring PROVE walk[(m + 1) + 1] = 0
      <4>1. m + 1 \in Ring /\ m + 1 # 0 /\ ch_dec((m + 1) + 1) = m + 1
        BY <3>2, TerminalAssumption DEF Ring, ch_dec
      <4> QED
        BY <2>3, <3>2, <4>1
    <3> QED
      BY <3>1, <3>2
  <2>6. P = Nat
    <3> HIDE DEF P
    <3>1. P \in SUBSET Nat
      BY DEF P
    <3> QED
      BY <2>4, <2>5, <3>1, Induction
  <2>7. HistSize - 2 \in Nat /\ (HistSize - 2) + 1 = HistSize - 1
    BY TerminalAssumption
  <2>8. walk[HistSize - 1] = 0
    <3>1. HistSize - 2 \in P
      BY <2>6, <2>7
    <3> QED
      BY <2>7, <3>1, RingSteps
  <2>9. walk[0] = 0
    BY <2>3, <2>8, RingSteps
  <2> QED
    BY <2>9 DEF Walk, walk
<1>5. ch_next(h) = h
  <2>1. Walk(h, 0, 0, FALSE, TRUE) = 0 /\ Walk(h, 0, 0, FALSE, FALSE) = 0
    BY <1>2
  <2> QED
    BY <1>1, <2>1 DEF ch_next
<1>6. ch_prev(h) = h
  <2>1. ch_inc(HistSize - 1) = 0
    BY DEF ch_inc
  <2> QED
    BY <1>1, <1>3, <1>4, <2>1, RingSteps DEF ch_prev
<1> QED
  BY <1>5, <1>6 DEF h

\* There is at most one character in the ring.
IsLine(line) == \E S : line \in Seq(S)
Remembers(c, n) == hist = OneChar(c, n) /\ n \in 0..keys /\ (c # NUL => n # 0)
Remembered == keys \in 0..MaxKeys /\ \E c, n : Remembers(c, n)

\* The line that is entered.
LEMMA LineIs == ASSUME BuffersOK PROVE IsLine(Line)
<1> DEFINE ends == {i \in DOMAIN linebuf : linebuf[i] = NUL}
           n == IF ends = {} THEN LineSize ELSE CHOOSE i \in ends : \A j \in ends : i <= j
<1>1. n \in Nat
  <2>1. CASE ends = {}
    BY <2>1, TerminalAssumption
  <2>2. CASE ends # {}
    <3>1. ends \in SUBSET Nat
      BY DEF BuffersOK
    <3> HIDE DEF ends
    <3>2. \E i \in ends : \A j \in ends : i <= j
      BY <2>2, <3>1, LeastOf
    <3>3. n \in ends
      BY <2>2, <3>2
    <3> QED
      BY <3>1, <3>3
  <2> QED
    BY <2>1, <2>2
<1>2. Line = [i \in 1..n |-> linebuf[i - 1]]
  BY DEF Line
<1> HIDE DEF n
<1> DEFINE S == {linebuf[i - 1] : i \in 1..n}
<1>3. Line \in Seq(S)
  <2>1. \A i \in 1..n : linebuf[i - 1] \in S
    OBVIOUS
  <2> HIDE DEF S
  <2>2. [i \in 1..n |-> linebuf[i - 1]] \in [1..n -> S]
    BY <2>1
  <2>3. [1..n -> S] \subseteq Seq(S)
    BY <1>1
  <2> QED
    BY <1>2, <2>2, <2>3
<1> HIDE DEF S
<1> QED
  BY <1>3 DEF IsLine

\* A step that leaves the history.
LEMMA HistoryLeft ==
    ASSUME Remembered, UNCHANGED hist, keys' \in {keys, keys + 1}, keys' <= MaxKeys
    PROVE  Remembered'
<1>1. PICK c, n : Remembers(c, n)
  BY DEF Remembered
<1>2. keys' \in 0..MaxKeys /\ n \in 0..keys'
  BY <1>1, TerminalAssumption DEF Remembered, Remembers
<1>3. Remembers(c, n)'
  BY <1>1, <1>2 DEF Remembers
<1> QED
  BY <1>2, <1>3 DEF Remembered

\* The history after each step.
LEMMA HistoryStep == ASSUME BuffersOK, Remembered, [Next]_vars PROVE Remembered'
<1>1. PICK c, n : Remembers(c, n)
  BY DEF Remembered
<1>2. keys \in 0..MaxKeys /\ MaxKeys \in Nat /\ n \in 0..keys
  BY <1>1, TerminalAssumption DEF Remembered, Remembers
<1>3. CASE \/ dterm_open \/ CmdFileFails \/ CmdFileStarts \/ CmdFileLine \/ CmdFileEnds
           \/ MainWaits \/ MainEnds \/ RunEnds \/ PiperLine \/ PiperEnds \/ UNCHANGED vars
  <2>1. UNCHANGED <<hist, keys>>
    BY <1>3 DEF dterm_open, CmdFileFails, CmdFileStarts, CmdFileLine, CmdFileEnds, MainWaits, MainEnds,
            RunEnds, PiperLine, PiperEnds, vars, prompt
  <2> QED
    BY <1>2, <2>1, HistoryLeft
<1>4. CASE \/ KeyIgnored \/ EscOpens \/ EscCloses \/ KeySigint \/ KeySigquit \/ KeyDelete \/ KeyOther \/ KeyTab
           \/ PrompterEnds \/ PiperRead \/ \E x \in Chars : KeyChar(x)
  <2>1. UNCHANGED hist /\ keys' = keys + 1 /\ keys < MaxKeys
    BY <1>4 DEF KeyIgnored, EscOpens, EscCloses, KeySigint, KeySigquit, KeyDelete, KeyOther, KeyTab, PrompterEnds,
            PiperRead, KeyChar, Key, Keeps
  <2> QED
    BY <1>2, <2>1, HistoryLeft
<1>5. CASE CreateThread
  <2>1. hist' = OneChar(NUL, 0) /\ UNCHANGED keys
    BY <1>5 DEF CreateThread, ch_init, OneChar, History, Cells
  <2>2. Remembers(NUL, 0)'
    BY <1>2, <2>1 DEF Remembers
  <2> QED
    BY <1>2, <2>1, <2>2 DEF Remembered
<1>6. CASE KeyArrow
  <2>1. keys' = keys + 1 /\ keys < MaxKeys /\ hist' \in {ch_prev(hist), ch_next(hist)}
    BY <1>6 DEF KeyArrow, Key, Keeps
  <2>2. hist' = hist
    BY <1>1, <2>1, ArrowsStay DEF Remembers
  <2> QED
    BY <1>2, <2>1, <2>2, HistoryLeft
<1>7. CASE KeyEnter
  <2>1. /\ keys' = keys + 1 /\ keys < MaxKeys
        /\ hist' = IF ch_contains(hist, Line) THEN hist ELSE ch_add(hist, Line)
    BY <1>7 DEF KeyEnter, Key
  <2>2. IsLine(Line) /\ Len(Line) \in Nat /\ DOMAIN Line = 1..Len(Line) /\ (1 \in DOMAIN Line => Line # <<>>)
    <3>1. PICK S : Line \in Seq(S)
      BY LineIs DEF IsLine
    <3> QED
      BY <3>1 DEF IsLine
  <2>0. PICK x, m : x = At(Line, 1) /\ m = IF c = NUL THEN n + 1 ELSE n
    OBVIOUS
  <2>3. keys' \in 0..MaxKeys /\ n \in 0..keys' /\ m \in 0..keys' /\ n \in Nat
    BY <1>2, <2>0, <2>1
  <2>4. CASE hist' = hist
    <3>1. Remembers(c, n)'
      BY <1>1, <2>1, <2>3, <2>4 DEF Remembers
    <3> QED
      BY <2>3, <3>1 DEF Remembered
  <2>5. CASE hist' = ch_add(hist, Line)
    <3>1. hist' = OneChar(x, m)
      BY <1>1, <2>0, <2>2, <2>3, <2>5, AddOne DEF Remembers
    <3>2. m # 0
      BY <1>1, <2>0, <2>3 DEF Remembers
    <3>3. Remembers(x, m)'
      BY <2>3, <3>1, <3>2 DEF Remembers
    <3> QED
      BY <2>3, <3>3 DEF Remembered
  <2> QED
    BY <2>1, <2>4, <2>5
<1> QED
  BY <1>3, <1>4, <1>5, <1>6, <1>7 DEF Next

\* The history never holds more than one character, whatever keys are used and however
\* long its ring is: ch_add(), ch_inc().
LEMMA HistoryInvariant == Spec => []Remembered
<1>1. Init => Remembered
  <2> SUFFICES ASSUME Init PROVE Remembered
    OBVIOUS
  <2>1. hist = OneChar(NUL, 0) /\ keys = 0
    BY DEF Init, ch_init, OneChar, History, Cells
  <2>2. Remembers(NUL, 0) /\ keys \in 0..MaxKeys
    BY <2>1, TerminalAssumption DEF Remembers
  <2> QED
    BY <2>2 DEF Remembered
<1>2. BuffersOK /\ Remembered /\ [Next]_vars => Remembered'
  BY HistoryStep
<1> QED
  BY <1>1, <1>2, BuffersHold, PTL DEF Spec

\* Every variable of the terminal stays within its type, the cursors of the history in
\* its ring: they never leave its first character.
THEOREM TypeCorrect == Spec => []TypeOK
<1> DEFINE Places ==
             /\ intf \in {"interactive", "pipe"}
             /\ main \in {"start", "init", "cmdfile", "ready", "created", "wait", "woken", "ended", "killed"}
             /\ failed \in BOOLEAN /\ cmdrc \in {"none", "ok", "error"} /\ pc \in {"none", "read", "run", "line", "gone"}
             /\ state \in {"off", "on"} /\ iso \in {"free", "main", "prompter"}
             /\ script \in Seq({"ok", "error", "jsonerror", "unknown"})
<1>1. Init => Places
  BY TerminalAssumption DEF Init
<1>2. Places /\ [Next]_vars => Places'
  <2> SUFFICES ASSUME Places, [Next]_vars PROVE Places'
    OBVIOUS
  <2>1. CASE CmdFileLine
    <3> DEFINE R == {"ok", "error", "jsonerror", "unknown"}
    <3>1. /\ script # <<>> /\ cmdrc' \in ResultOf(script[1]) /\ failed' \in BOOLEAN
          /\ script' = <<>> \/ script' = Tail(script)
          /\ UNCHANGED <<intf, main, pc, state, iso>>
      BY <2>1 DEF CmdFileLine, prompt
    <3>2. script \in Seq(R) /\ <<>> \in Seq(R)
      OBVIOUS
    <3>3. script[1] \in R /\ Tail(script) \in Seq(R)
      <4> HIDE DEF R
      <4> QED
        BY <3>1, <3>2
    <3>4. script' \in Seq(R)
      <4> HIDE DEF R
      <4> QED
        BY <3>1, <3>2, <3>3
    <3>5. cmdrc' \in {"ok", "error"}
      BY <3>1, <3>3 DEF ResultOf
    <3> QED
      BY <3>1, <3>4, <3>5
  <2>2. CASE \/ dterm_open \/ CmdFileFails \/ CmdFileStarts \/ CmdFileEnds
             \/ CreateThread \/ MainWaits \/ MainEnds \/ UNCHANGED vars
    BY <2>2 DEF dterm_open, CmdFileFails, CmdFileStarts, CmdFileEnds, CreateThread, MainWaits, MainEnds,
            vars, prompt, file
  <2>3. CASE \/ KeyIgnored \/ EscOpens \/ EscCloses \/ KeySigint \/ KeySigquit \/ KeyDelete \/ KeyOther
             \/ KeyTab \/ KeyArrow \/ KeyEnter \/ RunEnds \/ PrompterEnds
             \/ \E x \in Chars : KeyChar(x)
    BY <2>3 DEF KeyIgnored, EscOpens, EscCloses, KeySigint, KeySigquit, KeyDelete, KeyOther, KeyTab, KeyArrow,
            KeyEnter, RunEnds, PrompterEnds, KeyChar, Key, Keeps, Raise, file
  <2>4. CASE PiperRead \/ PiperLine \/ PiperEnds
    BY <2>4 DEF PiperRead, PiperLine, PiperEnds, Raise, prompt, file
  <2> QED
    BY <2>1, <2>2, <2>3, <2>4 DEF Next
<1>3. Spec => []Places
  BY <1>1, <1>2, PTL DEF Spec
<1>4. Places /\ BuffersOK /\ Remembered => TypeOK
  <2> SUFFICES ASSUME Places, BuffersOK, Remembered PROVE TypeOK
    OBVIOUS
  <2>1. PICK c, n : Remembers(c, n)
    BY DEF Remembered
  <2>2. hist.put = 0 /\ hist.start = 0 /\ hist.end = 0 /\ hist.count = n
    BY <2>1, HistoryParts DEF Remembers, OneChar
  <2>3. 0 \in Ring /\ n \in 0..MaxKeys
    BY <2>1, TerminalAssumption DEF Remembered, Remembers, Ring
  <2> QED
    BY <2>2, <2>3 DEF TypeOK
<1> HIDE DEF Places
<1> QED
  BY <1>3, <1>4, BuffersHold, HistoryInvariant, PTL

=============================================================================
