------------------------------ MODULE Terminal ------------------------------
(***************************************************************************)
(* The terminal of otdb (dterm.c) when it is not a socket server: the file *)
(* of commands that main() runs first, and then the thread that            *)
(* dterm_open() has chosen, dterm_prompter() for key strokes or            *)
(* dterm_piper() for lines of a pipe.                                      *)
(*                                                                         *)
(* The line buffer is 0-based.  Its cursor is always linelen characters    *)
(* from its beginning, and one variable stands for both; a write just past *)
(* its end goes to readbuf, which the next read() overwrites.  Characters  *)
(* are ASCII.                                                              *)
(***************************************************************************)
EXTENDS CmdHistory, FiniteSets

CONSTANTS Chars, LineSize,      \* printable characters; LINESIZE
          Names,                \* names in the command table
          Scripts,              \* files of commands, by the result of each
          MaxKeys               \* bound on key strokes and read()s of the piper

ASSUME TerminalAssumption ==
    /\ NUL \notin Chars /\ LineSize \in Nat \ {0} /\ HistSize \in Nat \ {0, 1}
    /\ \A s \in Names : s \in Seq(Chars)
    /\ \A s \in Scripts : s \in Seq({"ok", "error", "jsonerror", "unknown"})
    /\ MaxKeys \in Nat

VARIABLES intf,         \* the type of the interface, and so of the thread
          main,         \* where main() is
          script, cmdrc,\* lines of the command file to run; result of the last
          failed,       \* history: a line of the file was answered with an error
          pc,           \* where the thread is
          state, iso,   \* the prompt; owner of iso_mutex
          linebuf, linelen, hist, keys,
          entered,      \* history: the lines that were entered
          pos, loadlen, \* piper: loadbuf - linebuf, what is left to run
          closed        \* history: a read() of the pipe has returned 0 or -1

prompt == <<state, iso, linebuf, linelen, hist, keys, entered>>
pipe   == <<pos, loadlen, closed>>
file   == <<script, cmdrc, failed>>
vars   == <<intf, main, file, pc, prompt, pipe>>

Blank == [i \in 0..(LineSize - 1) |-> NUL]

Init ==
    /\ intf \in {"interactive", "pipe"} /\ main = "start" /\ pc = "none"
    /\ script \in Scripts /\ cmdrc = "none" /\ failed = FALSE
    /\ state = "off" /\ iso = "free" /\ linebuf = Blank /\ linelen = 0
    /\ hist = ch_init /\ keys = 0 /\ entered = {}
    /\ pos = 0 /\ loadlen = 0 /\ closed = FALSE

-----------------------------------------------------------------------------
(* main(), dterm_open() and dterm_cmdfile().                               *)

\* The terminal is set up for the type of the interface, or otdb ends.
dterm_open ==
    /\ main = "start" /\ main' \in {"init", "ended"}
    /\ UNCHANGED <<intf, file, pc, prompt, pipe>>

\* There is no file, it cannot be read, or there is no memory for it.
CmdFileFails ==
    /\ main = "init" /\ main' = "ready"
    /\ UNCHANGED <<intf, file, pc, prompt, pipe>>

CmdFileStarts ==
    /\ main = "init" /\ iso = "free"
    /\ main' = "cmdfile" /\ iso' = "main"
    /\ UNCHANGED <<intf, file, pc, state, linebuf, linelen, hist, keys, entered, pipe>>

\* The result that is looked at: with -j an error is a text, of so many bytes,
\* and cmdrc is not written at all when the command is not found.  The rest is
\* dropped, too, when the output has been closed.
ResultOf(result) ==
    CASE result = "error" -> {"error"}
      [] result = "unknown" -> {"ok", "error"}
      [] OTHER -> {"ok"}

CmdFileLine ==
    /\ main = "cmdfile" /\ script # <<>>
    /\ cmdrc' \in ResultOf(script[1])
    /\ script' \in {<<>>} \cup IF cmdrc' = "error" THEN {} ELSE {Tail(script)}
    /\ failed' = (failed \/ script[1] # "ok")
    /\ UNCHANGED <<intf, main, pc, prompt, pipe>>

CmdFileEnds ==
    /\ main = "cmdfile" /\ script = <<>>
    /\ main' = "ready" /\ iso' = "free"
    /\ UNCHANGED <<intf, file, pc, state, linebuf, linelen, hist, keys, entered, pipe>>

CreateThread ==
    /\ main = "ready"
    /\ main' = "created" /\ pc' = "read" /\ hist' = ch_init
    /\ UNCHANGED <<intf, file, state, iso, linebuf, linelen, keys, entered, pipe>>

MainWaits ==
    /\ main = "created" /\ main' = "wait"
    /\ UNCHANGED <<intf, file, pc, prompt, pipe>>

\* A thread raises a signal, which is lost unless main() waits.
Raise == main' = IF main = "wait" THEN "woken" ELSE main

\* The thread is cancelled, at read() at once, and everything is freed.
MainEnds ==
    /\ main = "woken"
    /\ main' = "ended" /\ pc' = IF pc = "read" THEN "gone" ELSE pc
    /\ iso' = "free"
    /\ UNCHANGED <<intf, file, state, linebuf, linelen, hist, keys, entered, pipe>>

-----------------------------------------------------------------------------
(* The line buffer.                                                        *)

\* A plausible slip: room for the NUL of a string that has none.
FitsAfter(n, s) == n + Len(s) <= LineSize + 1

\* dterm_putcmd(): all of s, or nothing when it does not fit.
Fits(n, s) == n + Len(s) <= LineSize
PutAt(b, n, s) == IF Fits(n, s) THEN [i \in DOMAIN b |-> IF i \in n..(n + Len(s) - 1) THEN s[i - n + 1] ELSE b[i]]
                  ELSE b
LenAfter(n, s) == IF Fits(n, s) THEN n + Len(s) ELSE n

\* The C string in the buffer.
Line == LET ends == {i \in DOMAIN linebuf : linebuf[i] = NUL}
            n == IF ends = {} THEN LineSize ELSE CHOOSE i \in ends : \A j \in ends : i <= j
        IN  [i \in 1..n |-> linebuf[i - 1]]

\* A plausible slip: only the cursor is reset.
ResetCursorOnly == linebuf' = linebuf /\ linelen' = 0

dterm_reset == linebuf' = Blank /\ linelen' = 0

\* dterm_remln() and dterm_putsc(): the line is replaced.
Replace(s) == linebuf' = PutAt(Blank, 0, s) /\ linelen' = LenAfter(0, s)

-----------------------------------------------------------------------------
(* dterm_prompter().                                                       *)

Key ==
    /\ intf = "interactive" /\ pc = "read" /\ main \in {"created", "wait", "woken"}
    /\ keys < MaxKeys /\ keys' = keys + 1
    /\ UNCHANGED <<intf, file, pipe>>

Same == UNCHANGED <<linebuf, linelen>>
Keeps == UNCHANGED <<main, pc, entered>>

\* With the prompt off only ESC, Ctrl-C and Ctrl-\ have an effect.
KeyIgnored ==
    /\ Key /\ state = "off"
    /\ Keeps /\ Same /\ UNCHANGED <<state, iso, hist>>

EscOpens ==
    /\ Key /\ state = "off" /\ iso = "free"
    /\ state' = "on" /\ iso' = "prompter"
    /\ Keeps /\ Same /\ UNCHANGED hist

\* A plausible slip: leaving the prompt with ESC skips the end of the loop.
EscClosesLocked ==
    /\ Key /\ state = "on"
    /\ state' = "off" /\ UNCHANGED iso
    /\ dterm_reset
    /\ Keeps /\ UNCHANGED hist

EscCloses ==
    /\ Key /\ state = "on"
    /\ state' = "off" /\ iso' = "free"
    /\ dterm_reset
    /\ Keeps /\ UNCHANGED hist

\* Ctrl-C: the thread ends with iso_mutex, the prompt on or not.
KeySigint ==
    /\ Key
    /\ state = "on" \/ iso = "free"
    /\ iso' = "prompter" /\ pc' = "gone"
    /\ dterm_reset
    /\ Raise
    /\ UNCHANGED <<state, hist, entered>>

\* Ctrl-\: SIGQUIT, for which otdb has no handler, ends the process.
KeySigquit ==
    /\ Key
    /\ state = "on" \/ iso = "free"
    /\ iso' = "prompter" /\ pc' = "gone" /\ main' = "killed"
    /\ dterm_reset
    /\ UNCHANGED <<state, hist, entered>>

KeyChar(c) ==
    /\ Key /\ state = "on"
    /\ linebuf' = PutAt(linebuf, linelen, <<c>>) /\ linelen' = LenAfter(linelen, <<c>>)
    /\ Keeps /\ UNCHANGED <<state, iso, hist>>

\* dterm_remc() writes NUL at the cursor and then moves it back.
KeyDelete ==
    /\ Key /\ state = "on"
    /\ IF linelen > 0
       THEN /\ linebuf' = [i \in DOMAIN linebuf |-> IF i = linelen THEN NUL ELSE linebuf[i]]
            /\ linelen' = linelen - 1
       ELSE Same
    /\ Keeps /\ UNCHANGED <<state, iso, hist>>

\* Another control character, or a read() of several characters that is not an
\* arrow: the prompt is closed and the line stays.
KeyOther ==
    /\ Key /\ state = "on"
    /\ state' = "off" /\ iso' = "free"
    /\ Keeps /\ Same /\ UNCHANGED hist

\* TAB: a command whose name begins with the line, if the table has one.
KeyTab ==
    /\ Key /\ state = "on"
    /\ \/ Same
       \/ \E name \in Names :
            /\ Len(Line) <= Len(name) /\ SubSeq(name, 1, Len(Line)) = Line
            /\ Replace(name)
    /\ Keeps /\ UNCHANGED <<state, iso, hist>>

\* The arrows replace the line by a command of the history.
KeyArrow ==
    /\ Key /\ state = "on"
    /\ \E h \in {ch_prev(hist), ch_next(hist)} :
         /\ hist' = h
         /\ IF h.count # 0 THEN Replace(Command(h)) ELSE Same
    /\ Keeps /\ UNCHANGED <<state, iso>>

KeyEnter ==
    /\ Key /\ state = "on"
    /\ hist' = IF ch_contains(hist, Line) THEN hist ELSE ch_add(hist, Line)
    /\ entered' = entered \cup {Line}
    /\ pc' = "run"
    /\ Same /\ UNCHANGED <<main, state, iso>>

\* The command of the line ends; quit has raised a signal.
RunEnds ==
    /\ pc = "run" /\ main \notin {"ended", "killed"}
    /\ pc' = "read" /\ state' = "off" /\ iso' = "free"
    /\ dterm_reset
    /\ Raise \/ UNCHANGED main
    /\ UNCHANGED <<intf, file, hist, keys, entered, pipe>>

\* read() fails or is at the end of the input.
PrompterEnds ==
    /\ Key
    /\ pc' = "gone" /\ Raise
    /\ Same /\ UNCHANGED <<state, iso, hist, entered>>

-----------------------------------------------------------------------------
(* dterm_piper().                                                          *)

\* read() to loadbuf, wherever it is by now: 0 at the end of the pipe, -1 when it
\* fails.
PiperRead ==
    /\ intf = "pipe" /\ pc = "read" /\ main \in {"created", "wait", "woken"}
    /\ keys < MaxKeys /\ keys' = keys + 1
    /\ dterm_reset
    /\ loadlen' \in -1..LineSize
    /\ closed' = (closed \/ loadlen' <= 0)
    /\ pc' = "line"
    /\ UNCHANGED <<intf, main, file, state, iso, hist, entered, pos>>

\* The length of a line with the blanks before it.  Where nothing was read there is
\* the reset buffer, and behind it what happens to be in memory.
Lengths == IF loadlen > 0 \/ pos >= LineSize THEN 0..(IF loadlen > 0 THEN loadlen ELSE LineSize) ELSE {0}

\* A line is run up to its newline or the end of what was read; quit raises a signal.
PiperLine ==
    /\ pc = "line" /\ main \notin {"ended", "killed"}
    /\ \E len \in Lengths :
         /\ loadlen' = loadlen - (len + 1)
         /\ pos' = pos + len + 1
    /\ pc' = IF loadlen' <= 0 THEN "read" ELSE "line"
    /\ Raise \/ UNCHANGED main
    /\ UNCHANGED <<intf, file, prompt, closed>>

\* The output is closed: the thread raises SIGTERM and ends.
PiperEnds ==
    /\ pc = "line" /\ main \notin {"ended", "killed"}
    /\ pc' = "gone" /\ Raise
    /\ UNCHANGED <<intf, file, prompt, pipe>>

-----------------------------------------------------------------------------
Next ==
    \/ dterm_open \/ CmdFileFails \/ CmdFileStarts \/ CmdFileLine \/ CmdFileEnds
    \/ CreateThread \/ MainWaits \/ MainEnds
    \/ KeyIgnored \/ EscOpens \/ EscCloses \/ KeySigint \/ KeySigquit \/ KeyDelete \/ KeyOther
    \/ KeyTab \/ KeyArrow \/ KeyEnter \/ RunEnds \/ PrompterEnds
    \/ \E c \in Chars : KeyChar(c)
    \/ PiperRead \/ PiperLine \/ PiperEnds

Spec == Init /\ [][Next]_vars

-----------------------------------------------------------------------------
(* Properties.                                                             *)

\* The line keeps to its buffer; of what the piper has read there is never more
\* left than it has read.
BuffersOK ==
    /\ DOMAIN linebuf = 0..(LineSize - 1) /\ linelen \in 0..LineSize
    /\ loadlen \in (-LineSize - 2)..LineSize /\ pos \in Nat /\ closed \in BOOLEAN

\* Every variable stays within its type, the cursors of the history in the ring.
TypeOK ==
    /\ intf \in {"interactive", "pipe"}
    /\ main \in {"start", "init", "cmdfile", "ready", "created", "wait", "woken", "ended", "killed"}
    /\ failed \in BOOLEAN /\ cmdrc \in {"none", "ok", "error"} /\ pc \in {"none", "read", "run", "line", "gone"}
    /\ state \in {"off", "on"} /\ iso \in {"free", "main", "prompter"}
    /\ BuffersOK
    /\ {hist.put, hist.start, hist.end} \subseteq Ring /\ hist.count \in 0..MaxKeys

\* The terminal's output belongs to the prompt from ESC to the end of the
\* command: the prompter has iso_mutex exactly while the prompt is on, and the
\* command file has it before that.
PromptHoldsMutex ==
    main \notin {"ended", "killed"} =>
      /\ iso = "main" <=> main = "cmdfile"
      /\ pc # "gone" => (iso = "prompter" <=> state = "on")

\* Behind the cursor there is at most one character of an older line, the one
\* that was deleted last, whatever keys were used.
OneStaleChar == \A i \in DOMAIN linebuf : i > linelen => linebuf[i] = NUL

\* What the arrows put on the line is a command that was entered (dterm_prompter(),
\* ch_next(), ch_prev()).
OffersEntered == hist.count # 0 /\ pc = "read" => Command(hist) \in entered

\* Nothing of the command file is left to run after a line that was answered with
\* an error (dterm_cmdfile()).
StopsAtFirstError == failed => script = <<>>

\* The prompt does not close with a part of a line, to which the next one would be
\* added (dterm_prompter()).
ClosesEmpty == [][state = "on" /\ state' = "off" => linebuf' = Blank]_vars

\* The piper does not go on when its pipe is at the end or broken (dterm_piper()).
PiperStops == closed => pc # "read"

\* What the piper has read and not yet run lies in the line buffer (dterm_piper()).
PiperKeepsToBuffer == pc = "line" => pos + loadlen <= LineSize

\* The process does not end without dterm_deinit() (otdb_main()).
ShutsDown == main # "killed"
=============================================================================
