----------------------------- MODULE CmdHistory -----------------------------
(***************************************************************************)
(* The command history of the prompt (cmdhistory.c): commands are kept one *)
(* after the other in a ring of characters.  The operators follow the      *)
(* loops of the code, of which those that call ch_inc() walk the ring only *)
(* from its last position: elsewhere ch_inc() returns its argument.        *)
(***************************************************************************)
EXTENDS Integers, Sequences, FiniteSetsExt

CONSTANT HistSize       \* CMD_HISTSIZE

NUL == "nul"
Ring == 0..(HistSize - 1)

\* The character of a C string at k, its end included.
At(s, k) == IF k \in DOMAIN s THEN s[k] ELSE NUL

ch_init == [ring |-> [i \in Ring |-> NUL], put |-> 0, start |-> 0, end |-> 0, count |-> 0]

ch_inc(cur) == IF cur = HistSize - 1 THEN 0 ELSE cur
ch_dec(cur) == IF cur = 0 THEN HistSize - 1 ELSE cur - 1

\* while (*cur is (not) NUL && i++ < CMD_HISTSIZE) cur = ch_inc(cur)
Skip(h, cur, i, nul) ==
    LET skip[c \in Ring, j \in Nat] ==
          IF (h.ring[c] = NUL) # nul THEN [cur |-> c, i |-> j]
          ELSE IF j < HistSize THEN skip[ch_inc(c), j + 1]
          ELSE [cur |-> c, i |-> j + 1]
    IN  skip[cur, i]

Scan(h, s, start) ==
    LET scan[cur \in Ring, k \in Nat, i \in Nat] ==
          LET differ == h.ring[cur] # At(s, k)
              name == Skip(h, cur, i, FALSE)
              gap == Skip(h, name.cur, name.i, TRUE)
              next == ch_inc(IF differ THEN gap.cur ELSE cur)
              j == IF differ THEN gap.i ELSE i
              l == IF differ THEN 1 ELSE k + 1
          IN  IF At(s, l) # NUL /\ j + 1 < HistSize THEN scan[next, l, j + 1]
              ELSE At(s, l) = NUL /\ (h.ring[next] = NUL \/ next = h.start)
    IN  scan[start, 1, 0]

ch_contains(h, s) == h.count # 0 /\ Scan(h, s, h.start)

\* The characters from first up to the next NUL, or once round the ring.
Clear(ring, first) ==
    LET cells[c \in Ring] ==
          LET next == ch_inc(c)
          IN  {c} \cup IF next \in {first, c} \/ ring[next] = NUL THEN {} ELSE cells[next]
    IN  [c \in Ring |-> IF c \in cells[first] THEN NUL ELSE ring[c]]

ch_remove(h, cur) == [h EXCEPT !.count = @ - 1, !.ring = Clear(@, cur)]

\* A character is put, and what is there removed before, until the put cursor is
\* back where it started or the string has ended.
Put(h, c) ==
    LET free == IF h.ring[h.put] # NUL THEN ch_remove(h, h.put) ELSE h
    IN  [free EXCEPT !.ring[h.put] = c, !.put = ch_inc(h.put)]

AddFrom(h, s) ==
    LET after[k \in 0..(Len(s) + 1)] == IF k = 0 THEN h ELSE Put(after[k - 1], At(s, k))
    IN  after[Min({k \in 1..(Len(s) + 1) : after[k].put = h.start \/ At(s, k) = NUL})]

ch_add(h, s) ==
    LET added == AddFrom([h EXCEPT !.count = @ + 1, !.start = h.put], s)
    IN  [added EXCEPT !.end = added.put]

\* while ((cur = ch_inc/ch_dec(cur)) != stop && *cur is (not) NUL)
Walk(h, cur, stop, back, nul) ==
    LET walk[c \in Ring] ==
          LET next == IF back THEN ch_dec(c) ELSE ch_inc(c)
          IN  IF next # stop /\ (h.ring[next] = NUL) = nul THEN walk[next] ELSE next
    IN  walk[cur]

\* Both return the cursors they leave, where start is the command; with no
\* command in the history they change nothing.
ch_next(h) ==
    LET first == Walk(h, h.end, h.start, FALSE, TRUE)
        last == Walk(h, first, h.start, FALSE, FALSE)
    IN  IF h.count = 0 THEN h ELSE [h EXCEPT !.start = first, !.end = last]

ch_prev(h) ==
    LET last == Walk(h, h.start, h.end, TRUE, TRUE)
        first == Walk(h, last, h.end, TRUE, FALSE)
    IN  IF h.count = 0 THEN h
        ELSE [h EXCEPT !.start = IF first # h.end THEN ch_inc(first) ELSE first, !.end = last]

\* The string at the start cursor; what follows the ring in memory is unknown.
Command(h) ==
    LET n == Cardinality({i \in Ring : /\ h.start + i < HistSize
                                       /\ \A j \in 0..i : h.ring[h.start + j] # NUL})
    IN  [i \in 1..(IF h.start + n < HistSize THEN n ELSE n + 1) |->
           IF h.start + i - 1 < HistSize THEN h.ring[h.start + i - 1] ELSE "?"]
=============================================================================
