------------------------------ MODULE Console -------------------------------
(***************************************************************************)
(* The text console, kernel/console.c: a cursor on a window that is        *)
(* treated as a grid of characters.  There is no buffer of what is shown,  *)
(* so that the cursor has to be drawn and wiped by every write.  Several   *)
(* consoles may be opened on one window, and none knows of the others.     *)
(***************************************************************************)
EXTENDS Integers, Sequences, FiniteSets, SequencesExt

CONSTANTS
  Con,             \* the consoles on the window
  XSize, YSize,    \* the size of the window in characters
  MaxBack,         \* bound: rows the cursor may be above the window
  MaxData          \* bound: length of the strings that are written

Newline == "n"     \* 10 and 13
Clear == "f"       \* '\f'
Back == "b"        \* '\b'
ConsoleAssumption ==
  /\ XSize \in Nat \ {0} /\ YSize \in Nat \ {0} /\ MaxBack \in Nat
  /\ MaxData \in Nat
Data == UNION {[1..n -> {"a", Newline, Clear, Back}] : n \in 1..MaxData}

VARIABLES
  pos,       \* the cursor of a console, <<x, y>>; <<>> before it is created
  cell,      \* what the window shows: a blank, a letter or the mark of a cursor
  outside,   \* something was drawn outside of the window
  above,     \* history: a cursor was moved back from the first character
  mixed,     \* history: two consoles were opened on the window
  undone     \* history: a write moved back other than by its first character

vars == <<pos, cell, outside, above, mixed, undone>>

Blank == " "
Mark == "_"
Grid == (0..(XSize - 1)) \X (0..(YSize - 1))
NoCells == [g \in Grid |-> Blank]

TypeOK ==
  /\ pos \in [Con -> {<<>>} \cup ((-1..XSize) \X ((-MaxBack)..(YSize + MaxData)))]
  /\ cell \in [Grid -> {Blank, Mark, "a"}]
  /\ {outside, above, mixed, undone} \subseteq BOOLEAN

Init ==
  /\ pos = [c \in Con |-> <<>>] /\ cell = NoCells
  /\ outside = FALSE /\ above = FALSE /\ mixed = FALSE /\ undone = FALSE

\* console_create and console_reset.
console_create(c) ==
  /\ pos[c] = <<>>
  /\ pos' = [pos EXCEPT ![c] = <<0, 0>>] /\ cell' = NoCells
  /\ mixed' = (\E d \in Con : pos[d] # <<>>)
  /\ UNCHANGED <<outside, above, undone>>

\* graphics_char at a place that may be above the window.  s is [p, cell, out].
Put(s, ch) ==
  IF s.p \in Grid THEN [s EXCEPT !.cell[s.p] = ch] ELSE [s EXCEPT !.out = TRUE]

\* The character itself: where it leaves the cursor.
Moved(s, ch) ==
  CASE ch = Newline -> [s EXCEPT !.p = <<0, s.p[2] + 1>>]
    [] ch = Clear   -> [s EXCEPT !.p = <<0, 0>>, !.cell = NoCells]
    [] ch = Back    -> [s EXCEPT !.p = <<s.p[1] - 1, s.p[2]>>]
    [] OTHER        -> [Put(s, ch) EXCEPT !.p = <<s.p[1] + 1, s.p[2]>>]

\* The cursor is brought back into the row, then into the window, whose end is followed
\* by an empty window.
InRow(p) ==
  CASE p[1] < 0      -> <<XSize - 1, p[2] - 1>>
    [] p[1] >= XSize -> <<0, p[2] + 1>>
    [] OTHER         -> p
InWindow(s) == IF s.p[2] >= YSize THEN [s EXCEPT !.p = <<0, 0>>, !.cell = NoCells] ELSE s
Step(s, ch) == LET t == Moved(s, ch) IN InWindow([t EXCEPT !.p = InRow(t.p)])

\* console_write.  Mutant: the old cursor is not wiped.
Written_Unwiped(s, data) == Put(FoldLeft(Step, s, data), Mark)
Written(s, data) == Put(FoldLeft(Step, Put(s, Blank), data), Mark)
console_write(c, data) ==
  LET s == Written([p |-> pos[c], cell |-> cell, out |-> outside], data)
      path == [i \in 0..Len(data) |->
                 FoldLeft(Step, [p |-> pos[c], cell |-> cell, out |-> outside], SubSeq(data, 1, i)).p]
  IN  /\ pos[c] # <<>> /\ s.p[2] + MaxBack >= 0
      /\ pos' = [pos EXCEPT ![c] = s.p] /\ cell' = s.cell /\ outside' = s.out
      /\ above' = (above \/ \E i \in DOMAIN data : data[i] = Back /\ path[i - 1] = <<0, 0>>)
      /\ undone' = (undone \/ \E i \in 2..Len(data) : data[i] = Back)
      /\ UNCHANGED mixed

Next == \E c \in Con : console_create(c) \/ \E data \in Data : console_write(c, data)
Spec == Init /\ [][Next]_vars

-----------------------------------------------------------------------------
(* Properties *)

Open == {c \in Con : pos[c] # <<>>}

\* The cursor stays in the window and nothing is drawn outside of it, unless someone
\* moved back from the first character: nothing corrects a negative row.
CursorInside ==
  ~above => ~outside /\ \A c \in Open : pos[c] \in Grid

\* A console on its own shows one cursor at the most, where the next letter will be.
OneCursor ==
  ~mixed /\ ~above => \A g \in Grid : cell[g] = Mark => \E c \in Open : g = pos[c]

\* What was taken back is gone: behind the cursor of a console on its own the window is
\* blank, unless a write moved back by more than its first character: letters are only
\* wiped where a write begins and where it ends.
Before(g, h) == g[2] < h[2] \/ (g[2] = h[2] /\ g[1] < h[1])
TailBlank ==
  ~mixed /\ ~above /\ ~undone =>
    \A c \in Open : \A g \in Grid : Before(pos[c], g) => cell[g] = Blank
=============================================================================
