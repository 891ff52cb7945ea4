------------------------------ MODULE Nwindow -------------------------------
(***************************************************************************)
(* Drawing by a program: library/nwindow.c collects commands as words in a *)
(* buffer and hands it to the kernel, where graphics_write takes it apart  *)
(* again.  The buffer has PAGE_SIZE bytes, but its length is noted as      *)
(* PAGE_SIZE words.                                                        *)
(***************************************************************************)
EXTENDS Integers, Sequences, SequencesExt

CONSTANTS
  PageSize,      \* PAGE_SIZE, what graphics.length is
  WordSize,      \* bytes of a word
  MaxText,       \* bound: letters of a string
  MaxDraw        \* bound: commands drawn

WindowAssumption ==
  PageSize \in Nat /\ WordSize \in Nat \ {0} /\ MaxText \in Nat /\ MaxDraw \in Nat

FgColor == 1
Rect == 4
Text == 6
Value == {0, Rect}      \* arguments; one of them could be taken for a command

VARIABLES
  buffer,     \* graphics.buffer up to graphics.index
  pending,    \* the commands that are in it
  flushed,    \* the last flush: the commands sent, and the ones carried out
  draws

vars == <<buffer, pending, flushed, draws>>

\* The commands nw_fgcolor and nw_bgcolor (nw_draw3), nw_rect, nw_clear and nw_line
\* (nw_draw4) and nw_string write.
Commands ==
  {<<FgColor, a, b, c>> : a, b, c \in Value} \cup {<<Rect, a, 1, b, 1>> : a, b \in Value}
  \cup UNION {{<<Text, 0, a, n>> \o s : a \in Value, s \in [1..n -> {Rect}]} : n \in 0..MaxText}

TypeOK ==
  /\ \A i \in DOMAIN buffer : buffer[i] \in Nat
  /\ Len(buffer) <= PageSize
  /\ draws \in 0..MaxDraw

Init ==
  /\ buffer = <<>> /\ pending = <<>> /\ draws = 0
  /\ flushed = [sent |-> <<>>, done |-> <<>>]

\* graphics_write: the length of a command is known from its first word, that of a text
\* from its fourth.  Words that are no command end the call.
\* Mutant: the letters of a text are not skipped.
Size_NoLetters(words, i) == CASE words[i] = FgColor -> 4 [] words[i] = Rect -> 5 [] words[i] = Text -> 4
Size(words, i) ==
  CASE words[i] = FgColor -> 4 [] words[i] = Rect -> 5 [] words[i] = Text -> 4 + words[i + 3]
graphics_write(words) ==
  LET D[i \in 1..(Len(words) + 1)] ==
        IF i > Len(words) \/ words[i] \notin {FgColor, Rect, Text} THEN <<>>
        ELSE <<SubSeq(words, i, Min({i + Size(words, i) - 1, Len(words)}))>> \o D[Min({i + Size(words, i), Len(words) + 1})]
  IN  D[1]

nw_flush ==
  /\ buffer # <<>>
  /\ flushed' = [sent |-> pending, done |-> graphics_write(buffer)]
  /\ buffer' = <<>> /\ pending' = <<>>
  /\ UNCHANGED draws

\* The buffer is flushed first when the command has no room.
NoRoom(cmd) == PageSize - Len(buffer) < Len(cmd)
nw_draw(cmd) ==
  LET full == NoRoom(cmd)
      b == (IF full THEN <<>> ELSE buffer) \o cmd
  IN  /\ draws < MaxDraw /\ draws' = draws + 1
      /\ buffer' = b
      /\ pending' = Append(IF full THEN <<>> ELSE pending, cmd)
      /\ flushed' = IF full THEN [sent |-> pending, done |-> graphics_write(buffer)] ELSE flushed

Next == nw_flush \/ \E cmd \in Commands : nw_draw(cmd)
Spec == Init /\ [][Next]_vars

-----------------------------------------------------------------------------
(* Properties *)

\* What a program draws is what the kernel carries out: every command once, in order and
\* whole, wherever the buffer is flushed.
StreamRight == flushed.done = flushed.sent
=============================================================================
