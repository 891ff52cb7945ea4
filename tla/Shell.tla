-------------------------------- MODULE Shell -------------------------------
(***************************************************************************)
(* The two shells: kshell (kernel/kshell.c) and the user program           *)
(* user/shell.c, each with its line editor, its parser (strtok) and the    *)
(* commands that start, wait for and reap programs.  A command is one      *)
(* letter, a program a word.  The arrays line and argv have a fixed        *)
(* length; line keeps what earlier commands left in it.  Writing or        *)
(* reading past one is a fault, where the model stops.  The user shell     *)
(* writes through the buffer of library/stdio.c.                           *)
(***************************************************************************)
EXTENDS Integers, FiniteSets, Sequences, SequencesExt

CONSTANTS
  Kinds,       \* subset of {"kshell", "shell"}
  Char,        \* printable keys: letters and " "
  MaxLine,     \* the length of the line
  KernelArgs,  \* the length of argv in kshell_launch
  UserArgs,    \* the length of argv in do_command
  Pid,         \* bound: children at a time
  MaxFd        \* descriptors that are free at first

ShellAssumption ==
  /\ Kinds \subseteq {"kshell", "shell"} /\ " " \in Char
  /\ MaxLine \in Nat \ {0, 1} /\ KernelArgs \in Nat \ {0} /\ UserArgs \in Nat \ {0} /\ MaxFd \in Nat

Nul == "null"
Junk == "junk"                \* what is in memory that was never written

VARIABLES
  kind,        \* which shell
  line,        \* the array
  i,           \* characters in it
  screen,      \* what the row of the screen shows after the prompt
  pending,     \* the buffer of stdio
  pc,          \* "edit", "parse", "execute", "wait", "asleep", "awake", "gone"
  argv,        \* the words of the command
  kids,        \* the children: "none", "running" or "dead"
  fds,         \* descriptors in use
  kept,        \* history: descriptors that commands left open
  starts,      \* history: children that start left, and that were not reaped
  shown,       \* history: the row when the command was given
  fault        \* "none", "line", "argv" or "twin": a second shell on the console

ovars == <<kids, fds, kept, starts>>
vars == <<kind, line, i, screen, pending, pc, argv, ovars, shown, fault>>

Cells == 1..MaxLine
Unreaped == {p \in Pid : kids[p] # "none"}
Dead == {p \in Pid : kids[p] = "dead"}

TypeOK ==
  /\ kind \in Kinds /\ line \in [Cells -> Char \cup {Nul, Junk}] /\ i \in 0..(MaxLine - 1)
  /\ pc \in {"edit", "parse", "execute", "wait", "asleep", "awake", "gone"}
  /\ kids \in [Pid -> {"none", "running", "dead"}] /\ fds \in 0..MaxFd
  /\ fault \in {"none", "line", "argv", "twin"}

Init ==
  /\ kind \in Kinds /\ line \in {[[c \in Cells |-> Junk] EXCEPT ![MaxLine] = x] : x \in {Nul, Junk}}
  /\ i = 0 /\ screen = <<>> /\ pending = <<>> /\ pc = "edit" /\ argv = <<>>
  /\ kids = [p \in Pid |-> "none"] /\ fds = 0 /\ kept = 0 /\ starts = 0
  /\ shown = <<>> /\ fault = "none"

-----------------------------------------------------------------------------
(* Line editing *)

\* The screen after text; "bs" wipes the character before the cursor.
Drawn(s, text) ==
  LET F[n \in 0..Len(text)] ==
        IF n = 0 THEN s
        ELSE IF text[n] = "bs" THEN (IF F[n - 1] = <<>> THEN <<>> ELSE Front(F[n - 1]))
        ELSE Append(F[n - 1], text[n])
  IN  F[Len(text)]

\* flush in library/stdio.c.
Flushed(text) == text
\* The shells put out a character: kshell at once, the user shell through the buffer, which it
\* flushes after each.
Echo(c) ==
  /\ IF kind = "kshell" THEN screen' = Drawn(screen, <<c>>) /\ pending' = pending
     ELSE screen' = Drawn(screen, Flushed(Append(pending, c))) /\ pending' = <<>>

\* The room for one more character: the last place is kept for the null.
\* Mutant: it is not.
Room_All == i < MaxLine
Room == i < MaxLine - 1

\* A printable key.  kshell_readline gives the line back, without a null, when it is full;
\* readline drops the key.
Type(c) ==
  /\ pc = "edit" /\ fault = "none"
  /\ IF Room THEN line' = [line EXCEPT ![i + 1] = c] /\ i' = i + 1 /\ Echo(c)
     ELSE UNCHANGED <<line, i, screen, pending>>
  /\ IF kind = "kshell" /\ i' = MaxLine - 1 THEN pc' = "parse" /\ shown' = screen'
     ELSE UNCHANGED <<pc, shown>>
  /\ UNCHANGED <<kind, argv, ovars, fault>>

Back ==
  /\ pc = "edit" /\ fault = "none" /\ i > 0
  /\ i' = i - 1 /\ Echo("bs")
  /\ UNCHANGED <<kind, line, pc, argv, ovars, shown, fault>>

\* A new prompt.
Prompt == pc' = "edit" /\ i' = 0 /\ screen' = <<>> /\ argv' = <<>> /\ shown' = <<>>

\* The end of the line.  The user shell executes no empty line.
Terminated(l, n) == [l EXCEPT ![n + 1] = Nul]
Enter ==
  /\ pc = "edit" /\ fault = "none"
  /\ line' = Terminated(line, i)
  /\ IF kind = "shell" /\ i = 0 THEN Prompt
     ELSE pc' = "parse" /\ shown' = screen /\ UNCHANGED <<i, screen, argv>>
  /\ UNCHANGED <<kind, pending, ovars, fault>>

-----------------------------------------------------------------------------
(* Parsing *)

\* strtok until it gives no more words, on the characters before the null: it skips spaces,
\* takes what is before the next one and writes a null there.
Words(s) ==
  LET F[n \in 0..Len(s)] ==
        IF n = 0 THEN <<>>
        ELSE IF s[n] = " " THEN F[n - 1]
        ELSE IF n > 1 /\ s[n - 1] # " " THEN [F[n - 1] EXCEPT ![Len(F[n - 1])] = Append(@, s[n])]
        ELSE Append(F[n - 1], <<s[n]>>)
  IN  F[Len(s)]
Ended(l, s) == [c \in Cells |-> IF c \in DOMAIN s /\ c > 1 /\ s[c] = " " /\ s[c - 1] # " " THEN Nul
                                ELSE l[c]]

\* More words than argv has room for: kshell_launch puts a null behind the last; do_command
\* does not keep the name of the command.
TooMany(w) == IF kind = "kshell" THEN Len(w) >= KernelArgs
              ELSE Len(w) > UserArgs + 1 /\ w[1] \in {<<"s">>, <<"r">>}

Nulls == {c \in Cells : line[c] = Nul}
First == CHOOSE c \in Nulls : \A d \in Nulls : c <= d
Parse ==
  /\ pc = "parse" /\ fault = "none"
  /\ IF Nulls = {} THEN fault' = "line" /\ UNCHANGED <<line, argv, pc, i, screen, shown>>
     ELSE LET s == SubSeq(line, 1, First - 1)
              w == Words(s)
          IN  /\ line' = Ended(line, s)
              /\ IF w = <<>> THEN Prompt /\ fault' = fault
                 ELSE IF TooMany(w) THEN fault' = "argv" /\ UNCHANGED <<argv, pc, i, screen, shown>>
                 ELSE argv' = w /\ pc' = "execute" /\ UNCHANGED <<i, screen, shown, fault>>
  /\ UNCHANGED <<kind, pending, ovars>>

-----------------------------------------------------------------------------
(* Commands.  A message ends with a newline, which flushes. *)

Free == {p \in Pid : kids[p] = "none"}
May(c) == pc = "execute" /\ fault = "none" /\ argv[1] = <<c>>
Finished == Prompt /\ UNCHANGED <<kind, line, pending, fault>>

\* A command without its argument, an unknown one, or a program that is not there or cannot be
\* opened because no descriptor is free.  kshell's wait is never refused.
Refused ==
  /\ pc = "execute" /\ fault = "none" /\ (argv[1] = <<"w">> => kind = "shell" /\ Len(argv) > 1)
  /\ Finished /\ UNCHANGED ovars

\* start in kshell: sys_process_run, and the descriptor is closed whether it works or not.
Closed(worked) == fds
StartKernel(worked) ==
  /\ May("s") /\ kind = "kshell" /\ Len(argv) > 1 /\ fds < MaxFd
  /\ fds' = Closed(worked)
  /\ \/ worked /\ \E p \in Free : kids' = [kids EXCEPT ![p] = "running"] /\ starts' = starts + 1
     \/ ~worked /\ UNCHANGED <<kids, starts>>
  /\ Finished /\ UNCHANGED kept

\* start in the user shell: a fork, and exec in the child; the parent keeps the descriptor.  A
\* child whose exec fails goes on as a shell.
StartUser(worked) ==
  /\ May("s") /\ kind = "shell" /\ Len(argv) > 1 /\ fds < MaxFd
  /\ fds' = fds + 1 /\ kept' = kept + 1
  /\ \E p \in Free : kids' = [kids EXCEPT ![p] = "running"] /\ starts' = starts + 1
  /\ fault' = IF worked THEN fault ELSE "twin"
  /\ Prompt /\ UNCHANGED <<kind, line, pending>>

\* run: sys_process_run, then the wait for a child.  kshell does not close the descriptor.
Run(worked) ==
  /\ May("r") /\ Len(argv) > 1 /\ fds < MaxFd
  /\ \/ /\ worked /\ \E p \in Free : kids' = [kids EXCEPT ![p] = "running"]
        /\ fds' = fds + 1 /\ kept' = kept + (IF kind = "kshell" THEN 1 ELSE 0)
        /\ pc' = "wait" /\ UNCHANGED <<i, screen, argv, shown>>
     \/ /\ ~worked /\ kids' = kids /\ Prompt
        /\ IF kind = "kshell" THEN fds' = fds + 1 /\ kept' = kept + 1 ELSE UNCHANGED <<fds, kept>>
  /\ UNCHANGED <<kind, line, pending, starts, fault>>

\* exec in kshell: a new program in its place, or an error with the descriptor left open.
Exec(worked) ==
  /\ May("e") /\ kind = "kshell" /\ Len(argv) > 1 /\ fds < MaxFd
  /\ fds' = fds + 1 /\ kept' = kept + 1 /\ UNCHANGED <<kids, starts>>
  /\ IF worked THEN pc' = "gone" /\ UNCHANGED <<kind, line, i, screen, pending, argv, shown, fault>>
     ELSE Finished

Wait ==
  /\ May("w") /\ (kind = "shell" => Len(argv) = 1)
  /\ pc' = "wait" /\ UNCHANGED <<kind, line, i, screen, pending, argv, ovars, shown, fault>>

\* process_wait_child finds a dead child, any of them.  After run the shell reaps it, and the
\* user shell closes the program's file.  Mutant: the shell does not reap it.
Reaped_Not(p) == kids
Reaped(p) == [kids EXCEPT ![p] = "none"]
Found ==
  /\ pc \in {"wait", "awake"} /\ fault = "none"
  /\ \E p \in Dead :
       IF argv[1] = <<"r">>
       THEN /\ kids' = Reaped(p)
            /\ fds' = fds - (IF kind = "shell" THEN 1 ELSE 0)
       ELSE UNCHANGED <<kids, fds>>
  /\ Finished /\ UNCHANGED <<kept, starts>>
\* It sleeps; a child that dies wakes it.  Only then does it look at the time: wait gives up
\* after 5 seconds, run never does.
Timeout ==
  /\ pc = "awake" /\ fault = "none" /\ argv[1] = <<"w">>
  /\ Finished /\ UNCHANGED ovars
Sleep ==
  /\ pc = "wait" /\ Dead = {} /\ pc' = "asleep"
  /\ UNCHANGED <<kind, line, i, screen, pending, argv, ovars, shown, fault>>

\* reap of a dead child by its number.
Reap ==
  /\ May("p") /\ Len(argv) > 1
  /\ \E p \in Dead : kids' = [kids EXCEPT ![p] = "none"] /\ starts' = starts - 1
  /\ Finished /\ UNCHANGED <<fds, kept>>

\* A child exits.  (A child that is killed does not wake its parent: module Process.)
\* Mutant: the parent sleeps on.
Woken_Not == "asleep"
Woken == "awake"
ChildDies(p) ==
  /\ kids[p] = "running" /\ fault = "none" /\ pc # "gone"
  /\ kids' = [kids EXCEPT ![p] = "dead"]
  /\ pc' = IF pc = "asleep" THEN Woken ELSE pc
  /\ UNCHANGED <<kind, line, i, screen, pending, argv, fds, kept, starts, shown, fault>>

\* A shell without children may sleep for ever; the model ends at a fault, and when a program
\* took the place of the shell.
Rest == (pc = "asleep" \/ fault # "none" \/ pc = "gone") /\ UNCHANGED vars

Acts ==
  \/ Parse \/ Refused \/ Wait \/ Found \/ Sleep \/ Timeout \/ Reap
  \/ \E worked \in BOOLEAN :
       StartKernel(worked) \/ StartUser(worked) \/ Run(worked) \/ Exec(worked)
Next == (\E c \in Char : Type(c)) \/ Back \/ Enter \/ Acts \/ (\E p \in Pid : ChildDies(p)) \/ Rest

\* The shell goes on; programs end; nobody has to type.
Spec == Init /\ [][Next]_vars /\ WF_vars(Acts) /\ \A p \in Pid : WF_vars(ChildDies(p))

-----------------------------------------------------------------------------
\* The row of the screen shows what is in the line while it is typed, over backspaces, the
\* end of the line and the buffer of stdio (kshell_readline, readline).
EchoRight == pc = "edit" => screen = SubSeq(line, 1, i)

\* The command that is executed is the one that the screen shows, and nothing of an earlier
\* line: the words that strtok gives are those of the row.
CommandRight == pc = "execute" => argv = Words(shown)

\* The shells leave their arrays only when a line is full in kshell, which then has no null, or
\* has more words than argv: no other sequence of keys does it.
StaysInside ==
  /\ fault = "line" => kind = "kshell" /\ i = MaxLine - 1
  /\ fault = "argv" => Len(Words(shown)) > (IF kind = "kshell" THEN KernelArgs - 1 ELSE UserArgs + 1)

\* run leaves no child behind: what is not reaped at the prompt was begun by start, whichever
\* child run has reaped (process_wait_child takes any).
NoneLeft == pc = "edit" /\ fault = "none" => Cardinality(Unreaped) = starts

\* Every descriptor in use at the prompt is one that a command leaves open on purpose or not:
\* start of kshell and run of the user shell give theirs back on all their paths.
FdsBack == pc = "edit" => fds = kept

\* The shell is in run, having started its child; it is back at the prompt.
InRun == pc = "wait" /\ argv[1] = <<"r">>
AtPrompt == pc = "edit"
=============================================================================
