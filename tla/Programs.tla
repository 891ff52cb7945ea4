------------------------------ MODULE Programs ------------------------------
(***************************************************************************)
(* The instances of the user programs, the shells, the string functions    *)
(* and the window library that TLC checks: Shell, Manager, Nwindow, Snake  *)
(* and Text.  They share nothing, so a behaviour is one of a single part,  *)
(* which is chosen at the beginning, and its variables are in v1, v2, ...  *)
(***************************************************************************)
EXTENDS Integers, Sequences

VARIABLES
  part,   \* the part that runs, chosen at the beginning
  v1, v2, v3, v4, v5, v6, v7, v8, v9, v10, v11, v12, v13   \* its variables; a part with fewer leaves the rest 0

Shell == INSTANCE Shell WITH
  Kinds <- {"kshell", "shell"}, Char <- {"r", "s", "w", "p", " "}, MaxLine <- 5,
  KernelArgs <- 3, UserArgs <- 2, Pid <- {1, 2}, MaxFd <- 2,
  kind <- v1, line <- v2, i <- v3, screen <- v4, pending <- v5, pc <- v6, argv <- v7,
  kids <- v8, fds <- v9, kept <- v10, starts <- v11, shown <- v12, fault <- v13
LongLine == INSTANCE Shell WITH
  Kinds <- {"kshell", "shell"}, Char <- {"s", "e", " "}, MaxLine <- 6, KernelArgs <- 3,
  UserArgs <- 1, Pid <- {1}, MaxFd <- 2,
  kind <- v1, line <- v2, i <- v3, screen <- v4, pending <- v5, pc <- v6, argv <- v7,
  kids <- v8, fds <- v9, kept <- v10, starts <- v11, shown <- v12, fault <- v13
Manager == INSTANCE Manager WITH
  NWindows <- 2, Room <- 2, Key <- {"k", "l"}, MaxTyped <- 5,
  root <- v1, active <- v2, queue <- v3, got <- v4, child <- v5, manager <- v6, taken <- v7,
  dropped <- v8, typed <- v9
Nwindow == INSTANCE Nwindow WITH
  PageSize <- 14, WordSize <- 4, MaxText <- 2, MaxDraw <- 4,
  buffer <- v1, pending <- v2, flushed <- v3, draws <- v4
Snake == INSTANCE Snake WITH
  XSteps <- 4, YSteps <- 2, SNAKE_MAX <- 5, Growth <- 2,
  phase <- v1, snake <- v2, length <- v3, apple <- v4, dir <- v5, screen <- v6
Text == INSTANCE Text WITH
  Bits <- 12, Char <- {44, 48, 57, 58, 95, 97, 200}, Length <- 4, Pair <- 3,
  Format <- {"%", "d", "s", "z"},
  Functions <- {"strcmp", "putuint", "putint", "puthex", "uint_to_string", "str2int", "printf", "is_valid"},
  call <- v1

vars == <<part, v1, v2, v3, v4, v5, v6, v7, v8, v9, v10, v11, v12, v13>>

-----------------------------------------------------------------------------
Init ==
  \/ part = "shell" /\ Shell!Init
  \/ part = "long" /\ LongLine!Init
  \/ part = "manager" /\ Manager!Init /\ v10 = 0 /\ v11 = 0 /\ v12 = 0 /\ v13 = 0
  \/ part = "nwindow" /\ Nwindow!Init
      /\ v5 = 0 /\ v6 = 0 /\ v7 = 0 /\ v8 = 0 /\ v9 = 0 /\ v10 = 0 /\ v11 = 0 /\ v12 = 0 /\ v13 = 0
  \/ part = "snake" /\ Snake!Init
      /\ v7 = 0 /\ v8 = 0 /\ v9 = 0 /\ v10 = 0 /\ v11 = 0 /\ v12 = 0 /\ v13 = 0
  \/ part = "text" /\ Text!Init
      /\ v2 = 0 /\ v3 = 0 /\ v4 = 0 /\ v5 = 0 /\ v6 = 0 /\ v7 = 0 /\ v8 = 0 /\ v9 = 0 /\ v10 = 0
      /\ v11 = 0 /\ v12 = 0 /\ v13 = 0

InShell == part = "shell" /\ UNCHANGED part
InLongLine == part = "long" /\ UNCHANGED part
InManager == part = "manager" /\ UNCHANGED <<part, v10, v11, v12, v13>>
InNwindow == part = "nwindow" /\ UNCHANGED <<part, v5, v6, v7, v8, v9, v10, v11, v12, v13>>
InSnake == part = "snake" /\ UNCHANGED <<part, v7, v8, v9, v10, v11, v12, v13>>
InText == part = "text" /\ UNCHANGED <<part, v2, v3, v4, v5, v6, v7, v8, v9, v10, v11, v12, v13>>

Next ==
  \/ InShell /\ Shell!Next
  \/ InLongLine /\ LongLine!Next
  \/ InManager /\ Manager!Next
  \/ InNwindow /\ Nwindow!Next
  \/ InSnake /\ Snake!Next
  \/ InText /\ Text!Next
  \/ part \in {"manager", "nwindow", "snake"} /\ UNCHANGED vars

ASSUME /\ Shell!ShellAssumption /\ LongLine!ShellAssumption /\ Manager!ManagerAssumption
       /\ Nwindow!WindowAssumption /\ Snake!SnakeAssumption /\ Text!TextAssumption

Spec == Init /\ [][Next]_vars

-----------------------------------------------------------------------------
\* Programs do what was typed.  The shells show and execute the line that was typed, leave no
\* child and no descriptor behind, and write behind their arrays only for lines that are too
\* long; the window manager gives each key to the window in focus and to no other, in
\* order; the drawing commands of a program reach the kernel whole and in order; and the snake
\* never turns back onto itself and leaves nothing green behind.
ProgramsRight ==
  /\ [](part = "shell" => /\ Shell!TypeOK /\ Shell!EchoRight /\ Shell!CommandRight
                         /\ Shell!NoneLeft /\ Shell!FdsBack)
  /\ [](part = "long" => LongLine!StaysInside)
  /\ [](part = "manager" => Manager!TypeOK /\ Manager!FocusRight)
  /\ [](part = "nwindow" => Nwindow!TypeOK /\ Nwindow!StreamRight)
  /\ [](part = "snake" => Snake!TypeOK /\ Snake!GreenIsSnake)
  /\ [][part = "snake" => Snake!NoReversal]_vars

\* The string functions, printf and the checks of names agree with their references for all
\* short strings, and for all numbers of a word of 12 bits.
TextRight ==
  part = "text" =>
    /\ Text!TypeOK /\ Text!CompareRight /\ Text!DecimalRight /\ Text!HexRight
    /\ Text!ParseRight /\ Text!PrintfRight /\ Text!PathRight
=============================================================================
