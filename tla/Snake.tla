------------------------------- MODULE Snake -------------------------------
(***************************************************************************)
(* The game of user/snake.c.  The snake is an array whose first length     *)
(* entries are its segments; growing makes the entries behind them into    *)
(* segments without setting them, so they show whatever was there: memory  *)
(* never written, or places of an earlier game.  init_snake_coords steps   *)
(* its pointer to the length instead of reading the length, so how many    *)
(* segments it sets depends on the words behind that variable.             *)
(***************************************************************************)
EXTENDS Integers

CONSTANTS
  XSteps, YSteps,  \* size of the board
  SNAKE_MAX,
  Growth           \* segments gained by an apple, 5 in the code

SnakeAssumption ==
  /\ XSteps \in Nat /\ YSteps \in Nat /\ XSteps > 2 /\ YSteps > 1
  /\ SNAKE_MAX \in Nat /\ SNAKE_MAX > 3 /\ Growth \in Nat \ {0}

VARIABLES
  phase,    \* "title", "play", "lost", "quit"; "wild" once it wrote outside of snake
  snake, length, apple, dir,
  screen    \* the colour of each place of the board

vars == <<phase, snake, length, apple, dir, screen>>

Board == (0..(XSteps - 1)) \X (0..(YSteps - 1))
Index == 0..(SNAKE_MAX - 1)
\* Two examples of what memory never written may hold: a place of the board and none.
Stale == {<<0, 0>>, <<XSteps, YSteps>>}
Places == (-SNAKE_MAX..XSteps) \X (-1..YSteps)
Directions == {"a", "d", "w", "s"}

TypeOK ==
  /\ phase \in {"title", "play", "lost", "quit", "wild"} /\ dir \in Directions
  /\ snake \in [Index -> Places] /\ length \in 3..SNAKE_MAX
  /\ apple \in Board /\ screen \in [Board -> {"black", "green", "red"}]
  /\ phase = "play" => snake[0] \in Board

Black == [p \in Board |-> "black"]
Init ==
  /\ phase = "title" /\ snake \in [Index -> Stale] /\ length = 3 /\ dir = "d"
  /\ apple = <<0, 0>> /\ screen = Black

\* scaled_rect: what lies outside of the board is not shown.
Painted(s, p, c) == [q \in Board |-> IF q = p THEN c ELSE s[q]]

\* init_snake_coords sets n segments.
Coiled(n) ==
  [i \in Index |-> IF i < n THEN <<XSteps \div 2 - i, YSteps \div 2>> ELSE snake[i]]

\* A game begins: the board is cleared and an apple laid.
Begin(key) ==
  /\ \/ phase = "title"
     \/ phase = "lost" /\ key # "q"
  /\ dir' = "d" /\ length' = 3
  /\ \/ /\ \E n \in 2..SNAKE_MAX : snake' = Coiled(n)
        /\ apple' \in Board
        /\ screen' = Painted(Black, apple', "red")
        /\ phase' = "play"
     \/ phase' = "wild" /\ UNCHANGED <<snake, apple, screen>>

Quit ==
  /\ phase = "lost" /\ phase' = "quit"
  /\ UNCHANGED <<snake, length, apple, dir, screen>>

\* A turn that would lead straight back is not taken.  Mutant: only left and right are looked at.
Turn_Level(key) ==
  IF key \notin Directions \/ <<key, dir>> \in {<<"a", "d">>, <<"d", "a">>} THEN dir ELSE key
Turn(key) ==
  IF key \notin Directions \/ <<key, dir>> \in {<<"a", "d">>, <<"d", "a">>, <<"w", "s">>, <<"s", "w">>}
  THEN dir ELSE key

Ahead(d) ==
  LET x == snake[0][1]
      y == snake[0][2]
  IN  CASE d = "a" -> <<x - 1, y>> [] d = "d" -> <<x + 1, y>>
        [] d = "w" -> <<x, y - 1>> [] d = "s" -> <<x, y + 1>>

\* The walls.
Outside(p) == p[1] <= -1 \/ p[1] >= XSteps \/ p[2] <= -1 \/ p[2] >= YSteps

\* update_snake: a snake that does not grow has its last segment blacked out, then all follow.
Follow(p, n) == [i \in Index |-> IF i = 0 THEN p ELSE IF i < n THEN snake[i - 1] ELSE snake[i]]
\* Mutant: the array is shifted first, and its entry behind the snake blacked out.
Vacated_Late(p) == Painted(screen, Follow(p, length)[IF length < SNAKE_MAX THEN length ELSE 0], "black")
Vacated(p) == Painted(screen, snake[length - 1], "black")

\* check_snake_collision.
Bitten(s, n) == \E i \in 1..(n - 1) : s[i] = s[0]

\* One round of the loop of main: a key or none, then move_snake.
Move(key) ==
  LET p == Ahead(Turn(key))
      n == IF p = apple THEN length + Growth ELSE length
  IN  /\ phase = "play"
      /\ IF key = "q" THEN phase' = "lost" /\ UNCHANGED <<dir, snake, length, apple, screen>>
         ELSE /\ dir' = Turn(key)
              /\ IF Outside(p) THEN phase' = "lost" /\ UNCHANGED <<snake, length, apple, screen>>
                 ELSE IF n > SNAKE_MAX THEN phase' = "wild" /\ UNCHANGED <<snake, length, apple, screen>>
                 ELSE /\ snake' = Follow(p, n) /\ length' = n
                      /\ IF p = apple
                         THEN /\ apple' \in Board
                              /\ screen' = Painted(Painted(screen, p, "green"), apple', "red")
                         ELSE /\ screen' = Painted(Vacated(p), p, "green")
                              /\ UNCHANGED apple
                      /\ phase' = IF Bitten(snake', n) THEN "lost" ELSE "play"

Next == Quit \/ \E key \in Directions \cup {"q", "none"} : Begin(key) \/ Move(key)

Spec == Init /\ [][Next]_vars

----------------------------------------------------------------------------
\* The snake never turns back onto the segment behind its head, whatever keys come and whatever
\* the array held before (the comment "reject conflicting input" of main).
NoReversal ==
  phase = "play" /\ snake'[0] # snake[0] => snake'[0] # snake[1]

\* Nothing green stays behind: what is shown green is a segment, although a grown snake first
\* blacks out the stale places that became segments (update_snake).
GreenIsSnake ==
  phase \in {"play", "lost"} =>
    \A p \in Board : screen[p] = "green" => \E i \in 0..(length - 1) : snake[i] = p
=============================================================================
