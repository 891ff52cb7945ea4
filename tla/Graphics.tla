------------------------------ MODULE Graphics ------------------------------
(***************************************************************************)
(* Windows and drawing: kernel/window.c, kernel/graphics.c and             *)
(* kernel/bitmap.c.  A window has a clip, a part of the screen, and draws  *)
(* relative to it.  What a command changes is the set of points it plots;  *)
(* colours are left out.  A point may lie outside of the clip, and even of *)
(* the frame buffer, for plot_pixel computes an address and checks         *)
(* nothing.                                                                *)
(***************************************************************************)
EXTENDS Integers, Sequences, FiniteSets, FiniteSetsExt

CONSTANTS
  Width, Height,    \* of the screen
  Font,             \* FONT_WIDTH and FONT_HEIGHT
  MaxWin,           \* bound: windows alive at a time
  Place,            \* origins and sizes that windows are asked for, along with -1
  Reach,            \* bound: arguments of drawing commands; 0 for no drawing
  Factor            \* FACTOR, the unit of slopes

GraphicsAssumption ==
  /\ {Width, Height, Font, MaxWin, Factor} \subseteq Nat \ {0}
  /\ Place \subseteq Nat /\ Reach \in Nat

Asked == Place \cup {-1}
Win == 1..MaxWin
Root == 1

VARIABLES
  win,      \* the windows: parent, clip, and the references to window and graphics
  owned,    \* windows that are open; a window lives on while it has children
  drawn     \* the last command: its window, operation and arguments, and its points

vars == <<win, owned, drawn>>

NoWin == [ref |-> 0, gref |-> 0, parent |-> 0, x |-> 0, y |-> 0, w |-> 0, h |-> 0]
NoDraw == [win |-> Root, op |-> "none", x |-> 0, y |-> 0, w |-> 0, h |-> 0, points |-> {}]

TypeOK ==
  /\ win \in [Win -> [ref : 0..(MaxWin + 1), gref : 0..(MaxWin + 1), parent : 0..MaxWin,
                      x : 0..Width, y : 0..Height, w : 0..Width, h : 0..Height]]
  /\ owned \subseteq Win
  /\ drawn.win \in Win /\ drawn.op \in {"none", "rect", "line", "text"}

\* window_create_root, graphics_create_root, bitmap_create_root.
Init ==
  /\ win = [i \in Win |-> IF i = Root THEN [ref |-> 1, gref |-> 1, parent |-> 0, x |-> 0, y |-> 0,
                                            w |-> Width, h |-> Height]
                          ELSE NoWin]
  /\ owned = {Root}
  /\ drawn = NoDraw

-----------------------------------------------------------------------------
(* Windows *)

\* graphics_clip, for a graphics that has the clip of its parent: the new clip is
\* compared with the screen.
Fits(p, x, y, w, h) ==
  /\ x >= 0 /\ y >= 0 /\ w >= 0 /\ h >= 0
  /\ win[p].x + x < Width /\ win[p].y + y < Width
  /\ win[p].x + x + w < Width /\ win[p].y + y + h < Height

\* window_create with graphics_create: a clip that does not fit is ignored, and the
\* window covers its parent.  (Nobody looks at the counts of the root; they are left out.)
window_create(p, x, y, w, h) ==
  LET n == Min({i \in Win : win[i].ref = 0})
      clip == IF Fits(p, x, y, w, h) THEN [x |-> win[p].x + x, y |-> win[p].y + y, w |-> w, h |-> h]
              ELSE [x |-> win[p].x, y |-> win[p].y, w |-> win[p].w, h |-> win[p].h]
  IN  /\ p \in owned /\ drawn = NoDraw /\ \E i \in Win : win[i].ref = 0
      /\ win' = [win EXCEPT ![n] = [ref |-> 1, gref |-> 1, parent |-> p,
                                    x |-> clip.x, y |-> clip.y, w |-> clip.w, h |-> clip.h],
                            ![p].ref = IF p = Root THEN @ ELSE @ + 1,
                            ![p].gref = IF p = Root THEN @ ELSE @ + 1]
      /\ owned' = owned \cup {n}
      /\ UNCHANGED drawn

\* window_delete and graphics_delete: the last reference takes one from the parent.
\* Mutant: the graphics of the parent is not released.
Released_Not(s, i) == [s EXCEPT ![i].gref = @ - 1]
Released(s, i) ==
  LET G[j \in Win] == IF s[j].gref > 1 \/ s[j].parent \in {0, Root} THEN {j} ELSE {j} \cup G[s[j].parent]
  IN  [j \in Win |-> IF j \in G[i] \ {Root} THEN [s[j] EXCEPT !.gref = @ - 1] ELSE s[j]]
Deleted(i) ==
  LET D[k \in 0..MaxWin] ==      \* after k windows of the chain to the root
        IF k = 0 THEN [s |-> win, at |-> i]
        ELSE LET d == D[k - 1]
                 last == d.s[d.at].ref = 1
                 t == [d.s EXCEPT ![d.at].ref = @ - 1]
                 u == IF last THEN Released(t, d.at) ELSE t
             IN  IF d.at \in {0, Root} THEN d
                 ELSE [s |-> IF last THEN [u EXCEPT ![d.at] = [NoWin EXCEPT !.gref = u[d.at].gref]] ELSE u,
                       at |-> IF last THEN t[d.at].parent ELSE 0]
  IN  D[MaxWin].s
window_delete(i) ==
  /\ i \in owned \ {Root} /\ drawn = NoDraw
  /\ win' = Deleted(i)
  /\ owned' = owned \ {i}
  /\ UNCHANGED drawn

-----------------------------------------------------------------------------
(* Drawing *)

\* MIN of an unsigned and a signed number: a negative one counts as very large.
MinU(a, b) == IF a < 0 /\ b >= 0 THEN b ELSE IF b < 0 /\ a >= 0 THEN a ELSE Min({a, b})
Box(i, x, y, w, h) ==
  ((win[i].x + x)..(win[i].x + x + w - 1)) \X ((win[i].y + y)..(win[i].y + y + h - 1))

\* graphics_rect and graphics_clear: what is left of the origin is cut off.
rect(i, x, y, w, h) ==
  LET c == [x |-> Max({x, 0}), y |-> Max({y, 0}), w |-> IF x < 0 THEN w + x ELSE w,
            h |-> IF y < 0 THEN h + y ELSE h]
  IN  IF c.x > win[i].w \/ c.y > win[i].h THEN {}
      ELSE Box(i, c.x, c.y, MinU(win[i].w - c.x, c.w), MinU(win[i].h - c.y, c.h))

\* graphics_line_q1 and the others: n points, one aside whenever the slope has added up.
Aside(n, slope) ==
  LET S[k \in 0..n] ==
        IF k = 0 THEN [count |-> 0, a |-> 0]
        ELSE LET t == S[k - 1].count + slope
             IN  IF t > Factor THEN [count |-> t - Factor, a |-> S[k - 1].a + 1]
                 ELSE [count |-> t, a |-> S[k - 1].a]
  IN  [k \in 0..(n - 1) |-> S[k].a]

\* The points of a line from its origin, for w >= 0.
Strokes(w, h) ==
  LET tall == Aside(Max({h, -h}), (Factor * w) \div Max({h, -h}))
      flat == Aside(w, (Factor * Max({h, -h})) \div w)
  IN  CASE h = 0 -> {<<k, 0>> : k \in 0..Max({w - 1, 0})}
        [] h # 0 /\ w = 0 -> {<<0, k>> : k \in IF h > 0 THEN 0..(h - 1) ELSE h..(-1)}
        [] w > 0 /\ h > w -> {<<tall[k], k>> : k \in DOMAIN tall}
        [] w > 0 /\ h > 0 /\ h <= w -> {<<k, flat[k]>> : k \in DOMAIN flat}
        [] w > 0 /\ h < 0 /\ -h < w -> {<<k, -flat[k]>> : k \in DOMAIN flat}
        [] w > 0 /\ h < 0 /\ -h >= w -> {<<tall[k], -k>> : k \in DOMAIN tall}

\* graphics_line: a line to the left is turned round; one that leaves the window is not
\* drawn.  The comparisons are of unsigned numbers.
\* Mutant: only the two ends are looked at, and only for the right and the lower edge.
Visible_Ends(i, a, b, w, h) == a <= win[i].w /\ b <= win[i].h /\ a + w < win[i].w /\ b + h < win[i].h
Visible(i, a, b, w, h) ==
  /\ a >= 0 /\ b >= 0 /\ a <= win[i].w /\ b <= win[i].h
  /\ a + w < win[i].w /\ b + h < win[i].h /\ b + h >= 0
line(i, x, y, w, h) ==
  LET l == IF w < 0 THEN [x |-> x + w, y |-> y + h, w |-> -w, h |-> -h] ELSE [x |-> x, y |-> y, w |-> w, h |-> h]
  IN  IF ~Visible(i, l.x, l.y, l.w, l.h) THEN {}
      ELSE {<<win[i].x + l.x + s[1], win[i].y + l.y + s[2]>> : s \in Strokes(l.w, l.h)}

\* graphics_char, by graphics_bitmap: cut at the right and the lower edge only.
text(i, x, y) == Box(i, x, y, MinU(win[i].w - x, Font), MinU(win[i].h - y, Font))

\* The arguments of the next command; none before the last has been looked at.
Argument == IF Reach = 0 \/ drawn # NoDraw THEN {} ELSE (-Reach)..Reach

\* One command of graphics_write.  It does not depend on what was drawn before, so that
\* commands are looked at one by one.
Draw(i, op, x, y, w, h) ==
  /\ i \in owned
  /\ drawn' = [win |-> i, op |-> op, x |-> x, y |-> y, w |-> w, h |-> h,
               points |-> CASE op = "rect" -> rect(i, x, y, w, h)
                            [] op = "line" -> line(i, x, y, w, h)
                            [] op = "text" -> text(i, x, y)]
  /\ UNCHANGED <<win, owned>>
Drawn == drawn # NoDraw /\ drawn' = NoDraw /\ UNCHANGED <<win, owned>>

Next ==
  \/ Drawn
  \/ \E p \in Win, x, y, w, h \in Asked : window_create(p, x, y, w, h)
  \/ \E i \in Win : window_delete(i)
  \/ \E i \in Win, op \in {"rect", "line"}, x, y, w, h \in Argument : Draw(i, op, x, y, w, h)
  \/ \E i \in Win, x, y \in Argument : Draw(i, "text", x, y, Font, Font)

Spec == Init /\ [][Next]_vars

-----------------------------------------------------------------------------
(* Properties *)

\* Every window, its ancestors and their graphics are there as long as it is, and no
\* longer: the counts of windows and of graphics are exact, in whatever order windows
\* are closed.
RefsExact ==
  \A i \in Win \ {Root} :
    LET n == Cardinality({j \in Win : win[j].ref > 0 /\ win[j].parent = i})
        own == IF i \in owned THEN 1 ELSE 0
    IN  /\ win[i].ref = own + n
        /\ win[i].gref = IF win[i].ref = 0 THEN 0 ELSE 1 + n

\* Windows are on the screen: no choice of origins and sizes leads out of it.
OnScreen == \A i \in Win : win[i].x + win[i].w <= Width /\ win[i].y + win[i].h <= Height

\* Drawing stays in the window, whatever the arguments, except for text that begins
\* outside of it (graphics_bitmap looks at two edges only) and lines that rise from the
\* row below it (y > clip.h should be y >= clip.h).
Inside(d) == d.points \subseteq Box(d.win, 0, 0, win[d.win].w, win[d.win].h)
StaysInside ==
  LET d == drawn IN
  \/ Inside(d)
  \/ d.op = "text" /\ ~(d.x \in 0..win[d.win].w /\ d.y \in 0..win[d.win].h)
  \/ d.op = "line" /\ win[d.win].h \in {d.y, d.y + d.h}

\* A rectangle is drawn where it meets the window, unless cutting it off at the left or
\* at the top leaves nothing: then it is drawn up to the opposite edge.
RectRight ==
  LET d == drawn IN
  d.op = "rect" /\ d.w + Min({d.x, 0}) >= 0 /\ d.h + Min({d.y, 0}) >= 0
    => d.points = Box(d.win, d.x, d.y, d.w, d.h) \cap Box(d.win, 0, 0, win[d.win].w, win[d.win].h)

\* A line that is drawn begins at its origin (its end, when it goes to the left; its upper
\* end when it is vertical) and is connected and has the length it was asked for.
LineRight ==
  LET d == drawn
      n == Max({d.w, -d.w, d.h, -d.h, 1})
  IN  d.op = "line" /\ d.points # {} =>
        /\ Cardinality(d.points) = n
        /\ d.w > 0 => <<win[d.win].x + d.x, win[d.win].y + d.y>> \in d.points
        /\ \A p \in d.points : n = 1 \/ \E q \in d.points \ {p} :
             p[1] - q[1] \in {-1, 0, 1} /\ p[2] - q[2] \in {-1, 0, 1}
=============================================================================
