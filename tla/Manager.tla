------------------------------ MODULE Manager -------------------------------
(***************************************************************************)
(* The window manager, user/manager.c, and what it is made of: events of   *)
(* the root window are read by nw_next_event, keys are passed on to the    *)
(* window that has the focus with console_post or window_post_events, and  *)
(* the programs there read them with console_read or nw_getchar.  Every    *)
(* queue is an event queue that drops what does not fit.                   *)
(***************************************************************************)
EXTENDS Integers, Sequences, FiniteSets, SequencesExt

CONSTANTS
  NWindows,             \* windows, numbered from 0
  Room,                 \* events a queue takes, EVENT_BUFFER_SIZE - 1
  Key,                  \* keys passed on
  MaxTyped              \* bound: events at the keyboard

ManagerAssumption ==
  /\ NWindows \in Nat \ {0}
  /\ Room \in Nat \ {0} /\ MaxTyped \in Nat /\ {"tab", "tilde"} \cap Key = {}

Window == 0..(NWindows - 1)
Down(k) == [type |-> "down", key |-> k]
Up(k) == [type |-> "up", key |-> k]
Event == {Down(k) : k \in Key \cup {"tab", "tilde"}} \cup {Up(k) : k \in Key}
         \cup {[type |-> "close", key |-> "none"]}

VARIABLES
  root,      \* the queue of the root window
  active,    \* the window that has the focus
  queue,     \* the queues of the other windows
  got,       \* the keys the program in a window has read
  child,     \* the programs: "runs", "dead" or "reaped"; "none" if it could not be started
  manager,   \* "runs" or "done"
  taken,     \* history: the events the manager has read
  dropped,   \* history: keys that found a full queue, by window
  typed

vars == <<root, active, queue, got, child, manager, taken, dropped, typed>>

TypeOK ==
  /\ root \in SeqOf(Event, Room) /\ active \in Window
  /\ \A w \in Window : Len(queue[w]) <= Room /\ \A i \in DOMAIN got[w] : got[w][i] \in Key
  /\ child \in [Window -> {"none", "runs", "dead", "reaped"}] /\ manager \in {"runs", "done"}
  /\ dropped \in [Window -> 0..MaxTyped] /\ typed \in 0..MaxTyped

\* main, up to its loop: programs that cannot be opened or started leave their window empty.
Init ==
  /\ root = <<>> /\ active = 0 /\ typed = 0 /\ manager = "runs" /\ taken = <<>>
  /\ queue = [w \in Window |-> <<>>] /\ got = [w \in Window |-> <<>>]
  /\ child \in [Window -> {"none", "runs"}]
  /\ dropped = [w \in Window |-> 0]

\* event_queue_post.  Mutant: the event replaces the last one of a full queue.
Posted_Over(q, e) == IF Len(q) < Room THEN Append(q, e) ELSE Append(Front(q), e)
Posted(q, e) == IF Len(q) < Room THEN Append(q, e) ELSE q

\* The keyboard interrupt.
Type(e) ==
  /\ typed < MaxTyped /\ typed' = typed + 1
  /\ root' = Posted(root, e)
  /\ UNCHANGED <<active, queue, got, child, manager, taken, dropped>>

\* Switching the focus.
NextWindow(w) == (w + 1) % NWindows

\* A key for the window in focus: console_post makes an event of its code, nw_post_events
\* passes the event on as it is.
Post(e) == [queue EXCEPT ![active] = Posted(@, e)]

\* One round of the loop.  When it ends the programs that have ended are reaped.
Manage ==
  LET e == Head(root)
      ends == e.type = "close" \/ e = Down("tilde")
      passed == e.type = "down" /\ e.key \in Key
  IN  /\ manager = "runs" /\ root # <<>>
      /\ root' = Tail(root) /\ taken' = Append(taken, e)
      /\ active' = IF e = Down("tab") THEN NextWindow(active) ELSE active
      /\ queue' = IF passed THEN Post(e) ELSE queue
      /\ dropped' = IF passed /\ Len(queue[active]) >= Room THEN [dropped EXCEPT ![active] = @ + 1]
                    ELSE dropped
      /\ manager' = IF ends THEN "done" ELSE manager
      /\ child' = IF ends THEN [w \in Window |-> IF child[w] = "dead" THEN "reaped" ELSE child[w]]
                  ELSE child
      /\ UNCHANGED <<got, typed>>

\* console_read of one character and nw_getchar: events that are no key are skipped.
Read(w) ==
  /\ child[w] = "runs" /\ queue[w] # <<>>
  /\ got' = IF Head(queue[w]).type = "down" THEN [got EXCEPT ![w] = Append(@, Head(queue[w]).key)] ELSE got
  /\ queue' = [queue EXCEPT ![w] = Tail(@)]
  /\ UNCHANGED <<root, active, child, manager, taken, dropped, typed>>

\* A program ends; its window stays with the manager.
End(w) ==
  /\ child[w] = "runs" /\ child' = [child EXCEPT ![w] = "dead"]
  /\ UNCHANGED <<root, active, queue, got, manager, taken, dropped, typed>>

Next ==
  \/ Manage
  \/ \E e \in Event : Type(e)
  \/ \E w \in Window : Read(w) \/ End(w)
Spec == Init /\ [][Next]_vars

-----------------------------------------------------------------------------
(* Properties *)

\* Keys follow the focus: a program reads the keys that were pressed while its window had
\* the focus, in their order and once, whatever the queues in between still held when the
\* focus changed; only full queues lose keys.
Focus(i) == Cardinality({j \in 1..(i - 1) : taken[j] = Down("tab")}) % NWindows
Meant(w) ==
  LET mine == {i \in DOMAIN taken : taken[i].type = "down" /\ taken[i].key \in Key /\ Focus(i) = w}
      at == [n \in 1..Cardinality(mine) |-> CHOOSE i \in mine : Cardinality({j \in mine : j < i}) = n - 1]
  IN  [n \in 1..Cardinality(mine) |-> taken[at[n]].key]
Held(w) == got[w] \o [i \in DOMAIN queue[w] |-> queue[w][i].key]
FocusRight ==
  \A w \in Window :
    /\ dropped[w] = 0 => Held(w) = Meant(w)
    /\ Len(Held(w)) + dropped[w] = Len(Meant(w))
    /\ IsPrefix(SubSeq(Meant(w), 1, Min({Room, Len(Meant(w))})), Held(w))
=============================================================================
