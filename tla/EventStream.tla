---------------------------- MODULE EventStream ----------------------------
(***************************************************************************)
(* What a window's event queue promises: a queue of bounded length, whose  *)
(* events are read in the order they were posted, each by one reader, and  *)
(* which drops an event only when it is full.                              *)
(***************************************************************************)
EXTENDS Naturals, Sequences

CONSTANTS Capacity,   \* how many events the queue holds
          Event       \* the events there are

VARIABLES content,    \* posted and not yet read
          read        \* all events read so far, by whomever, in order

svars == <<content, read>>

SInit == content = << >> /\ read = << >>

Post(e) ==
  /\ Len(content) < Capacity
  /\ content' = Append(content, e)
  /\ UNCHANGED read

Take ==
  /\ content # << >>
  /\ read' = Append(read, Head(content))
  /\ content' = Tail(content)

\* An event that finds the queue full changes nothing: it is a stuttering step.
SNext == Take \/ \E e \in Event : Post(e)

SSpec == SInit /\ [][SNext]_svars
=============================================================================
