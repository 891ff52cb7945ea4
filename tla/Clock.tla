-------------------------------- MODULE Clock -------------------------------
(***************************************************************************)
(* Time as the kernel keeps and measures it: kernel/clock.c, and the loop  *)
(* of ata_wait (kernel/ata.c) that measures in the same way.  clock_read   *)
(* loads seconds and clicks one after the other; a process that was woken  *)
(* runs with interrupts on, so a tick may come between the two.  Words are *)
(* unsigned and wrap at Word; a second is Thousand milliseconds.           *)
(***************************************************************************)
EXTENDS Integers

CONSTANTS
  ClicksPerSecond,
  Thousand,        \* milliseconds in a second, a multiple of ClicksPerSecond
  Word,            \* where a word wraps
  Millis,          \* the times to be waited for
  MaxLag           \* bound: ticks between two looks at the clock of one process

ClockAssumption ==
  /\ ClicksPerSecond \in Nat \ {0, 1} /\ Thousand \in Nat /\ Thousand % ClicksPerSecond = 0
  /\ Thousand > 0 /\ Word \in Nat /\ MaxLag \in Nat \ {0}
  /\ \A m \in Millis : m \in Nat /\ m + (Thousand * (MaxLag + 2)) < Word

VARIABLES
  clicks, seconds,
  pc,         \* "idle", "start" of the first clock_read, "asleep", "read" and "check" of the
              \* others, "done"
  loaded,     \* the seconds that clock_read has loaded
  start,      \* the time at which the wait began
  elapsed,    \* what clock_diff gave last
  millis,     \* how long to wait
  passed,     \* history: milliseconds that passed since the first reading
  rolled,     \* history: the seconds went on between the two loads of this reading
  torn,       \* history: the reading of start, or the last one, was such a one
  lag

vars == <<clicks, seconds, pc, loaded, start, elapsed, millis, passed, rolled, torn, lag>>

Time == [seconds : 0..(Word - 1), millis : 0..(Word - 1)]
TypeOK ==
  /\ clicks \in 0..(ClicksPerSecond - 1) /\ seconds \in 0..(Word - 1)
  /\ pc \in {"idle", "start", "asleep", "read", "check", "done"}
  /\ loaded \in 0..(Word - 1) /\ start \in Time /\ elapsed \in Time
  /\ millis \in Millis \cup {0} /\ passed \in 0..Word /\ lag \in 0..MaxLag

Init ==
  /\ clicks \in 0..(ClicksPerSecond - 1) /\ seconds \in {0, Word - 1} /\ pc = "idle" /\ loaded = 0
  /\ start = [seconds |-> 0, millis |-> 0] /\ elapsed = start /\ millis = 0
  /\ passed = 0 /\ rolled = FALSE /\ torn = {} /\ lag = 0

Click == Thousand \div ClicksPerSecond

\* clock_interrupt: the next click or second, and everyone who waits is woken.
Full(c) == c >= ClicksPerSecond
\* process_wakeup_all.  Mutant: nobody is woken.
Woken_None(at) == at
Woken(at) == IF at = "asleep" THEN "read" ELSE at
clock_interrupt ==
  /\ lag < MaxLag
  /\ clicks' = (IF Full(clicks + 1) THEN 0 ELSE clicks + 1)
  /\ seconds' = (IF Full(clicks + 1) THEN (seconds + 1) % Word ELSE seconds)
  /\ pc' = Woken(pc)
  /\ lag' = (IF pc \in {"idle", "done", "asleep"} THEN 0 ELSE lag + 1)
  /\ rolled' = (rolled \/ (pc \in {"start", "check"} /\ Full(clicks + 1)))
  /\ passed' = (IF pc \in {"asleep", "read", "check"} /\ passed < Word
                THEN passed + Click ELSE passed)
  /\ UNCHANGED <<loaded, start, elapsed, millis, torn>>

\* clock_read: the seconds, then the milliseconds of the clicks.
LoadSeconds == loaded' = seconds /\ rolled' = FALSE
Now == [seconds |-> loaded, millis |-> clicks * Click]

\* clock_diff.  Mutant: the second that is borrowed is not taken away.
clock_diff_Kept(from, to) ==
  [seconds |-> (to.seconds - from.seconds) % Word,
   millis  |-> (IF to.millis < from.millis THEN to.millis + Thousand ELSE to.millis) - from.millis]
clock_diff(from, to) ==
  LET borrow == to.millis < from.millis
  IN  [seconds |-> ((IF borrow THEN to.seconds - 1 ELSE to.seconds) - from.seconds) % Word,
       millis  |-> (IF borrow THEN to.millis + Thousand ELSE to.millis) - from.millis]
Total(e) == (e.millis + (e.seconds * Thousand)) % Word

\* clock_wait begins: its first clock_read.
Begin(m) ==
  /\ pc = "idle" /\ millis' = m /\ LoadSeconds /\ pc' = "start" /\ lag' = 0
  /\ UNCHANGED <<clicks, seconds, start, elapsed, passed, torn>>
Started ==
  /\ pc = "start" /\ start' = Now /\ pc' = "asleep" /\ lag' = 0 /\ passed' = 0
  /\ torn' = IF rolled THEN {"start"} ELSE {}
  /\ UNCHANGED <<clicks, seconds, loaded, elapsed, millis, rolled>>

\* Woken, it reads the clock again; it is done when the time is up.
Up(e) == Total(e) >= millis
Read ==
  /\ pc = "read" /\ LoadSeconds /\ pc' = "check"
  /\ UNCHANGED <<clicks, seconds, start, elapsed, millis, passed, torn, lag>>
Check ==
  /\ pc = "check"
  /\ elapsed' = clock_diff(start, Now)
  /\ torn' = (torn \ {"last"}) \cup (IF rolled THEN {"last"} ELSE {})
  /\ pc' = (IF Up(elapsed') THEN "done" ELSE "asleep") /\ lag' = 0
  /\ UNCHANGED <<clicks, seconds, loaded, start, millis, passed, rolled>>
Return ==
  /\ pc = "done" /\ pc' = "idle" /\ millis' = 0 /\ passed' = 0 /\ torn' = {} /\ rolled' = FALSE
  /\ start' = [seconds |-> 0, millis |-> 0] /\ elapsed' = start' /\ loaded' = 0 /\ lag' = 0
  /\ UNCHANGED <<clicks, seconds>>

Acts == (\E m \in Millis : Begin(m)) \/ Started \/ Read \/ Check \/ Return
Next == clock_interrupt \/ Acts
\* The clock ticks, and the process that was woken runs.
Spec == Init /\ [][Next]_vars /\ WF_vars(clock_interrupt) /\ WF_vars(Acts)

-----------------------------------------------------------------------------
\* What clock_diff gives is the time that has passed, over the end of a second and over the
\* wrap of the seconds, unless one of the two readings was torn.
ElapsedRight ==
  torn = {} => /\ pc = "done" => Total(elapsed) = passed
               /\ pc = "asleep" => Total(elapsed) <= passed

Asleep == pc = "asleep"
Over == pc = "done"
=============================================================================
