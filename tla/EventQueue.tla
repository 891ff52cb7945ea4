----------------------------- MODULE EventQueue -----------------------------
(***************************************************************************)
(* The event queue of a window, kernel/event_queue.c, between the device   *)
(* interrupts that post events and the processes that read them.           *)
(*                                                                         *)
(* An interrupt handler runs whenever interrupts are not blocked, between  *)
(* any two accesses of the reader to the queue.  A read starts with        *)
(* interrupts blocked; process_switch, however, returns with interrupts    *)
(* unblocked, and the loop of event_queue_read_raw does not block them     *)
(* again.  Processes only switch inside process_wait and process_yield.    *)
(***************************************************************************)
EXTENDS Integers, Sequences, FiniteSets, SequencesExt

CONSTANTS
  Size,        \* EVENT_BUFFER_SIZE
  Reader,      \* the processes that read this queue
  MaxRequest,  \* most events that are asked for at once
  MaxPosts     \* bound: how many events the devices make

ASSUME QueueAssumption ==
  /\ Size \in Nat \ {0, 1} /\ MaxRequest \in Nat \ {0} /\ MaxPosts \in Nat
  /\ Reader # {} /\ IsFiniteSet(Reader) /\ "idle" \notin Reader

Slot == 0..(Size - 1)
Event == 1..MaxPosts
Idle == "idle"

VARIABLES
  buffer, head, tail,    \* fields of struct event_queue
  waiting,               \* its process_queue
  ready,                 \* ready_list
  current,               \* the current process, or Idle
  masked,                \* interrupts are blocked
  pc,                    \* where each reader is
  left, total,           \* locals of event_queue_read_raw: events still asked
                         \* for, events read
  blocking,              \* its argument
  copied,                \* the event *e
  posted,                \* history: number of events made so far
  read,                  \* history: all events read, in order
  missed                 \* history: an event came after the test that found the
                         \* queue empty and before the process was queued

vars == <<buffer, head, tail, waiting, ready, current, masked, pc, left, total,
          blocking, copied, posted, read, missed>>
lvars == <<left, total, blocking, copied>>    \* locals of the readers

TypeOK ==
  /\ buffer \in [Slot -> Event \cup {0}]
  /\ head \in Slot /\ tail \in Slot
  /\ waiting \in Seq(Reader) /\ ready \in Seq(Reader)
  /\ current \in Reader \cup {Idle}
  /\ masked \in BOOLEAN
  /\ pc \in [Reader -> {"user", "test", "push", "switch", "copy", "advance"}]
  /\ left \in [Reader -> 0..MaxRequest] /\ total \in [Reader -> 0..MaxRequest]
  /\ blocking \in [Reader -> BOOLEAN]
  /\ copied \in [Reader -> Event \cup {0}]
  /\ posted \in 0..MaxPosts /\ read \in Seq(Event) /\ missed \in BOOLEAN

\* An empty queue; the readers run their programs in some order.
Init ==
  /\ buffer = [i \in Slot |-> 0] /\ head = 0 /\ tail = 0
  /\ waiting = << >>
  /\ ready \in SetToSeqs(Reader)
  /\ current = Idle /\ masked = FALSE
  /\ pc = [r \in Reader |-> "user"]
  /\ left = [r \in Reader |-> 0] /\ total = [r \in Reader |-> 0]
  /\ blocking = [r \in Reader |-> FALSE]
  /\ copied = [r \in Reader |-> 0]
  /\ posted = 0 /\ read = << >> /\ missed = FALSE

-----------------------------------------------------------------------------
(* The scheduler, as far as the readers see it *)

\* The end of process_switch, on the ready list L.
Dispatch(L) ==
  /\ current' = IF L = << >> THEN Idle ELSE Head(L)
  /\ ready' = IF L = << >> THEN L ELSE Tail(L)
  /\ masked' = FALSE

IdleLoop ==
  /\ current = Idle /\ ready # << >>
  /\ Dispatch(ready)
  /\ UNCHANGED <<buffer, head, tail, waiting, pc, lvars, posted, read, missed>>

At(l) == current # Idle /\ pc[current] = l

Yield ==
  /\ At("user")
  /\ Dispatch(Append(ready, current))
  /\ UNCHANGED <<buffer, head, tail, waiting, pc, lvars, posted, read, missed>>

-----------------------------------------------------------------------------
(* Posting, in an interrupt handler *)

\* The slot after i.
Succ(i) == (i + 1) % Size

\* Mutant: the last slot is used as well.
Full_Never == FALSE
Full == Succ(head) = tail

\* process_wakeup wakes the first waiting process, if there is one.
\* Mutant: only an event that finds the queue empty wakes somebody.
Wakes_WhenEmpty == waiting # << >> /\ head = tail
Wakes == waiting # << >>
\* Mutant: the process woken is not taken off the queue.
StillWaiting_All == waiting
StillWaiting == IF Wakes THEN Tail(waiting) ELSE waiting

\* Mutant: the process woken is not put into ready_list.
MadeReady_None == ready
MadeReady == IF Wakes THEN Append(ready, Head(waiting)) ELSE ready

event_queue_post ==
  /\ ~masked /\ posted < MaxPosts
  /\ posted' = posted + 1
  /\ \/ /\ Full                               \* overflow_count++
        /\ UNCHANGED <<buffer, head, waiting, ready, missed>>
     \/ /\ ~Full
        /\ buffer' = [buffer EXCEPT ![head] = posted + 1]
        /\ head' = Succ(head)
        /\ ready' = MadeReady
        /\ waiting' = StillWaiting
        /\ missed' = (missed \/ At("push"))
  /\ UNCHANGED <<tail, current, masked, pc, lvars, read>>

-----------------------------------------------------------------------------
(* Reading *)

Goto(l) == pc' = [pc EXCEPT ![current] = l]

\* The system call: interrupts are blocked.
\* Mutant: they are not.
ReadBegin_Unblocked(n, b) ==
  /\ At("user")
  /\ Goto("test")
  /\ left' = [left EXCEPT ![current] = n] /\ total' = [total EXCEPT ![current] = 0]
  /\ blocking' = [blocking EXCEPT ![current] = b]
  /\ UNCHANGED <<buffer, head, tail, waiting, ready, current, masked, copied,
                 posted, read, missed>>
ReadBegin(n, b) ==
  /\ At("user")
  /\ Goto("test") /\ masked' = TRUE
  /\ left' = [left EXCEPT ![current] = n] /\ total' = [total EXCEPT ![current] = 0]
  /\ blocking' = [blocking EXCEPT ![current] = b]
  /\ UNCHANGED <<buffer, head, tail, waiting, ready, current, copied,
                 posted, read, missed>>

\* The tests at the top of the loop; on leaving it interrupts are unblocked.
Waits == blocking[current] /\ total[current] = 0
ReadTest ==
  /\ At("test")
  /\ \/ /\ left[current] > 0 /\ head = tail /\ Waits
        /\ Goto("push") /\ UNCHANGED masked
     \/ /\ left[current] = 0 \/ (head = tail /\ ~Waits)
        /\ Goto("user") /\ masked' = FALSE
     \/ /\ left[current] > 0 /\ head # tail
        /\ Goto("copy") /\ UNCHANGED masked
  /\ UNCHANGED <<buffer, head, tail, waiting, ready, current, lvars, posted,
                 read, missed>>

\* process_wait: queue the process ...
ReadPush ==
  /\ At("push")
  /\ waiting' = Append(waiting, current)
  /\ Goto("switch")
  /\ UNCHANGED <<buffer, head, tail, ready, current, masked, lvars, posted,
                 read, missed>>

\* ... and switch; when it runs again it goes back to the tests.
ReadSwitch ==
  /\ At("switch")
  /\ Goto("test")
  /\ Dispatch(ready)
  /\ UNCHANGED <<buffer, head, tail, waiting, lvars, posted, read, missed>>

ReadCopy ==
  /\ At("copy")
  /\ copied' = [copied EXCEPT ![current] = buffer[tail]]
  /\ Goto("advance")
  /\ UNCHANGED <<buffer, head, tail, waiting, ready, current, masked, left, total,
                 blocking, posted, read, missed>>

ReadAdvance ==
  /\ At("advance")
  /\ tail' = Succ(tail)
  /\ left' = [left EXCEPT ![current] = @ - 1]
  /\ total' = [total EXCEPT ![current] = @ + 1]
  /\ read' = Append(read, copied[current])
  /\ Goto("test")
  /\ UNCHANGED <<buffer, head, waiting, ready, current, masked, blocking, copied,
                 posted, missed>>

Next ==
  \/ IdleLoop \/ Yield \/ event_queue_post
  \/ (\E n \in 1..MaxRequest, b \in BOOLEAN : ReadBegin(n, b))
  \/ ReadTest \/ ReadPush \/ ReadSwitch \/ ReadCopy \/ ReadAdvance

Spec == Init /\ [][Next]_vars

-----------------------------------------------------------------------------
(* Properties *)

\* A reader asleep in process_wait, and one that is in a read and will go on.
Asleep(r) == r \in Range(waiting) /\ r # current
Awake(r) == pc[r] # "user" /\ (r = current \/ r \in Range(ready))

\* Nobody sleeps on a queue that holds an event and that nobody is about to read
\* (event_queue_post wakes one process for each event), unless the event came in
\* the window between the test of the queue and process_wait, which is open
\* because process_switch unblocked interrupts.
NoLostWakeup ==
  \A r \in Reader : Asleep(r) /\ head # tail /\ ~missed => \E q \in Reader : Awake(q)

\* The window does no harm to a queue with one reader: an event is what woke it,
\* so it never tests an empty queue with interrupts unblocked.
SoleReader == Reader = {CHOOSE r \in Reader : TRUE}
SoleReaderServed == SoleReader => \A r \in Reader : Asleep(r) => head = tail

\* A reader is in one place only, whatever the interrupts do to the lists while
\* it is on its way into process_wait.
OneQueue ==
  /\ IsInjective(waiting \o ready)
  /\ current # Idle /\ pc[current] # "switch" => current \notin Range(waiting \o ready)

\* The ring buffer is the queue of the interface: no event is overwritten before
\* it was read, read twice, or read out of order, and events are only dropped
\* when Size - 1 of them are waiting.
Stream == INSTANCE EventStream WITH
  Capacity <- Size - 1,
  content <- [i \in 1..((head - tail) % Size) |-> buffer[(tail + i - 1) % Size]]
IsStream == Stream!SSpec

\* A device interrupt ends, the idle loop looks at the ready list after each of
\* them, and a process inside a read goes on.
ReadStep == ReadTest \/ ReadPush \/ ReadSwitch \/ ReadCopy \/ ReadAdvance
FairSpec == Spec /\ WF_vars(IdleLoop) /\ WF_vars(ReadStep)

\* With one reader, a read that finds or waits for an event returns.
ReadReturns == SoleReader =>
  \A r \in Reader : pc[r] # "user" /\ head # tail ~> pc[r] = "user"
=============================================================================
