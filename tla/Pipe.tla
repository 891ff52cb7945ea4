-------------------------------- MODULE Pipe --------------------------------
(***************************************************************************)
(* A pipe, kernel/pipe.c, shared by processes that write to it and read    *)
(* from it, each in blocking or non-blocking mode.  No interrupt handler   *)
(* touches a pipe and processes are not preempted, so a call runs until it *)
(* returns or waits.  Bytes are numbered in the order they are written.    *)
(***************************************************************************)
EXTENDS Integers, Sequences, FiniteSets, SequencesExt

CONSTANTS
  Size,         \* PIPE_SIZE
  Proc,         \* the processes that hold the pipe
  MaxTransfer,   \* largest read or write
  MaxBytes      \* bound: how many bytes are written in all

ASSUME PipeAssumption ==
  /\ Size \in Nat \ {0, 1} /\ MaxTransfer \in Nat /\ MaxBytes \in Nat
  /\ "idle" \notin Proc /\ IsFiniteSet(Proc)

Slot == 0..(Size - 1)
Byte == 1..MaxBytes
Idle == "idle"

VARIABLES
  buffer, read_pos, write_pos, flushed,    \* fields of struct pipe
  queue,                                   \* its list of waiting processes
  ready, current,                          \* ready_list, the current process
  pc,                                      \* "user", or inside "write" or "read"
  left,                                    \* bytes the call has yet to transfer
  blocking,                                \* argument of the call
  sent, got,                               \* history: bytes written, bytes read
  overrun,                                 \* history: a byte was overwritten
  silent                                   \* history: a non-blocking call moved
                                           \* bytes, which wakes nobody

rvars == <<queue, ready, current>>
pipeVars == <<buffer, read_pos, write_pos, flushed, queue, ready, current, pc, left,
          blocking, sent, got, overrun, silent>>

PipeTypeOK ==
  /\ buffer \in [Slot -> Byte \cup {0}]
  /\ read_pos \in Slot /\ write_pos \in Slot
  /\ flushed \in BOOLEAN
  /\ queue \in Seq(Proc) /\ ready \in Seq(Proc)
  /\ current \in Proc \cup {Idle}
  /\ pc \in [Proc -> {"user", "write", "read"}]
  /\ left \in [Proc -> 0..MaxTransfer]
  /\ blocking \in [Proc -> BOOLEAN]
  /\ sent \in Seq(Byte) /\ got \in Seq(Byte)
  /\ overrun \in BOOLEAN /\ silent \in BOOLEAN

\* pipe_create; the processes run their programs in some order.
PipeInit ==
  /\ buffer = [i \in Slot |-> 0] /\ read_pos = 0 /\ write_pos = 0
  /\ flushed = FALSE
  /\ queue = << >> /\ ready \in SetToSeqs(Proc) /\ current = Idle
  /\ pc = [p \in Proc |-> "user"]
  /\ left = [p \in Proc |-> 0] /\ blocking = [p \in Proc |-> FALSE]
  /\ sent = << >> /\ got = << >> /\ overrun = FALSE /\ silent = FALSE

-----------------------------------------------------------------------------
\* The end of process_switch, on the ready list L.
Dispatch(L) ==
  /\ current' = IF L = << >> THEN Idle ELSE Head(L)
  /\ ready' = IF L = << >> THEN L ELSE Tail(L)

Schedule ==
  /\ \/ /\ current = Idle /\ ready # << >>
        /\ Dispatch(ready)
     \/ /\ current # Idle /\ pc[current] = "user"      \* process_yield
        /\ Dispatch(Append(ready, current))
  /\ UNCHANGED <<buffer, read_pos, write_pos, flushed, queue, pc, left, blocking,
                 sent, got, overrun, silent>>

\* process_wait(&p->queue): the call goes on from the test it was at.
Sleep ==
  /\ queue' = Append(queue, current)
  /\ Dispatch(ready)
  /\ UNCHANGED <<pc, left>>

\* process_wakeup_all(&p->queue).
\* Mutants: process_wakeup; nobody is woken.
WakeupAll_None == UNCHANGED <<ready, queue>>
WakeupAll_First ==
  /\ ready' = IF queue = << >> THEN ready ELSE Append(ready, Head(queue))
  /\ queue' = IF queue = << >> THEN queue ELSE Tail(queue)
WakeupAll ==
  /\ ready' = ready \o queue
  /\ queue' = << >>

Return == pc' = [pc EXCEPT ![current] = "user"] /\ UNCHANGED left

Call(kind, n, b) ==
  /\ current # Idle /\ pc[current] = "user"
  /\ pc' = [pc EXCEPT ![current] = kind]
  /\ left' = [left EXCEPT ![current] = n]
  /\ blocking' = [blocking EXCEPT ![current] = b]
  /\ UNCHANGED <<buffer, read_pos, write_pos, flushed, queue, ready, current,
                 sent, got, overrun, silent>>

\* kobject_close of a pipe that others still hold.
pipe_flush ==
  /\ current # Idle /\ pc[current] = "user" /\ ~flushed
  /\ flushed' = TRUE
  /\ UNCHANGED <<buffer, read_pos, write_pos, queue, ready, current, pc, left,
                 blocking, sent, got, overrun, silent>>

-----------------------------------------------------------------------------
Succ(i) == (i + 1) % Size

Empty == read_pos = write_pos

\* The two tests for a full buffer.  In C the remainder of a negative number is
\* negative, so the second one never holds when read_pos is 0.
\* Mutants: one test or the other is never true.
Full_Never == FALSE
Full == Succ(write_pos) = read_pos
FullNonblock_Never == FALSE
FullNonblock == write_pos = read_pos - 1

Put ==
  /\ Len(sent) < MaxBytes
  /\ LET byte == Len(sent) + 1 IN
       /\ buffer' = [buffer EXCEPT ![write_pos] = byte]
       /\ sent' = Append(sent, byte)
  /\ write_pos' = Succ(write_pos)
  /\ left' = [left EXCEPT ![current] = @ - 1]
  /\ overrun' = (overrun \/ Full)
  /\ UNCHANGED <<read_pos, flushed, pc, got, rvars>>

InCall(kind, b) == current # Idle /\ pc[current] = kind /\ blocking[current] = b

\* One turn of the loop of a blocking write, or what follows the loop.
WriteBlocking ==
  /\ InCall("write", TRUE)
  /\ \/ /\ left[current] > 0 /\ ~Full
        /\ Put
     \/ /\ left[current] > 0 /\ Full /\ flushed
        /\ flushed' = FALSE /\ Return
        /\ UNCHANGED <<buffer, read_pos, write_pos, sent, got, overrun, rvars>>
     \/ /\ left[current] > 0 /\ Full /\ ~flushed
        /\ Sleep
        /\ UNCHANGED <<buffer, read_pos, write_pos, flushed, sent, got, overrun>>
     \/ /\ left[current] = 0
        /\ WakeupAll /\ flushed' = FALSE /\ Return
        /\ UNCHANGED <<buffer, read_pos, write_pos, sent, got, overrun, current>>
  /\ UNCHANGED <<blocking, silent>>

WriteNonblock ==
  /\ InCall("write", FALSE)
  /\ \/ /\ left[current] > 0 /\ ~FullNonblock
        /\ Put
        /\ silent' = TRUE
     \/ /\ left[current] = 0 \/ FullNonblock
        /\ flushed' = FALSE /\ Return
        /\ UNCHANGED <<buffer, read_pos, write_pos, sent, got, overrun, silent,
                       rvars>>
  /\ UNCHANGED blocking

Get ==
  /\ got' = Append(got, buffer[read_pos])
  /\ read_pos' = Succ(read_pos)
  /\ left' = [left EXCEPT ![current] = @ - 1]
  /\ UNCHANGED <<buffer, write_pos, flushed, pc, sent, overrun, rvars>>

ReadBlocking ==
  /\ InCall("read", TRUE)
  /\ \/ /\ left[current] > 0 /\ ~Empty
        /\ Get
     \/ /\ left[current] > 0 /\ Empty /\ flushed
        /\ flushed' = FALSE /\ Return
        /\ UNCHANGED <<buffer, read_pos, write_pos, sent, got, overrun, rvars>>
     \/ /\ left[current] > 0 /\ Empty /\ ~flushed
        /\ Sleep
        /\ UNCHANGED <<buffer, read_pos, write_pos, flushed, sent, got, overrun>>
     \/ /\ left[current] = 0
        /\ WakeupAll /\ flushed' = FALSE /\ Return
        /\ UNCHANGED <<buffer, read_pos, write_pos, sent, got, overrun, current>>
  /\ UNCHANGED <<blocking, silent>>

ReadNonblock ==
  /\ InCall("read", FALSE)
  /\ \/ /\ left[current] > 0 /\ ~Empty
        /\ Get
        /\ silent' = TRUE
     \/ /\ left[current] = 0 \/ Empty
        /\ flushed' = FALSE /\ Return
        /\ UNCHANGED <<buffer, read_pos, write_pos, sent, got, overrun, silent,
                       rvars>>
  /\ UNCHANGED blocking

PipeNext ==
  \/ Schedule \/ pipe_flush
  \/ (\E n \in 0..MaxTransfer, b \in BOOLEAN : Call("write", n, b) \/ Call("read", n, b))
  \/ WriteBlocking \/ WriteNonblock \/ ReadBlocking \/ ReadNonblock

PipeSpec == PipeInit /\ [][PipeNext]_pipeVars

-----------------------------------------------------------------------------
(* Properties *)

Content == [i \in 1..((write_pos - read_pos) % Size) |->
              buffer[(read_pos + i - 1) % Size]]

\* Until a non-blocking write overruns the buffer, what is read is what was
\* written, byte for byte and in order, whoever reads and writes and however the
\* calls sleep in the middle of a transfer.
InOrder == ~overrun => got \o Content = sent

\* Blocking writes never overrun the buffer, nor do non-blocking ones while the
\* reader is not at the start of it.
OverrunAtStart == [][~overrun /\ overrun' => read_pos = 0 /\ ~blocking[current]]_pipeVars

Asleep(p, kind) == p \in Range(queue) /\ pc[p] = kind

\* Requests that fit into the buffer leave nobody asleep without a reason: a
\* call that sleeps after a partial transfer, or returns early because of a
\* flush, has wakened nobody, and still whoever sleeps would sleep again, or a
\* call is under way that will wake him.  (Non-blocking calls wake nobody.)
UnderWay == \E p \in Proc : pc[p] # "user" /\ p \notin Range(queue)
SleepJustified ==
  MaxTransfer < Size /\ ~silent =>
    \A p \in Proc : /\ Asleep(p, "read") => Empty \/ UnderWay
                    /\ Asleep(p, "write") => Full \/ UnderWay

\* Such requests cannot leave a reader and a writer waiting for each other.
NoGridlock ==
  MaxTransfer < Size /\ ~silent =>
    ~\E p, q \in Proc : Asleep(p, "read") /\ Asleep(q, "write")
=============================================================================
