-------------------------------- MODULE Ata --------------------------------
(***************************************************************************)
(* The disk driver, kernel/ata.c, and the mutex that serialises it,        *)
(* kernel/mutex.c.  A process only loses the processor in mutex_lock, in   *)
(* the polling loop of ata_wait and in the clock_wait of ata_reset, so an  *)
(* action is what it does from one of these points to the next; which      *)
(* process goes on is left open.  Probing a unit uses the same registers   *)
(* without taking the mutex.                                               *)
(*                                                                         *)
(* The drive is external: it answers a command after some time, or with an *)
(* error, or not at all.                                                   *)
(***************************************************************************)
EXTENDS Integers, Sequences, SequencesExt

CONSTANTS
  Proc,        \* processes; 0 stands for what is on the disk at first
  MaxCount,    \* how many sectors the count register can ask for (256)
  MaxBlocks,   \* largest nblocks considered
  Kinds,       \* the operations considered
  MaxJobs      \* bound: how many operations there are

AtaAssumption ==
  /\ MaxCount \in Nat \ {0} /\ MaxBlocks \in Nat \ {0} /\ MaxJobs \in Nat
  /\ Kinds \subseteq {"read", "write", "packet", "identify"}
  /\ 0 \notin Proc

Sector == 0..(MaxCount + MaxBlocks)

VARIABLES
  locked, waitqueue,       \* ata_mutex
  at,                      \* where each process is
  job,                     \* its operation: kind and nblocks (offset is 0)
  got, result,             \* what it has read, what its last call returned
  drive, disk,             \* the controller and the sectors
  jobs,                    \* number of operations so far
  mixed,                   \* history: a probe came together with another command
  lost                     \* history: the holder of the mutex, or the process
                           \* mutex_unlock had woken, was killed

vars == <<locked, waitqueue, at, job, got, result, drive, disk, jobs, mixed, lost>>

Polling == {"calm", "ready", "packet", "block", "final"}
At == {"user", "lock", "queued", "reset", "probe", "dead"} \cup Polling
Quiet == [st |-> "idle", kind |-> "none", next |-> 0, left |-> 0, data |-> 0]
Identity == -1

TypeOK ==
  /\ locked \in BOOLEAN /\ waitqueue \in Seq(Proc)
  /\ at \in [Proc -> At]
  /\ job \in [Proc -> [kind : Kinds \cup {"none"}, n : 0..MaxBlocks]]
  /\ got \in [Proc -> Seq(Proc \cup {0, Identity})] /\ result \in [Proc -> 0..MaxBlocks]
  /\ drive.st \in {"idle", "busy", "drq", "error"} /\ drive.next \in Sector
  /\ drive.left \in 0..(MaxCount + MaxBlocks) /\ drive.data \in Proc \cup {0}
  /\ disk \in [Sector -> Proc \cup {0}]
  /\ jobs \in 0..MaxJobs /\ mixed \in BOOLEAN /\ lost \in BOOLEAN

Init ==
  /\ locked = FALSE /\ waitqueue = << >>
  /\ at = [p \in Proc |-> "user"]
  /\ job = [p \in Proc |-> [kind |-> "none", n |-> 0]]
  /\ got = [p \in Proc |-> << >>] /\ result = [p \in Proc |-> 0]
  /\ drive = Quiet /\ disk = [s \in Sector |-> 0]
  /\ jobs = 0 /\ mixed = FALSE /\ lost = FALSE

-----------------------------------------------------------------------------
(* The drive *)

\* A sector has been written, or the next one can be transferred, or all are.
DriveAnswers ==
  /\ drive.st = "busy"
  /\ drive' = [drive EXCEPT !.st = IF drive.left > 0 THEN "drq" ELSE "idle", !.data = 0]
  /\ disk' = IF drive.data = 0 THEN disk
             ELSE [disk EXCEPT ![drive.next - 1] = drive.data]
  /\ UNCHANGED <<locked, waitqueue, at, job, got, result, jobs, mixed, lost>>

DriveFails ==
  /\ drive.st = "busy"
  /\ drive' = [drive EXCEPT !.st = "error", !.data = 0]
  /\ UNCHANGED <<locked, waitqueue, at, job, got, result, disk, jobs, mixed, lost>>

\* outb of the sector count and of the command: a count of 0 means MaxCount.
Count(n) == IF n % MaxCount = 0 THEN MaxCount ELSE n % MaxCount
Command(p) ==
  [st |-> "busy", kind |-> job[p].kind, next |-> 0, data |-> 0,
   left |-> IF job[p].kind \in {"packet", "identify"} THEN 1 ELSE Count(job[p].n)]

\* One sector through the data register: what it is depends on the command the
\* drive is at, whoever gave it.
DataIn == CASE drive.kind = "identify" -> Identity
            [] OTHER -> disk[drive.next]
AfterSector(data) ==
  [drive EXCEPT !.st = "busy", !.next = @ + 1, !.left = @ - 1, !.data = data]

-----------------------------------------------------------------------------
(* The mutex *)

Using(p) == at[p] \in Polling \cup {"reset"}
Holds(p) == Using(p) /\ job[p].kind # "identify"
Probes(p) == Using(p) /\ job[p].kind = "identify"

\* mutex_lock: test, and wait or take it.
MutexLock(p) ==
  /\ at[p] = "lock"
  /\ \/ /\ ~locked
        /\ locked' = TRUE
        /\ at' = [at EXCEPT ![p] = "calm"]
        /\ UNCHANGED waitqueue
     \/ /\ locked
        /\ waitqueue' = Append(waitqueue, p)
        /\ at' = [at EXCEPT ![p] = "queued"]
        /\ UNCHANGED locked
  /\ UNCHANGED <<job, got, result, drive, disk, jobs, mixed, lost>>

\* The operation of p returns r: mutex_unlock wakes the first waiter, which goes
\* back to the test.  Mutants: it does not test again; nobody is woken.
WokenAt_Locked == "calm"
WokenAt == "lock"
Woken_None == {}
Woken == IF waitqueue = << >> THEN {} ELSE {Head(waitqueue)}
Finish(p, r) ==
  /\ result' = [result EXCEPT ![p] = r]
  /\ IF job[p].kind = "identify"
     THEN /\ at' = [at EXCEPT ![p] = "user"]
          /\ UNCHANGED <<locked, waitqueue>>
     ELSE /\ locked' = FALSE
          /\ waitqueue' = IF Woken = {} THEN waitqueue ELSE Tail(waitqueue)
          /\ at' = [q \in Proc |-> IF q = p THEN "user"
                                   ELSE IF q \in Woken THEN WokenAt ELSE at[q]]

-----------------------------------------------------------------------------
(* The driver *)

\* ata_read, ata_write, atapi_read; a probe first resets the unit.
Begin(p, kind, n) ==
  /\ at[p] = "user" /\ jobs < MaxJobs
  /\ jobs' = jobs + 1
  /\ job' = [job EXCEPT ![p] = [kind |-> kind, n |-> n]]
  /\ got' = [got EXCEPT ![p] = << >>]
  /\ IF kind = "identify"
     THEN /\ n = 1
          /\ at' = [at EXCEPT ![p] = "probe"] /\ drive' = Quiet
          /\ mixed' = (mixed \/ \E q \in Proc : Using(q))
     ELSE at' = [at EXCEPT ![p] = "lock"] /\ UNCHANGED <<drive, mixed>>
  /\ UNCHANGED <<locked, waitqueue, result, disk, lost>>

\* The test of ata_wait at each of its calls.  A status without BSY satisfies
\* the calls that wait for BSY to go, even if it reports an error.
Satisfied(p) == IF at[p] \in {"calm", "ready", "final"} THEN drive.st # "busy"
                ELSE drive.st = "drq"

\* ata_wait returns 1 in ata_begin or atapi_begin: select the unit, or give the
\* command, or send the packet.  No sector is waited for when nblocks is 0.
Started(p) ==
  /\ at[p] \in {"calm", "ready", "packet"} /\ Satisfied(p)
  /\ at' = [at EXCEPT ![p] =
              IF @ = "calm" THEN "ready"
              ELSE IF @ = "ready" /\ job[p].kind = "packet" THEN "packet"
              ELSE IF job[p].n > 0 THEN "block" ELSE "final"]
  /\ drive' = IF at[p] = "calm" THEN drive
              ELSE IF at[p] = "ready" THEN Command(p)
              ELSE [drive EXCEPT !.st = "busy", !.left = job[p].n]
  /\ mixed' = (mixed \/ \E q \in Proc \ {p} : Using(q))
  /\ UNCHANGED <<locked, waitqueue, job, got, result, disk, jobs, lost>>

\* ata_wait returns 1 in the loop of the transfer: ata_pio_read or ata_pio_write.
\* An ATAPI read, and a probe, return 1 after the last sector.
Transfer(p) ==
  /\ at[p] = "block" /\ Satisfied(p)
  /\ IF job[p].kind = "write"
     THEN /\ drive' = AfterSector(p)
          /\ got' = [got EXCEPT ![p] = Append(@, p)]
     ELSE /\ drive' = AfterSector(0)
          /\ got' = [got EXCEPT ![p] = Append(@, DataIn)]
  /\ IF Len(got[p]) + 1 < job[p].n
     THEN UNCHANGED <<at, locked, waitqueue, result>>
     ELSE IF job[p].kind \in {"packet", "identify"} THEN Finish(p, 1)
     ELSE /\ at' = [at EXCEPT ![p] = "final"]
          /\ UNCHANGED <<locked, waitqueue, result>>
  /\ UNCHANGED <<job, disk, jobs, mixed, lost>>

\* The last ata_wait of ata_read_unlocked and ata_write_unlocked.  (An ATAPI read
\* of no blocks has none.)
Complete(p) ==
  /\ at[p] = "final" /\ (Satisfied(p) \/ job[p].kind = "packet")
  /\ Finish(p, IF job[p].kind = "packet" THEN 1 ELSE job[p].n)
  /\ UNCHANGED <<job, got, drive, disk, jobs, mixed, lost>>

\* ata_wait gives up, on an error or when the time is over, and calls ata_reset,
\* which sleeps; then the whole operation fails.
\* Mutant: only an error is noticed.
GivesUp_OnError(p) == ~Satisfied(p) /\ drive.st = "error"
GivesUp(p) == ~Satisfied(p)
Reset(p) ==
  /\ at[p] \in Polling /\ GivesUp(p)
  /\ at' = [at EXCEPT ![p] = "reset"]
  /\ drive' = Quiet
  /\ UNCHANGED <<locked, waitqueue, job, got, result, disk, jobs, mixed, lost>>

\* Mutant: the result of ata_wait is not looked at.
ResetDone_Ignored(p) ==
  /\ at[p] = "reset"
  /\ Finish(p, job[p].n)
  /\ UNCHANGED <<job, got, drive, disk, jobs, mixed, lost>>
ResetDone(p) ==
  /\ at[p] = "reset"
  /\ Finish(p, 0)
  /\ UNCHANGED <<job, got, drive, disk, jobs, mixed, lost>>

\* The reset at the start of ata_probe_internal is over.
ProbeBegin(p) ==
  /\ at[p] = "probe"
  /\ at' = [at EXCEPT ![p] = "calm"]
  /\ mixed' = (mixed \/ \E q \in Proc \ {p} : Using(q))
  /\ UNCHANGED <<locked, waitqueue, job, got, result, drive, disk, jobs, lost>>

\* process_kill by a process that is in its program.
Kill(p) ==
  /\ at[p] \notin {"user", "dead"} /\ \E k \in Proc \ {p} : at[k] = "user"
  /\ at' = [at EXCEPT ![p] = "dead"]
  /\ waitqueue' = RemoveFirst(waitqueue, p)
  /\ lost' = (lost \/ Holds(p) \/ at[p] = "lock")
  /\ UNCHANGED <<locked, job, got, result, drive, disk, jobs, mixed>>

Next ==
  \/ DriveAnswers \/ DriveFails
  \/ \E p \in Proc :
       \/ \E k \in Kinds, n \in 0..MaxBlocks : Begin(p, k, n)
       \/ MutexLock(p) \/ Started(p) \/ Transfer(p) \/ Complete(p)
       \/ Reset(p) \/ ResetDone(p) \/ ProbeBegin(p) \/ Kill(p)

Spec == Init /\ [][Next]_vars

-----------------------------------------------------------------------------
(* Properties *)

\* The mutex excludes: however waiters are woken, overtaken and killed, at most
\* one process is between mutex_lock and mutex_unlock, and only while it is locked.
Exclusive ==
  \A p \in Proc : Holds(p) => locked /\ \A q \in Proc : Holds(q) => p = q

\* Nobody waits for a mutex that no one will unlock, unless a kill hit the holder
\* or the process just woken.
NoneStranded ==
  waitqueue # << >> /\ ~lost => \E p \in Proc : Holds(p) \/ at[p] = "lock"

\* A read or write that returns nblocks has moved that many sectors, the ones it
\* asked for, when no probe came in between: time-outs, resets, errors and kills
\* of others never make a short or a foreign transfer look complete.  The last
\* sector of a write may be missing, since its error is not looked at.
Returns(p) == Using(p) /\ at'[p] = "user" /\ result'[p] > 0
TransferRight ==
  \A p \in Proc : Returns(p) /\ ~mixed /\ job[p].kind \in {"read", "write"} =>
    /\ job[p].n <= MaxCount
    /\ Len(got'[p]) = job[p].n
    /\ \A i \in 1..job[p].n :
         got'[p][i] = disk[i - 1] \/ (job[p].kind = "write" /\ i = job[p].n)

\* Processes are scheduled again and again, so that each goes on; but nobody has to be killed,
\* and a process that waits for the mutex depends on others.
Step(p) == Started(p) \/ Transfer(p) \/ Complete(p) \/ Reset(p) \/ ResetDone(p)
           \/ ProbeBegin(p)
FairSpec == Spec /\ \A p \in Proc : WF_vars(Step(p))
=============================================================================
