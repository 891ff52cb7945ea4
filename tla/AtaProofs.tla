----------------------------- MODULE AtaProofs -----------------------------
(***************************************************************************)
(* Theorems about Ata: the mutex and the transfers of the disk driver, for *)
(* any processes, any counts of sectors and any number of operations.      *)
(***************************************************************************)
EXTENDS Ata, BasicLemmas

-----------------------------------------------------------------------------
(* The invariant *)

\* The drive: it asks for data only while it has sectors to transfer, data is on its way to
\* the sector before the next, and a packet is sent when at most one sector has moved.
DriveType == [st : {"idle", "busy", "drq", "error"}, kind : Kinds \cup {"none"},
              next : Sector, left : 0..(MaxCount + MaxBlocks), data : Proc \cup {0}]
DriveInv ==
  /\ drive \in DriveType
  /\ drive.next + drive.left <= MaxCount + MaxBlocks
  /\ drive.st = "drq" => drive.left > 0
  /\ drive.data # 0 => drive.st = "busy" /\ drive.next > 0
  /\ (\E p \in Proc : at[p] = "packet") => drive.next + drive.left <= 1

\* The mutex: its queue holds the processes that wait for it, each once, and somebody holds it
\* while it is locked, unless he was killed.
MutexInv ==
  /\ IsInjective(waitqueue) /\ \A p \in Proc : p \in Range(waitqueue) <=> at[p] = "queued"
  /\ \A p \in Proc : /\ at[p] \in {"lock", "queued"} => job[p].kind # "identify"
                     /\ at[p] = "packet" => job[p].kind = "packet"
                     /\ at[p] = "probe" => job[p].kind = "identify"
  /\ locked /\ ~lost => \E p \in Proc : Holds(p)

\* A transfer and the drive agree on how far it is, until a probe comes in between: the holder
\* of the mutex is alone from the moment the unit is calm, and what it has moved is what is on
\* the disk, but for a sector that is being written or that could not be.
Alone(p) == Holds(p) /\ at[p] \in {"ready", "packet", "block", "final"}
InStep(p) ==
  /\ drive.kind = job[p].kind /\ drive.next = Len(got[p])
  /\ drive.next + drive.left = Count(job[p].n)
  /\ Len(got[p]) <= job[p].n /\ (at[p] = "block" <=> Len(got[p]) < job[p].n)
  /\ \A i \in 1..Len(got[p]) :
       \/ got[p][i] = disk[i - 1]
       \/ job[p].kind = "write" /\ i = Len(got[p]) /\ drive.st # "drq"
  /\ job[p].kind = "read" => drive.data = 0
  /\ job[p].kind = "write" =>
       /\ \A i \in 1..Len(got[p]) : got[p][i] = p
       /\ drive.data \in {0, p}
       /\ drive.st = "busy" /\ Len(got[p]) > 0 => drive.data = p
TransferInv ==
  /\ \A p \in Proc : at[p] \in {"lock", "queued", "probe", "calm", "ready", "packet"} => got[p] = << >>
  /\ ~mixed => \A p \in Proc : Alone(p) =>
       /\ \A q \in Proc \ {p} : ~Using(q)
       /\ job[p].kind \in {"read", "write"} /\ at[p] \in {"block", "final"} => InStep(p)

AInv == TypeOK /\ DriveInv /\ MutexInv /\ Exclusive /\ NoneStranded /\ TransferInv


-----------------------------------------------------------------------------
(* The constants, the unlocking of the mutex, the drive *)

\* The values of the constants, and the sectors a transfer may begin at.
LEMMA AtaFacts ==
  ASSUME AtaAssumption
  PROVE  /\ MaxCount \in Nat \ {0} /\ MaxBlocks \in Nat \ {0} /\ MaxJobs \in Nat
         /\ 0 \notin Proc /\ "none" \notin Kinds
         /\ \A n \in Nat : Count(n) \in 1..MaxCount
         /\ 0 \in Sector /\ 1 \in Sector
<1>1. ASSUME NEW M \in Nat \ {0}, NEW n \in Nat
      PROVE  (IF n % M = 0 THEN M ELSE n % M) \in 1..M
  OBVIOUS
<1> QED BY <1>1 DEF AtaAssumption, Count, Sector

\* mutex_unlock by p wakes the first process that waits, which is another one.
Unlocks(p) ==
  /\ locked' = FALSE /\ waitqueue' \in Seq(Proc) /\ IsInjective(waitqueue')
  /\ \/ /\ waitqueue = << >> /\ waitqueue' = << >>
        /\ at' = [at EXCEPT ![p] = "user"]
     \/ /\ waitqueue # << >>
        /\ \E h \in Proc \ {p} :
             /\ at[h] = "queued" /\ Range(waitqueue') = Range(waitqueue) \ {h}
             /\ at' = [at EXCEPT ![p] = "user", ![h] = "lock"]

\* A command that ends leaves its result; all but ata_identify unlock the mutex.
LEMMA FinishFacts ==
  ASSUME TypeOK, MutexInv, NEW p \in Proc, NEW r \in 0..MaxBlocks, Using(p), Finish(p, r)
  PROVE  /\ result' \in [Proc -> 0..MaxBlocks] /\ result'[p] = r
         /\ job[p].kind = "identify" =>
              at' = [at EXCEPT ![p] = "user"] /\ UNCHANGED <<locked, waitqueue>>
         /\ job[p].kind # "identify" => Unlocks(p)
<1>1. result' \in [Proc -> 0..MaxBlocks] /\ result'[p] = r
  BY DEF Finish, TypeOK
<1>2. ASSUME job[p].kind = "identify"
      PROVE  at' = [at EXCEPT ![p] = "user"] /\ UNCHANGED <<locked, waitqueue>>
  BY <1>2 DEF Finish
<1>3. ASSUME job[p].kind # "identify"
      PROVE  Unlocks(p)
  <2>1. /\ locked' = FALSE /\ waitqueue' = IF Woken = {} THEN waitqueue ELSE Tail(waitqueue)
        /\ at' = [q \in Proc |-> IF q = p THEN "user"
                                 ELSE IF q \in Woken THEN "lock" ELSE at[q]]
    BY <1>3 DEF Finish, WokenAt
  <2>2. waitqueue \in Seq(Proc) /\ IsInjective(waitqueue) /\ at \in [Proc -> At]
    BY DEF TypeOK, MutexInv
  <2>3. CASE waitqueue = << >>
    BY <2>1, <2>2, <2>3 DEF Woken, Unlocks
  <2>4. CASE waitqueue # << >>
    <3> DEFINE h == Head(waitqueue)
    <3>1. /\ Tail(waitqueue) \in Seq(Proc) /\ IsInjective(Tail(waitqueue))
          /\ h \in Range(waitqueue) /\ Range(Tail(waitqueue)) = Range(waitqueue) \ {h}
      BY <2>2, <2>4, TailNodes
    <3>2. h \in Proc
      BY <2>2, <2>4
    <3>3. at[h] = "queued" /\ h # p
      BY <3>1, <3>2 DEF MutexInv, Using, Polling
    <3>4. Woken = {h}
      BY <2>4 DEF Woken
    <3> HIDE DEF h
    <3>5. waitqueue' = Tail(waitqueue) /\ at' = [at EXCEPT ![p] = "user", ![h] = "lock"]
      BY <2>1, <2>2, <3>2, <3>3, <3>4
    <3> QED BY <2>1, <2>4, <3>1, <3>2, <3>3, <3>5 DEF Unlocks
  <2> QED BY <2>3, <2>4
<1> QED BY <1>1, <1>2, <1>3

\* Every operation that ends, ends with Finish: a transfer, or one that failed.
Ends(p) == \E r \in 0..MaxBlocks : Finish(p, r)

\* The last steps of a command, and the transfer of a sector that is not the last one.
LEMMA EndsFacts ==
  ASSUME AtaAssumption, TypeOK, NEW p \in Proc
  PROVE  /\ Complete(p) => Ends(p) /\ Using(p)
         /\ ResetDone(p) => Ends(p) /\ Using(p)
         /\ Transfer(p) => /\ Using(p)
                           /\ \/ Ends(p) /\ job[p].kind \in {"packet", "identify"}
                              \/ /\ UNCHANGED <<locked, waitqueue, result>>
                                 /\ \/ at' = at /\ Len(got[p]) + 1 < job[p].n
                                    \/ /\ at' = [at EXCEPT ![p] = "final"]
                                       /\ ~(Len(got[p]) + 1 < job[p].n)
<1>1. 1 \in 0..MaxBlocks /\ 0 \in 0..MaxBlocks /\ job[p].n \in 0..MaxBlocks
  <2>1. job[p].n \in 0..MaxBlocks
    BY DEF TypeOK
  <2> QED BY <2>1, AtaFacts
<1>2. Complete(p) => Ends(p) /\ Using(p)
  BY <1>1 DEF Complete, Ends, Using, Polling
<1>3. ResetDone(p) => Ends(p) /\ Using(p)
  BY <1>1 DEF ResetDone, Ends, Using, Polling
<1>4. Transfer(p) => /\ Using(p)
                     /\ \/ Ends(p) /\ job[p].kind \in {"packet", "identify"}
                        \/ /\ UNCHANGED <<locked, waitqueue, result>>
                           /\ \/ at' = at /\ Len(got[p]) + 1 < job[p].n
                              \/ /\ at' = [at EXCEPT ![p] = "final"]
                                 /\ ~(Len(got[p]) + 1 < job[p].n)
  BY <1>1 DEF Transfer, Ends, Using, Polling
<1> QED BY <1>2, <1>3, <1>4

\* Where the processes are when a command has ended: its own is back, one waiter may be awake.
LEMMA EndsAt ==
  ASSUME TypeOK, MutexInv, NEW p \in Proc, Using(p), Ends(p)
  PROVE  /\ at' \in [Proc -> At] /\ at'[p] = "user"
         /\ \A q \in Proc \ {p} : at'[q] = at[q] \/ (at[q] = "queued" /\ at'[q] = "lock")
         /\ \A q \in Proc : at'[q] = "packet" => at[q] = "packet"
<1>1. PICK r \in 0..MaxBlocks : Finish(p, r)
  BY DEF Ends
<1>2. at \in [Proc -> At]
  BY DEF TypeOK
<1>3. at' = [at EXCEPT ![p] = "user"] \/ Unlocks(p)
  BY <1>1, FinishFacts
<1>4. CASE at' = [at EXCEPT ![p] = "user"]
  BY <1>2, <1>4 DEF At
<1>5. CASE \E h \in Proc \ {p} : at[h] = "queued" /\ at' = [at EXCEPT ![p] = "user", ![h] = "lock"]
  BY <1>2, <1>5 DEF At
<1> QED BY <1>3, <1>4, <1>5 DEF Unlocks

\* The command given to the drive, and a sector through the data register.
LEMMA CommandFacts ==
  ASSUME AtaAssumption, TypeOK, DriveInv, NEW p \in Proc
  PROVE  /\ Command(p) \in DriveType
         /\ Command(p).st = "busy" /\ Command(p).kind = job[p].kind
         /\ Command(p).next = 0 /\ Command(p).data = 0
         /\ Command(p).left = IF job[p].kind \in {"packet", "identify"} THEN 1
                              ELSE Count(job[p].n)
         /\ Command(p).left \in 1..MaxCount
<1>1. job[p].kind \in Kinds \cup {"none"} /\ job[p].n \in Nat
  <2>1. job[p] \in [kind : Kinds \cup {"none"}, n : 0..MaxBlocks]
    BY DEF TypeOK
  <2> QED BY <2>1, AtaFacts
<1>2. Count(job[p].n) \in 1..MaxCount
  BY <1>1, AtaFacts
<1> QED BY <1>1, <1>2, AtaFacts DEF Command, DriveType

\* The drive after one more sector was read from it or written to it.
LEMMA SectorFacts ==
  ASSUME AtaAssumption, TypeOK, DriveInv, NEW d \in Proc \cup {0}, drive.st = "drq"
  PROVE  /\ AfterSector(d) \in DriveType
         /\ AfterSector(d).st = "busy" /\ AfterSector(d).kind = drive.kind
         /\ AfterSector(d).next = drive.next + 1 /\ AfterSector(d).left = drive.left - 1
         /\ AfterSector(d).data = d
         /\ drive.next \in Sector /\ DataIn \in Proc \cup {0, Identity}
         /\ drive.kind # "identify" => DataIn = disk[drive.next]
<1>1. drive \in DriveType /\ drive.left > 0 /\ drive.next + drive.left <= MaxCount + MaxBlocks
  BY DEF DriveInv
<1>2. /\ MaxCount \in Nat /\ MaxBlocks \in Nat /\ drive.next \in Nat /\ drive.left \in Nat
      /\ drive.next + 1 \in Sector /\ drive.left - 1 \in 0..(MaxCount + MaxBlocks)
      /\ drive.next \in Sector
  <2>1. drive.next \in 0..(MaxCount + MaxBlocks) /\ drive.left \in 0..(MaxCount + MaxBlocks)
    BY <1>1 DEF DriveType, Sector
  <2> QED BY <1>1, <2>1, AtaFacts DEF Sector
<1>3. AfterSector(d) \in DriveType
  BY <1>1, <1>2 DEF DriveType, AfterSector
<1>4. disk[drive.next] \in Proc \cup {0}
  BY <1>2 DEF TypeOK
<1>5. DataIn \in Proc \cup {0, Identity} /\ (drive.kind # "identify" => DataIn = disk[drive.next])
  BY <1>4 DEF DataIn
<1> QED BY <1>1, <1>2, <1>3, <1>5 DEF AfterSector, DriveType

-----------------------------------------------------------------------------
(* Each part of the invariant is kept *)

\* The steps in which a process or the drive goes on, by what they do to the drive.
LEMMA DriveStep ==
  ASSUME AtaAssumption, AInv, [Next]_vars
  PROVE  DriveInv'
<1> USE DEF AInv
<1>0. /\ drive \in DriveType /\ MaxCount \in Nat \ {0} /\ MaxBlocks \in Nat \ {0}
      /\ drive.next \in Nat /\ drive.left \in Nat
      /\ at \in [Proc -> At] /\ 0 \notin Proc
  BY AtaFacts DEF DriveInv, DriveType, Sector, TypeOK
<1>1. ASSUME drive' = drive, \A q \in Proc : at'[q] = "packet" => at[q] = "packet"
      PROVE  DriveInv'
  BY <1>1 DEF DriveInv
<1>2. ASSUME drive' = Quiet
      PROVE  DriveInv'
  BY <1>0, <1>2, AtaFacts DEF DriveInv, DriveType, Quiet
<1>3. CASE DriveAnswers
  <2>1. drive' = [drive EXCEPT !.st = IF drive.left > 0 THEN "drq" ELSE "idle", !.data = 0]
        /\ at' = at
    BY <1>3 DEF DriveAnswers
  <2>2. /\ drive' \in DriveType /\ drive'.next = drive.next /\ drive'.left = drive.left
        /\ drive'.data = 0 /\ (drive'.st = "drq" => drive.left > 0)
    BY <1>0, <2>1 DEF DriveType
  <2> QED BY <2>1, <2>2 DEF DriveInv
<1>4. CASE DriveFails
  <2>1. drive' = [drive EXCEPT !.st = "error", !.data = 0] /\ at' = at
    BY <1>4 DEF DriveFails
  <2>2. /\ drive' \in DriveType /\ drive'.next = drive.next /\ drive'.left = drive.left
        /\ drive'.data = 0 /\ drive'.st = "error"
    BY <1>0, <2>1 DEF DriveType
  <2> QED BY <2>1, <2>2 DEF DriveInv
<1>5. ASSUME NEW p \in Proc, NEW k \in Kinds, NEW n \in 0..MaxBlocks, Begin(p, k, n)
      PROVE  DriveInv'
  <2>1. \/ drive' = Quiet
        \/ drive' = drive /\ at' = [at EXCEPT ![p] = "lock"]
    BY <1>5 DEF Begin
  <2> QED BY <1>0, <1>1, <1>2, <2>1
<1>6. ASSUME NEW p \in Proc, MutexLock(p) \/ ProbeBegin(p) \/ Kill(p)
      PROVE  DriveInv'
  <2>1. drive' = drive /\ \E l \in {"calm", "queued", "dead"} : at' = [at EXCEPT ![p] = l]
    BY <1>6 DEF MutexLock, ProbeBegin, Kill
  <2> QED BY <1>0, <1>1, <2>1
<1>7. ASSUME NEW p \in Proc, Started(p)
      PROVE  DriveInv'
  <2>1. /\ at[p] \in {"calm", "ready", "packet"} /\ Satisfied(p)
        /\ at' = [at EXCEPT ![p] = IF @ = "calm" THEN "ready"
                                   ELSE IF @ = "ready" /\ job[p].kind = "packet" THEN "packet"
                                   ELSE IF job[p].n > 0 THEN "block" ELSE "final"]
        /\ drive' = IF at[p] = "calm" THEN drive ELSE IF at[p] = "ready" THEN Command(p)
                    ELSE [drive EXCEPT !.st = "busy", !.left = job[p].n]
    BY <1>7 DEF Started
  <2>2. CASE at[p] = "calm"
    BY <1>0, <1>1, <2>1, <2>2
  <2>3. CASE at[p] = "ready"
    <3>1. /\ drive' \in DriveType /\ drive'.st = "busy" /\ drive'.next = 0 /\ drive'.data = 0
          /\ drive'.left \in 1..MaxCount
          /\ drive'.left = IF job[p].kind \in {"packet", "identify"} THEN 1
                           ELSE Count(job[p].n)
      BY <2>1, <2>3, CommandFacts
    <3>2. ASSUME NEW q \in Proc, at'[q] = "packet"
          PROVE  drive'.left = 1
      <4>1. CASE q = p
        BY <1>0, <2>1, <2>3, <3>1, <3>2, <4>1
      <4>2. CASE q # p
        <5>1. at[q] = "packet" /\ Holds(q)
          BY <1>0, <2>1, <3>2, <4>2 DEF MutexInv, Holds, Using, Polling
        <5>2. ~Holds(p)
          BY <4>2, <5>1 DEF Exclusive
        <5>3. job[p].kind = "identify"
          BY <2>3, <5>2 DEF Holds, Using, Polling
        <5> QED BY <3>1, <5>3
      <4> QED BY <4>1, <4>2
    <3> QED BY <1>0, <3>1, <3>2 DEF DriveInv
  <2>4. CASE at[p] = "packet"
    <3>1. drive' = [drive EXCEPT !.st = "busy", !.left = job[p].n] /\ drive.st = "drq"
          /\ (at' = [at EXCEPT ![p] = "block"] \/ at' = [at EXCEPT ![p] = "final"])
      BY <2>1, <2>4 DEF Satisfied
    <3>2. job[p].n \in 0..MaxBlocks
      BY DEF TypeOK
    <3>3. drive.next = 0 /\ drive.data = 0
      BY <1>0, <2>4, <3>1 DEF DriveInv
    <3>4. /\ drive' \in DriveType /\ drive'.st = "busy" /\ drive'.next = 0 /\ drive'.data = 0
          /\ drive'.left = job[p].n
      <4>1. job[p].n \in 0..(MaxCount + MaxBlocks)
        BY <1>0, <3>2
      <4> QED BY <1>0, <3>1, <3>3, <4>1 DEF DriveType
    <3>5. ASSUME NEW q \in Proc PROVE at'[q] # "packet"
      <4>1. CASE q = p
        BY <1>0, <3>1, <4>1
      <4>2. CASE q # p
        <5>1. Holds(p)
          BY <2>4 DEF MutexInv, Holds, Using, Polling
        <5>2. ~Holds(q)
          BY <4>2, <5>1 DEF Exclusive
        <5>3. at[q] # "packet"
          BY <5>2 DEF MutexInv, Holds, Using, Polling
        <5> QED BY <1>0, <3>1, <4>2, <5>3
      <4> QED BY <4>1, <4>2
    <3> QED BY <1>0, <3>2, <3>4, <3>5 DEF DriveInv
  <2> QED BY <2>1, <2>2, <2>3, <2>4
<1>8. ASSUME NEW p \in Proc, Transfer(p)
      PROVE  DriveInv'
  <2>1. /\ drive.st = "drq"
        /\ \E d \in Proc \cup {0} : drive' = AfterSector(d)
    BY <1>8 DEF Transfer, Satisfied
  <2>2. PICK d \in Proc \cup {0} : drive' = AfterSector(d)
    BY <2>1
  <2>3. /\ drive' \in DriveType /\ drive'.st = "busy" /\ drive'.next = drive.next + 1
        /\ drive'.left = drive.left - 1
    BY <2>1, <2>2, SectorFacts
  <2>4. \A q \in Proc : at'[q] = "packet" => at[q] = "packet"
    <3>1. CASE Ends(p)
      BY <1>8, <3>1, EndsFacts, EndsAt
    <3>2. CASE at' = at \/ at' = [at EXCEPT ![p] = "final"]
      BY <1>0, <3>2
    <3> QED BY <1>8, <3>1, <3>2, EndsFacts
  <2> QED BY <1>0, <2>1, <2>3, <2>4 DEF DriveInv
<1>9. ASSUME NEW p \in Proc, Complete(p) \/ ResetDone(p)
      PROVE  DriveInv'
  <2>1. Ends(p) /\ Using(p) /\ drive' = drive
    BY <1>9, EndsFacts DEF Complete, ResetDone
  <2>2. \A q \in Proc : at'[q] = "packet" => at[q] = "packet"
    BY <2>1, EndsAt
  <2> QED BY <1>1, <2>1, <2>2
<1>10. ASSUME NEW p \in Proc, Reset(p)
       PROVE  DriveInv'
  BY <1>2, <1>10 DEF Reset
<1>11. CASE UNCHANGED vars
  BY <1>1, <1>11 DEF vars
<1> QED BY <1>3, <1>4, <1>5, <1>6, <1>7, <1>8, <1>9, <1>10, <1>11 DEF Next

\* What a step does to the mutex: it is taken, waited for or freed, a process that waits for it
\* or holds it is killed, or nothing but a process that goes on without touching it.
Takes(p) ==
  /\ at[p] = "lock" /\ ~locked /\ locked' = TRUE /\ at' = [at EXCEPT ![p] = "calm"]
  /\ UNCHANGED <<waitqueue, job, lost>>
Queues(p) ==
  /\ at[p] = "lock" /\ locked /\ waitqueue' = Append(waitqueue, p)
  /\ at' = [at EXCEPT ![p] = "queued"]
  /\ UNCHANGED <<locked, job, lost>>
Frees(p) == Holds(p) /\ Unlocks(p) /\ UNCHANGED <<job, lost>>
Kills(p) ==
  /\ waitqueue' = RemoveFirst(waitqueue, p) /\ at' = [at EXCEPT ![p] = "dead"]
  /\ lost' = (lost \/ Holds(p) \/ at[p] = "lock")
  /\ UNCHANGED <<locked, job>>
Goes(p) ==
  /\ UNCHANGED <<locked, waitqueue, lost>>
  /\ at[p] \notin {"lock", "queued"} /\ (Holds(p)' <=> Holds(p))
  /\ \E l \in At \ {"queued"} :
       /\ at' = [at EXCEPT ![p] = l]
       /\ l = "lock" => job'[p].kind # "identify"
       /\ l = "packet" => job'[p].kind = "packet"
       /\ l = "probe" => job'[p].kind = "identify"
  /\ job' \in [Proc -> [kind : Kinds \cup {"none"}, n : 0..MaxBlocks]]
  /\ \A q \in Proc \ {p} : job'[q] = job[q]
MutexStill == UNCHANGED <<locked, waitqueue, at, job, lost>>

\* What a step may do to the mutex of the drive: take it, queue for it, free it, or nothing.
LEMMA MutexKinds ==
  ASSUME AtaAssumption, TypeOK, MutexInv, [Next]_vars
  PROVE  \/ MutexStill
         \/ \E p \in Proc : Takes(p) \/ Queues(p) \/ Frees(p) \/ Kills(p) \/ Goes(p)
<1>0. /\ at \in [Proc -> At] /\ {"user", "lock", "probe", "calm", "reset", "final"} \subseteq At
      /\ job \in [Proc -> [kind : Kinds \cup {"none"}, n : 0..MaxBlocks]]
  BY DEF TypeOK, At, Polling
<1>1. CASE DriveAnswers \/ DriveFails \/ UNCHANGED vars
  BY <1>1 DEF DriveAnswers, DriveFails, vars, MutexStill
<1>2. ASSUME NEW p \in Proc, NEW k \in Kinds, NEW n \in 0..MaxBlocks, Begin(p, k, n)
      PROVE  Goes(p)
  <2>1. /\ job' = [job EXCEPT ![p] = [kind |-> k, n |-> n]] /\ at[p] = "user"
        /\ UNCHANGED <<locked, waitqueue, lost>>
        /\ \/ k = "identify" /\ at' = [at EXCEPT ![p] = "probe"]
           \/ k # "identify" /\ at' = [at EXCEPT ![p] = "lock"]
    BY <1>2 DEF Begin
  <2>2. ~Using(p) /\ ~Using(p)'
    BY <1>0, <2>1 DEF Using, Polling
  <2>3. job' \in [Proc -> [kind : Kinds \cup {"none"}, n : 0..MaxBlocks]] /\ job'[p].kind = k
        /\ \A q \in Proc \ {p} : job'[q] = job[q]
    BY <1>0, <2>1
  <2> QED BY <1>0, <2>1, <2>2, <2>3 DEF Goes, Holds
<1>3. ASSUME NEW p \in Proc, MutexLock(p)
      PROVE  Takes(p) \/ Queues(p)
  BY <1>3 DEF MutexLock, Takes, Queues
<1>4. ASSUME NEW p \in Proc, NEW l \in At \ {"queued", "lock", "probe"}, Using(p),
             at' = [at EXCEPT ![p] = l], UNCHANGED <<locked, waitqueue, lost, job>>,
             l = "packet" => job[p].kind = "packet",
             l \in Polling \cup {"reset"} \/ job[p].kind = "identify"
      PROVE  Goes(p)
  <2>1. Holds(p)' <=> Holds(p)
    BY <1>0, <1>4 DEF Holds, Using
  <2> QED BY <1>0, <1>4, <2>1 DEF Goes, Using, Polling
<1>5. ASSUME NEW p \in Proc, Started(p)
      PROVE  Goes(p)
  <2>1. /\ Using(p) /\ UNCHANGED <<locked, waitqueue, lost, job>>
        /\ \E l \in {"ready", "packet", "block", "final"} :
             at' = [at EXCEPT ![p] = l] /\ (l = "packet" => job[p].kind = "packet")
    BY <1>5, <1>0 DEF Started, Using, Polling
  <2> QED BY <1>4, <2>1 DEF At, Polling
<1>6. ASSUME NEW p \in Proc, Using(p), Ends(p), UNCHANGED <<job, lost>>
      PROVE  Goes(p) \/ Frees(p)
  <2>1. PICK r \in 0..MaxBlocks : Finish(p, r)
    BY <1>6 DEF Ends
  <2>2. CASE job[p].kind = "identify"
    BY <1>0, <1>4, <1>6, <2>1, <2>2, FinishFacts
  <2>3. CASE job[p].kind # "identify"
    BY <1>6, <2>1, <2>3, FinishFacts DEF Frees, Holds
  <2> QED BY <2>2, <2>3
<1>7. ASSUME NEW p \in Proc, Transfer(p)
      PROVE  MutexStill \/ Goes(p) \/ Frees(p)
  <2>1. UNCHANGED <<job, lost>> /\ Using(p)
    BY <1>7, EndsFacts DEF Transfer
  <2>2. CASE Ends(p)
    BY <1>6, <2>1, <2>2
  <2>3. CASE UNCHANGED <<locked, waitqueue>> /\ at' = at
    BY <2>1, <2>3 DEF MutexStill
  <2>4. CASE UNCHANGED <<locked, waitqueue>> /\ at' = [at EXCEPT ![p] = "final"]
    BY <1>0, <1>4, <2>1, <2>4 DEF Polling
  <2> QED BY <1>7, <2>2, <2>3, <2>4, EndsFacts
<1>8. ASSUME NEW p \in Proc, Complete(p) \/ ResetDone(p)
      PROVE  Goes(p) \/ Frees(p)
  BY <1>6, <1>8, EndsFacts DEF Complete, ResetDone
<1>9. ASSUME NEW p \in Proc, Reset(p)
      PROVE  Goes(p)
  BY <1>0, <1>4, <1>9 DEF Reset, Using
<1>10. ASSUME NEW p \in Proc, ProbeBegin(p)
       PROVE  Goes(p)
  <2>1. /\ at[p] = "probe" /\ at' = [at EXCEPT ![p] = "calm"] /\ job' = job
        /\ UNCHANGED <<locked, waitqueue, lost>>
    BY <1>10 DEF ProbeBegin
  <2>2. job[p].kind = "identify"
    BY <2>1 DEF MutexInv
  <2> QED BY <1>0, <2>1, <2>2 DEF Goes, Holds
<1>11. ASSUME NEW p \in Proc, Kill(p)
       PROVE  Kills(p)
  BY <1>11 DEF Kill, Kills
<1> QED BY <1>1, <1>2, <1>3, <1>5, <1>7, <1>8, <1>9, <1>10, <1>11 DEF Next

\* Every step keeps the mutex to one holder and the others awake or in the queue.
LEMMA MutexStep ==
  ASSUME AtaAssumption, AInv, [Next]_vars
  PROVE  /\ at' \in [Proc -> At] /\ waitqueue' \in Seq(Proc)
         /\ locked' \in BOOLEAN /\ lost' \in BOOLEAN
         /\ job' \in [Proc -> [kind : Kinds \cup {"none"}, n : 0..MaxBlocks]]
         /\ MutexInv' /\ Exclusive' /\ NoneStranded'
<1> USE DEF AInv
<1>0. /\ at \in [Proc -> At] /\ waitqueue \in Seq(Proc) /\ IsInjective(waitqueue)
      /\ locked \in BOOLEAN /\ lost \in BOOLEAN
      /\ job \in [Proc -> [kind : Kinds \cup {"none"}, n : 0..MaxBlocks]]
      /\ {"user", "lock", "queued", "calm", "dead"} \subseteq At
      /\ Range(waitqueue) \subseteq Proc /\ (waitqueue = << >> <=> Range(waitqueue) = {})
  <2>1. waitqueue \in Seq(Proc)
    BY DEF TypeOK
  <2>2. Range(waitqueue) \subseteq Proc /\ (waitqueue = << >> <=> Range(waitqueue) = {})
    BY <2>1, ListNodes
  <2>3. IsInjective(waitqueue)
    BY DEF MutexInv
  <2>4. /\ at \in [Proc -> At] /\ locked \in BOOLEAN /\ lost \in BOOLEAN
        /\ job \in [Proc -> [kind : Kinds \cup {"none"}, n : 0..MaxBlocks]]
    BY DEF TypeOK
  <2>5. {"user", "lock", "queued", "calm", "dead"} \subseteq At
    BY DEF At, Polling
  <2> QED BY <2>1, <2>2, <2>3, <2>4, <2>5
<1>1. CASE MutexStill
  BY <1>0, <1>1 DEF MutexStill, MutexInv, Exclusive, NoneStranded, Holds, Using
<1>2. ASSUME NEW p \in Proc, Takes(p)
      PROVE  at' \in [Proc -> At] /\ MutexInv' /\ Exclusive' /\ NoneStranded'
  <2>1. /\ at' \in [Proc -> At] /\ at[p] = "lock" /\ at'[p] = "calm"
        /\ \A q \in Proc \ {p} : at'[q] = at[q]
        /\ UNCHANGED <<waitqueue, job, lost>> /\ locked' = TRUE /\ ~locked
    BY <1>0, <1>2 DEF Takes
  <2>2. Holds(p)' /\ \A q \in Proc \ {p} : Holds(q)' <=> Holds(q)
    BY <2>1 DEF MutexInv, Holds, Using, Polling
  <2>3. \A q \in Proc : ~Holds(q)
    BY <2>1 DEF Exclusive
  <2> QED BY <1>0, <2>1, <2>2, <2>3 DEF MutexInv, Exclusive, NoneStranded
<1>3. ASSUME NEW p \in Proc, Queues(p)
      PROVE  /\ at' \in [Proc -> At] /\ waitqueue' \in Seq(Proc)
             /\ MutexInv' /\ Exclusive' /\ NoneStranded'
  <2>1. /\ at' \in [Proc -> At] /\ at[p] = "lock" /\ at'[p] = "queued"
        /\ \A q \in Proc \ {p} : at'[q] = at[q]
        /\ UNCHANGED <<locked, job, lost>> /\ locked
    BY <1>0, <1>3 DEF Queues
  <2>2. p \notin Range(waitqueue)
    BY <2>1 DEF MutexInv
  <2>3. /\ waitqueue' \in Seq(Proc) /\ IsInjective(waitqueue')
        /\ Range(waitqueue') = Range(waitqueue) \cup {p}
    BY <1>0, <1>3, <2>2, AppendNodes DEF Queues
  <2>4. \A q \in Proc : Holds(q)' <=> Holds(q)
    BY <2>1 DEF Holds, Using, Polling
  <2> QED BY <1>0, <2>1, <2>3, <2>4 DEF MutexInv, Exclusive, NoneStranded
<1>4. ASSUME NEW p \in Proc, Frees(p)
      PROVE  /\ at' \in [Proc -> At] /\ waitqueue' \in Seq(Proc) /\ locked' = FALSE
             /\ MutexInv' /\ Exclusive' /\ NoneStranded'
  <2>1. /\ locked' = FALSE /\ waitqueue' \in Seq(Proc) /\ IsInjective(waitqueue')
        /\ UNCHANGED <<job, lost>> /\ at[p] # "queued"
    BY <1>4 DEF Frees, Unlocks, Holds, Using, Polling
  <2>2. \A q \in Proc \ {p} : ~Holds(q)
    BY <1>4 DEF Frees, Exclusive
  <2>3. CASE waitqueue = << >> /\ waitqueue' = << >> /\ at' = [at EXCEPT ![p] = "user"]
    <3>1. \A q \in Proc : ~Holds(q)'
      BY <1>0, <2>1, <2>2, <2>3 DEF Holds, Using, Polling
    <3> QED BY <1>0, <2>1, <2>3, <3>1 DEF MutexInv, Exclusive, NoneStranded
  <2>4. ASSUME NEW h \in Proc \ {p},
               at[h] = "queued", Range(waitqueue') = Range(waitqueue) \ {h},
               at' = [at EXCEPT ![p] = "user", ![h] = "lock"]
        PROVE  at' \in [Proc -> At] /\ MutexInv' /\ Exclusive' /\ NoneStranded'
    <3>1. /\ at' \in [Proc -> At] /\ at'[p] = "user" /\ at'[h] = "lock"
          /\ \A q \in Proc \ {p, h} : at'[q] = at[q]
      BY <1>0, <2>4
    <3>2. \A q \in Proc : ~Holds(q)'
      BY <2>1, <2>2, <3>1 DEF Holds, Using, Polling
    <3> QED BY <1>0, <2>1, <2>4, <3>1, <3>2, ZenonT(40) DEF MutexInv, Exclusive, NoneStranded
  <2>5. at' \in [Proc -> At] /\ MutexInv' /\ Exclusive' /\ NoneStranded'
    <3>1. at' = [at EXCEPT ![p] = "user"] => at' \in [Proc -> At]
      BY <1>0
    <3> QED BY <1>4, <2>3, <2>4, <3>1 DEF Frees, Unlocks
  <2> QED BY <2>1, <2>5
<1>5. ASSUME NEW p \in Proc, Kills(p)
      PROVE  /\ at' \in [Proc -> At] /\ waitqueue' \in Seq(Proc) /\ lost' \in BOOLEAN
             /\ MutexInv' /\ Exclusive' /\ NoneStranded'
  <2>1. /\ at' \in [Proc -> At] /\ at'[p] = "dead"
        /\ \A q \in Proc \ {p} : at'[q] = at[q]
        /\ UNCHANGED <<locked, job>>
    BY <1>0, <1>5 DEF Kills
  <2>2. /\ waitqueue' \in Seq(Proc) /\ IsInjective(waitqueue')
        /\ Range(waitqueue') = Range(waitqueue) \ {p}
    <3> DEFINE c == RemoveFirst(waitqueue, p)
    <3>1. c \in Seq(Proc) /\ IsInjective(c) /\ Range(c) = Range(waitqueue) \ {p}
      BY <1>0, CutNodes, Zenon
    <3>2. waitqueue' = c
      BY <1>5 DEF Kills
    <3> HIDE DEF c
    <3> QED BY <3>1, <3>2
  <2>3. lost' \in BOOLEAN /\ (~lost' => ~lost /\ ~Holds(p) /\ at[p] # "lock")
    BY <1>5, Zenon DEF Kills
  <2>4. ~Holds(p)' /\ \A q \in Proc \ {p} : Holds(q)' <=> Holds(q)
    BY <2>1 DEF Holds, Using, Polling
  <2>5. waitqueue' # << >> => waitqueue # << >>
    BY <1>0, <2>2, ListNodes
  <2>6. MutexInv'
    BY <2>1, <2>2, <2>3, <2>4 DEF MutexInv
  <2>7. Exclusive' /\ NoneStranded'
    BY <2>1, <2>3, <2>4, <2>5 DEF Exclusive, NoneStranded
  <2> QED BY <2>1, <2>2, <2>3, <2>6, <2>7
<1>6. ASSUME NEW p \in Proc, Goes(p)
      PROVE  at' \in [Proc -> At] /\ MutexInv' /\ Exclusive' /\ NoneStranded'
  <2>1. PICK l \in At \ {"queued"} :
          /\ at' = [at EXCEPT ![p] = l]
          /\ l = "lock" => job'[p].kind # "identify"
          /\ l = "packet" => job'[p].kind = "packet"
          /\ l = "probe" => job'[p].kind = "identify"
    BY <1>6 DEF Goes
  <2>2. /\ at' \in [Proc -> At] /\ at'[p] = l /\ at[p] # "queued" /\ at[p] # "lock"
        /\ \A q \in Proc \ {p} : at'[q] = at[q] /\ job'[q] = job[q]
        /\ UNCHANGED <<locked, waitqueue, lost>>
    BY <1>0, <1>6, <2>1 DEF Goes
  <2>3. \A q \in Proc : Holds(q)' <=> Holds(q)
    BY <1>6, <2>2 DEF Goes, Holds, Using
  <2>4. MutexInv'
    BY <2>1, <2>2, <2>3 DEF MutexInv
  <2> QED BY <2>2, <2>3, <2>4 DEF Exclusive, NoneStranded
<1>7. /\ at' \in [Proc -> At] /\ waitqueue' \in Seq(Proc)
      /\ MutexInv' /\ Exclusive' /\ NoneStranded'
  BY <1>0, <1>1, <1>2, <1>3, <1>4, <1>5, <1>6, MutexKinds
     DEF MutexStill, Takes, Goes
<1>8. locked' \in BOOLEAN /\ lost' \in BOOLEAN
  BY <1>0, <1>4, <1>5, MutexKinds DEF MutexStill, Takes, Queues, Frees, Kills, Goes
<1>9. job' \in [Proc -> [kind : Kinds \cup {"none"}, n : 0..MaxBlocks]]
  BY <1>0, MutexKinds DEF MutexStill, Takes, Queues, Frees, Kills, Goes
<1> QED BY <1>7, <1>8, <1>9

\* Every step keeps the types.
LEMMA TypeStep ==
  ASSUME AtaAssumption, AInv, [Next]_vars
  PROVE  TypeOK'
<1> USE DEF AInv
<1> DEFINE Got == [Proc -> Seq(Proc \cup {0, Identity})]
           Ret == [Proc -> 0..MaxBlocks]
           Dsk == [Sector -> Proc \cup {0}]
           Good == /\ got' \in Got /\ result' \in Ret /\ disk' \in Dsk
                   /\ jobs' \in 0..MaxJobs /\ mixed' \in BOOLEAN
<1>0. /\ got \in Got /\ disk \in Dsk /\ result \in Ret
      /\ jobs \in 0..MaxJobs /\ mixed \in BOOLEAN
  BY DEF TypeOK
<1>1. ASSUME DriveAnswers
      PROVE  Good
  <2>1. UNCHANGED <<got, result, jobs, mixed>>
    BY <1>1 DEF DriveAnswers
  <2>2. CASE drive.data = 0
    BY <1>0, <1>1, <2>1, <2>2 DEF DriveAnswers
  <2>3. CASE drive.data # 0
    <3>1. drive.data \in Proc \cup {0} /\ drive.next \in Sector /\ drive.next > 0
      BY <2>3 DEF DriveInv, DriveType
    <3>2. disk' = [disk EXCEPT ![drive.next - 1] = drive.data]
      BY <1>1, <2>3 DEF DriveAnswers
    <3> QED BY <1>0, <2>1, <3>1, <3>2
  <2> QED BY <2>2, <2>3
<1>2. ASSUME UNCHANGED <<got, result, disk, jobs, mixed>>
      PROVE  Good
  BY <1>0, <1>2
<1>3. ASSUME NEW p \in Proc, NEW k \in Kinds, NEW n \in 0..MaxBlocks, Begin(p, k, n)
      PROVE  Good
  <2>1. /\ jobs' = jobs + 1 /\ jobs < MaxJobs /\ UNCHANGED <<result, disk>>
        /\ got' = [got EXCEPT ![p] = << >>]
    BY <1>3 DEF Begin
  <2>2. mixed' \in BOOLEAN
    BY <1>0, <1>3, Zenon DEF Begin
  <2>3. got' \in Got
    BY <1>0, <2>1
  <2>4. jobs' \in 0..MaxJobs
    BY <1>0, <2>1, AtaFacts
  <2> QED BY <1>0, <2>1, <2>2, <2>3, <2>4
<1>4. ASSUME NEW p \in Proc, Started(p) \/ ProbeBegin(p)
      PROVE  Good
  <2>1. UNCHANGED <<got, result, disk, jobs>>
    BY <1>4 DEF Started, ProbeBegin
  <2>2. mixed' \in BOOLEAN
    BY <1>4, Zenon DEF Started, ProbeBegin
  <2> QED BY <1>0, <2>1, <2>2
<1>5. ASSUME NEW p \in Proc, Ends(p), Using(p)
      PROVE  result' \in Ret
  BY <1>5, FinishFacts DEF Ends
<1>6. ASSUME NEW p \in Proc, Transfer(p)
      PROVE  Good
  <2>1. drive.st = "drq" /\ UNCHANGED <<disk, jobs, mixed>>
    BY <1>6 DEF Transfer, Satisfied
  <2>2. DataIn \in Proc \cup {0, Identity}
    BY <2>1, SectorFacts
  <2>3. PICK d \in Proc \cup {0, Identity} : got' = [got EXCEPT ![p] = Append(@, d)]
    BY <1>6, <2>2 DEF Transfer
  <2>4. got' \in Got
    BY <1>0, <2>3
  <2>5. result' \in Ret
    BY <1>0, <1>5, <1>6, EndsFacts
  <2> QED BY <1>0, <2>1, <2>4, <2>5
<1>7. ASSUME NEW p \in Proc, Complete(p) \/ ResetDone(p)
      PROVE  Good
  <2>1. UNCHANGED <<got, disk, jobs, mixed>> /\ result' \in Ret
    BY <1>5, <1>7, EndsFacts DEF Complete, ResetDone
  <2> QED BY <1>0, <2>1
<1>8. Good
  <2>1. ASSUME NEW p \in Proc, MutexLock(p) \/ Reset(p) \/ Kill(p)
        PROVE  Good
    BY <1>2, <2>1 DEF MutexLock, Reset, Kill
  <2>2. CASE DriveFails \/ UNCHANGED vars
    BY <1>2, <2>2 DEF DriveFails, vars
  <2> HIDE DEF Good
  <2> QED BY <1>1, <1>3, <1>4, <1>6, <1>7, <2>1, <2>2 DEF Next
<1>9. /\ drive'.st \in {"idle", "busy", "drq", "error"} /\ drive'.next \in Sector
      /\ drive'.left \in 0..(MaxCount + MaxBlocks) /\ drive'.data \in Proc \cup {0}
  BY DriveStep DEF DriveInv, DriveType
<1> QED BY <1>8, <1>9, MutexStep DEF TypeOK

\* What a transfer has moved, as the drive answers, takes a command, or gives a sector.
LEMMA InStepTypes ==
  ASSUME AtaAssumption, TypeOK, DriveInv, NEW p \in Proc
  PROVE  /\ Len(got[p]) \in Nat /\ job[p].n \in 0..MaxBlocks /\ job[p].n \in Nat
         /\ drive.next \in Nat /\ drive.left \in Nat /\ drive \in DriveType
         /\ \A i \in Nat : i < job[p].n => i \in Sector
         /\ disk \in [Sector -> Proc \cup {0}] /\ got[p] \in Seq(Proc \cup {0, Identity})
         /\ 0 \notin Proc /\ MaxCount \in Nat /\ MaxBlocks \in Nat
<1>1. /\ got[p] \in Seq(Proc \cup {0, Identity}) /\ job[p].n \in 0..MaxBlocks
      /\ disk \in [Sector -> Proc \cup {0}]
  BY DEF TypeOK
<1>2. drive \in DriveType /\ drive.next \in Nat /\ drive.left \in Nat
  BY AtaFacts DEF DriveInv, DriveType, Sector
<1>3. MaxCount \in Nat /\ MaxBlocks \in Nat /\ 0 \notin Proc
  BY AtaFacts
<1>4. ASSUME NEW i \in Nat, i < job[p].n
      PROVE  i \in Sector
  BY <1>1, <1>3, <1>4 DEF Sector
<1>5. Len(got[p]) \in Nat /\ job[p].n \in Nat
  BY <1>1, <1>3
<1> QED BY <1>1, <1>2, <1>3, <1>4, <1>5

\* An answer of the drive keeps it in step with the transfer that waits for it.
LEMMA InStepAnswered ==
  ASSUME AtaAssumption, TypeOK, DriveInv, NEW p \in Proc, InStep(p), DriveAnswers \/ DriveFails,
         job[p].kind \in {"read", "write"}
  PROVE  InStep(p)'
<1> DEFINE n == Len(got[p])
<1>0. /\ n \in Nat /\ job[p].n \in Nat /\ drive.next = n /\ n <= job[p].n
      /\ disk \in [Sector -> Proc \cup {0}] /\ \A i \in Nat : i < job[p].n => i \in Sector
      /\ drive \in DriveType
  BY InStepTypes DEF InStep
<1>1. UNCHANGED <<at, job, got>> /\ drive.st = "busy"
  BY DEF DriveAnswers, DriveFails
<1>2. /\ drive'.kind = drive.kind /\ drive'.next = drive.next /\ drive'.left = drive.left
      /\ drive'.data = 0 /\ drive'.st # "busy"
  BY <1>0 DEF DriveAnswers, DriveFails, DriveType
<1>3. DriveFails => disk' = disk /\ drive'.st # "drq"
  BY <1>0 DEF DriveFails, DriveType
<1>4. DriveAnswers => disk' = IF drive.data = 0 THEN disk
                              ELSE [disk EXCEPT ![drive.next - 1] = drive.data]
  BY DEF DriveAnswers
<1>5. ASSUME NEW i \in 1..n
      PROVE  \/ got'[p][i] = disk'[i - 1]
             \/ job'[p].kind = "write" /\ i = n /\ drive'.st # "drq"
  <2>1. \/ got[p][i] = disk[i - 1]
        \/ job[p].kind = "write" /\ i = n /\ drive.st # "drq"
    BY DEF InStep
  <2>2. CASE DriveFails
    BY <1>1, <1>3, <2>1, <2>2
  <2>3. CASE DriveAnswers /\ job[p].kind = "read"
    BY <1>1, <1>4, <2>1, <2>3 DEF InStep
  <2>4. CASE DriveAnswers /\ job[p].kind = "write"
    <3>1. /\ drive.data = p /\ p # 0 /\ got[p][i] = p /\ n - 1 \in Sector /\ i - 1 \in Sector
          /\ disk' = [disk EXCEPT ![n - 1] = p]
      <4>1. drive.data = p /\ got[p][i] = p
        BY <1>0, <1>1, <2>4 DEF InStep
      <4>2. p # 0
        BY AtaFacts
      <4>3. n - 1 \in Sector /\ i - 1 \in Sector
        BY <1>0
      <4> QED BY <1>0, <1>4, <2>4, <4>1, <4>2, <4>3
    <3>2. CASE i = n
      BY <1>0, <1>1, <3>1, <3>2
    <3>3. CASE i # n
      <4>1. disk'[i - 1] = disk[i - 1]
        BY <1>0, <3>1, <3>3
      <4> QED BY <1>1, <2>1, <3>3, <4>1
    <3> QED BY <3>2, <3>3
  <2> QED BY <2>2, <2>3, <2>4
<1> HIDE DEF n
<1>6. Len(got'[p]) = n /\ Len(got[p]) = n
  BY <1>1 DEF n
<1> QED BY <1>0, <1>1, <1>2, <1>5, <1>6 DEF InStep

\* A read or write that was started with its count and sector is in step with the drive.
LEMMA InStepStarted ==
  ASSUME AtaAssumption, AInv, NEW p \in Proc, Started(p), at[p] = "ready",
         job[p].kind \in {"read", "write"}
  PROVE  InStep(p)'
<1> USE DEF AInv
<1>1. /\ drive' = Command(p) /\ UNCHANGED <<job, got>>
      /\ at' = [at EXCEPT ![p] = IF job[p].n > 0 THEN "block" ELSE "final"]
      /\ at \in [Proc -> At] /\ got[p] = << >>
  BY DEF Started, TypeOK, TransferInv
<1>2. /\ drive'.st = "busy" /\ drive'.kind = job[p].kind /\ drive'.next = 0 /\ drive'.data = 0
      /\ drive'.left = Count(job[p].n) /\ drive'.left \in 1..MaxCount
  BY <1>1, CommandFacts
<1>3. job[p].n \in Nat /\ MaxCount \in Nat
  BY InStepTypes
<1>4. at'[p] = "block" <=> 0 < job[p].n
  BY <1>1, <1>3
<1>5. Len(got'[p]) = 0
  BY <1>1
<1> QED BY <1>1, <1>2, <1>3, <1>4, <1>5 DEF InStep

\* A sector that was transferred keeps the process and the drive in step.
LEMMA InStepMoved ==
  ASSUME AtaAssumption, TypeOK, DriveInv, NEW p \in Proc, InStep(p), Transfer(p),
         job[p].kind \in {"read", "write"}
  PROVE  InStep(p)'
<1> DEFINE n == Len(got[p])
           d == IF job[p].kind = "write" THEN p ELSE disk[n]
           e == IF job[p].kind = "write" THEN p ELSE 0
<1>0. /\ n \in Nat /\ job[p].n \in Nat /\ drive.next = n /\ n < job[p].n
      /\ got \in [Proc -> Seq(Proc \cup {0, Identity})] /\ n \in Sector
      /\ at \in [Proc -> At] /\ drive.kind = job[p].kind /\ at[p] = "block"
      /\ drive.next + drive.left = Count(job[p].n) /\ drive.left \in Nat
      /\ drive.st = "drq"
  <2>1. at[p] = "block" /\ drive.st = "drq"
    BY DEF Transfer, Satisfied
  <2> QED BY <2>1, InStepTypes DEF InStep, TypeOK
<1>1. DataIn = disk[n] /\ disk[n] \in Proc \cup {0}
  <2>1. DataIn = disk[drive.next]
    BY <1>0, SectorFacts
  <2> QED BY <1>0, <2>1 DEF TypeOK
<1>2. /\ got' = [got EXCEPT ![p] = Append(@, d)] /\ drive' = AfterSector(e)
      /\ UNCHANGED <<job, disk>>
      /\ IF n + 1 < job[p].n THEN at' = at ELSE at' = [at EXCEPT ![p] = "final"]
  BY <1>1 DEF Transfer
<1>3. d \in Proc \cup {0, Identity} /\ e \in Proc \cup {0}
  BY <1>1
<1>4. /\ drive'.st = "busy" /\ drive'.kind = drive.kind /\ drive'.next = n + 1
      /\ drive'.left = drive.left - 1 /\ drive'.data = e
  BY <1>0, <1>2, <1>3, SectorFacts
<1>5. drive.left > 0
  BY <1>0 DEF DriveInv
<1>6. at'[p] = "block" <=> n + 1 < job[p].n
  BY <1>0, <1>2
<1> HIDE DEF n, d, e
<1>7. got[p] \in Seq(Proc \cup {0, Identity}) /\ got'[p] = Append(got[p], d)
  BY <1>0, <1>2
<1>8. /\ Len(got'[p]) = n + 1 /\ got'[p][n + 1] = d
      /\ \A i \in 1..n : got'[p][i] = got[p][i]
  BY <1>3, <1>7 DEF n
<1>9. ASSUME NEW i \in 1..(n + 1)
      PROVE  /\ \/ got'[p][i] = disk'[i - 1]
                \/ job'[p].kind = "write" /\ i = n + 1 /\ drive'.st # "drq"
             /\ job[p].kind = "write" => got'[p][i] = p
  <2>1. CASE i = n + 1
    BY <1>0, <1>2, <1>4, <1>8, <2>1 DEF d
  <2>2. CASE i \in 1..n
    <3>1. got[p][i] = disk[i - 1] /\ (job[p].kind = "write" => got[p][i] = p)
      BY <1>0, <2>2 DEF InStep, n
    <3> QED BY <1>2, <1>8, <2>2, <3>1
  <2> QED BY <1>0, <2>1, <2>2
<1>10. /\ job[p].kind = "read" => drive'.data = 0
       /\ job[p].kind = "write" => drive'.data = p
  BY <1>4 DEF e
<1>11. /\ drive'.kind = job'[p].kind /\ drive'.next = Len(got'[p])
       /\ drive'.next + drive'.left = Count(job'[p].n)
       /\ Len(got'[p]) <= job'[p].n /\ (at'[p] = "block" <=> Len(got'[p]) < job'[p].n)
  <2>1. drive'.next + drive'.left = drive.next + drive.left
    <3>1. \A a, b \in Nat : (a + 1) + (b - 1) = a + b
      OBVIOUS
    <3>2. drive.next \in Nat /\ drive.left \in Nat
      BY <1>0
    <3>3. drive'.next = drive.next + 1 /\ drive'.left = drive.left - 1
      BY <1>0, <1>4
    <3> QED BY <3>1, <3>2, <3>3
  <2>2. Len(got'[p]) <= job[p].n /\ (at'[p] = "block" <=> Len(got'[p]) < job[p].n)
    BY <1>0, <1>6, <1>8
  <2> QED BY <1>0, <1>2, <1>4, <1>8, <2>1, <2>2
<1>12. job'[p].kind = "write" =>
         /\ drive'.data \in {0, p}
         /\ drive'.st = "busy" /\ Len(got'[p]) > 0 => drive'.data = p
  BY <1>2, <1>10
<1> QED BY <1>2, <1>8, <1>9, <1>10, <1>11, <1>12 DEF InStep

\* Every step keeps transfers in step with the drive, unless commands were mixed up.
LEMMA TransferStep ==
  ASSUME AtaAssumption, AInv, [Next]_vars
  PROVE  TransferInv'
<1> USE DEF AInv
<1> DEFINE Early == {"lock", "queued", "probe", "calm", "ready", "packet"}
<1>0. at \in [Proc -> At] /\ got \in [Proc -> Seq(Proc \cup {0, Identity})]
      /\ job \in [Proc -> [kind : Kinds \cup {"none"}, n : 0..MaxBlocks]]
  BY DEF TypeOK
<1>1. ASSUME NEW p \in Proc, Ends(p), Using(p), UNCHANGED job
      PROVE  /\ \A q \in Proc : at'[q] \in Early => at[q] \in Early
             /\ ~Using(p)' /\ \A q \in Proc \ {p} : (Using(q)' <=> Using(q)) /\ (Alone(q)' => Alone(q))
             /\ \A q \in Proc \ {p} : at'[q] \in {"block", "final"} => at[q] = at'[q]
  BY <1>1, EndsAt DEF Using, Alone, Holds, Polling
\* Nothing is read or written before the transfer.
<1>2. ASSUME NEW q \in Proc, at'[q] \in Early
      PROVE  got'[q] = << >>
  <2>1. ASSUME NEW p \in Proc, NEW k \in Kinds, NEW n \in 0..MaxBlocks, Begin(p, k, n)
        PROVE  got'[q] = << >>
    <3>1. /\ got' = [got EXCEPT ![p] = << >>]
          /\ at' = [at EXCEPT ![p] = "probe"] \/ at' = [at EXCEPT ![p] = "lock"]
      BY <2>1 DEF Begin
    <3> QED BY <1>0, <1>2, <3>1 DEF TransferInv
  <2>2. ASSUME NEW p \in Proc, Transfer(p)
        PROVE  got'[q] = << >>
    <3>1. /\ at[p] = "block" /\ \A r \in Proc \ {p} : got'[r] = got[r]
          /\ UNCHANGED job
      BY <1>0, <2>2 DEF Transfer
    <3>2. at[q] \in Early
      <4>1. CASE Ends(p)
        BY <1>1, <1>2, <2>2, <3>1, <4>1, EndsFacts
      <4>2. CASE at' = at \/ at' = [at EXCEPT ![p] = "final"]
        BY <1>0, <1>2, <4>2
      <4> QED BY <2>2, <4>1, <4>2, EndsFacts
    <3> QED BY <3>1, <3>2 DEF TransferInv
  <2>3. ASSUME NEW p \in Proc, Complete(p) \/ ResetDone(p)
        PROVE  got'[q] = << >>
    <3>1. Ends(p) /\ Using(p) /\ UNCHANGED <<got, job>>
      BY <2>3, EndsFacts DEF Complete, ResetDone
    <3> QED BY <1>1, <1>2, <3>1 DEF TransferInv
  <2>4. ASSUME NEW p \in Proc, MutexLock(p) \/ Started(p) \/ Reset(p) \/ ProbeBegin(p) \/ Kill(p)
        PROVE  got'[q] = << >>
    <3>1. /\ UNCHANGED got
          /\ at[p] \in Early \/ \E l \in {"reset", "dead"} : at' = [at EXCEPT ![p] = l]
          /\ \E l \in At : at' = [at EXCEPT ![p] = l]
      BY <2>4 DEF MutexLock, Started, Reset, ProbeBegin, Kill, At, Polling
    <3>2. at[q] \in Early
      BY <1>0, <1>2, <3>1
    <3> QED BY <3>1, <3>2 DEF TransferInv
  <2>5. CASE DriveAnswers \/ DriveFails \/ UNCHANGED vars
    BY <1>2, <2>5 DEF DriveAnswers, DriveFails, vars, TransferInv
  <2> QED BY <2>1, <2>2, <2>3, <2>4, <2>5 DEF Next
<1>3. ASSUME ~mixed', NEW p \in Proc, Alone(p)'
      PROVE  /\ \A q \in Proc \ {p} : ~Using(q)'
             /\ job'[p].kind \in {"read", "write"} /\ at'[p] \in {"block", "final"} => InStep(p)'
  <2> DEFINE Goal == /\ \A q \in Proc \ {p} : ~Using(q)'
                     /\ job'[p].kind \in {"read", "write"} /\ at'[p] \in {"block", "final"}
                          => InStep(p)'
  <2>1. ASSUME Alone(p), ~mixed
        PROVE  /\ \A q \in Proc \ {p} : ~Using(q)
               /\ job[p].kind \in {"read", "write"} /\ at[p] \in {"block", "final"} => InStep(p)
    BY <2>1 DEF TransferInv
  <2>2. ASSUME NEW q \in Proc \ {p}, NEW l \in At, at' = [at EXCEPT ![q] = l],
               l \notin Polling \cup {"reset"}, ~mixed, job'[p] = job[p], UNCHANGED <<got, drive, disk>>
        PROVE  Goal
    <3>1. at'[p] = at[p] /\ ~Using(q)' /\ \A r \in Proc \ {p, q} : at'[r] = at[r]
      BY <1>0, <2>2 DEF Using
    <3>2. Alone(p) /\ \A r \in Proc \ {p} : ~Using(r)
      BY <1>3, <2>1, <2>2, <3>1 DEF Alone, Holds, Using
    <3>3. \A r \in Proc \ {p} : ~Using(r)'
      BY <3>1, <3>2 DEF Using
    <3> QED BY <2>1, <2>2, <3>1, <3>2, <3>3 DEF InStep
  <2>3. ASSUME DriveAnswers \/ DriveFails
        PROVE  Goal
    <3>1. UNCHANGED <<at, job, mixed>>
      BY <2>3 DEF DriveAnswers, DriveFails
    <3>2. Alone(p) /\ ~mixed
      BY <1>3, <3>1 DEF Alone, Holds, Using
    <3>3. \A q \in Proc \ {p} : ~Using(q)'
      BY <2>1, <3>1, <3>2 DEF Using
    <3> QED BY <2>1, <2>3, <3>1, <3>2, <3>3, InStepAnswered
  <2>4. ASSUME NEW q \in Proc, NEW k \in Kinds, NEW n \in 0..MaxBlocks, Begin(q, k, n)
        PROVE  Goal
    <3>1. /\ at[q] = "user" /\ job' = [job EXCEPT ![q] = [kind |-> k, n |-> n]]
          /\ got' = [got EXCEPT ![q] = << >>] /\ disk' = disk
          /\ \/ at' = [at EXCEPT ![q] = "probe"]
             \/ at' = [at EXCEPT ![q] = "lock"] /\ UNCHANGED <<drive, mixed>>
      BY <2>4 DEF Begin
    <3>2. q # p
      BY <1>0, <1>3, <3>1 DEF Alone
    <3>3. CASE at' = [at EXCEPT ![q] = "probe"]
      <4>1. k = "identify"
        BY <1>0, <2>4, <3>3 DEF Begin
      <4>2. Using(p)
        BY <1>0, <1>3, <3>2, <3>3 DEF Alone, Holds, Using
      <4>3. mixed' = TRUE
        BY <2>4, <4>1, <4>2 DEF Begin
      <4> QED BY <1>3, <4>3
    <3>4. CASE at' = [at EXCEPT ![q] = "lock"] /\ UNCHANGED <<drive, mixed>>
      <4>1. job'[p] = job[p] /\ got'[p] = got[p]
        BY <1>0, <3>1, <3>2
      <4>2. at'[p] = at[p] /\ ~Using(q)' /\ \A r \in Proc \ {p, q} : at'[r] = at[r]
        BY <1>0, <3>2, <3>4 DEF Using, Polling
      <4>3. Alone(p) /\ ~mixed
        BY <1>3, <3>4, <4>1, <4>2 DEF Alone, Holds, Using
      <4>4. \A r \in Proc \ {p} : ~Using(r)'
        BY <2>1, <4>2, <4>3 DEF Using
      <4> QED BY <2>1, <3>1, <3>4, <4>1, <4>2, <4>3, <4>4 DEF InStep
    <3> QED BY <3>1, <3>3, <3>4
  <2>5. ASSUME NEW q \in Proc, MutexLock(q)
        PROVE  Goal
    <3>1. /\ UNCHANGED <<job, got, drive, disk, mixed>>
          /\ \/ ~locked /\ at' = [at EXCEPT ![q] = "calm"]
             \/ at' = [at EXCEPT ![q] = "queued"]
      BY <2>5 DEF MutexLock
    <3>2. q # p
      BY <1>0, <1>3, <3>1 DEF Alone
    <3>3. Holds(p)
      BY <1>0, <1>3, <3>1, <3>2 DEF Alone, Holds, Using
    <3>4. at' = [at EXCEPT ![q] = "queued"]
      BY <3>1, <3>3 DEF Exclusive
    <3> QED BY <1>3, <2>2, <3>1, <3>2, <3>4 DEF At, Polling
  <2>6. ASSUME NEW q \in Proc, Started(q)
        PROVE  Goal
    <3>1. /\ at[q] \in {"calm", "ready", "packet"} /\ UNCHANGED <<job, got>>
          /\ at' = [at EXCEPT ![q] =
                IF @ = "calm" THEN "ready"
                ELSE IF @ = "ready" /\ job[q].kind = "packet" THEN "packet"
                ELSE IF job[q].n > 0 THEN "block" ELSE "final"]
          /\ \A r \in Proc \ {q} : ~Using(r)
      <4>1. \A r \in Proc \ {q} : ~Using(r)
        BY <1>3, <2>6, Zenon DEF Started
      <4> QED BY <2>6, <4>1 DEF Started
    <3>2. q = p
      <4>1. ASSUME q # p PROVE FALSE
        <5>1. Using(p)
          BY <1>0, <1>3, <3>1, <4>1 DEF Alone, Holds, Using
        <5> QED BY <3>1, <4>1, <5>1
      <4> QED BY <4>1
    <3>3. \A r \in Proc \ {p} : ~Using(r)'
      BY <1>0, <3>1, <3>2 DEF Using
    <3>4. ASSUME job'[p].kind \in {"read", "write"}, at'[p] \in {"block", "final"}
          PROVE  InStep(p)'
      <4>1. at[p] = "ready"
        BY <1>0, <3>1, <3>2, <3>4 DEF MutexInv
      <4> QED BY <2>6, <3>1, <3>2, <3>4, <4>1, InStepStarted
    <3> QED BY <3>3, <3>4
  <2>7. ASSUME NEW q \in Proc, Transfer(q)
        PROVE  Goal
    <3>1. at[q] = "block" /\ Using(q) /\ UNCHANGED <<job, mixed>>
      BY <2>7 DEF Transfer, Using, Polling
    <3>2. q = p
      <4>1. ASSUME q # p PROVE FALSE
        <5>1. Alone(p)
          <6>1. CASE Ends(q)
            BY <1>1, <1>3, <3>1, <4>1, <6>1
          <6>2. CASE at' = at \/ at' = [at EXCEPT ![q] = "final"]
            BY <1>0, <1>3, <3>1, <4>1, <6>2 DEF Alone, Holds, Using
          <6> QED BY <2>7, <6>1, <6>2, EndsFacts
        <5> QED BY <1>3, <2>1, <3>1, <4>1, <5>1
      <4> QED BY <4>1
    <3>3. ~Ends(q)
      BY <1>1, <1>3, <3>1, <3>2 DEF Alone, Holds
    <3>4. at' = at \/ at' = [at EXCEPT ![p] = "final"]
      BY <2>7, <3>2, <3>3, EndsFacts
    <3>5. Alone(p) /\ ~mixed
      BY <1>3, <3>1, <3>2 DEF Alone, Holds, Using
    <3>6. \A r \in Proc \ {p} : ~Using(r)'
      BY <1>0, <2>1, <3>4, <3>5 DEF Using
    <3> QED BY <2>1, <2>7, <3>1, <3>2, <3>5, <3>6, InStepMoved
  <2>8. ASSUME NEW q \in Proc, Complete(q) \/ ResetDone(q)
        PROVE  Goal
    <3>1. Ends(q) /\ Using(q) /\ UNCHANGED <<job, got, drive, disk, mixed>>
      BY <2>8, EndsFacts DEF Complete, ResetDone
    <3>2. q # p
      BY <1>1, <1>3, <3>1 DEF Alone, Holds
    <3>3. Alone(p)
      BY <1>1, <1>3, <3>1, <3>2
    <3> QED BY <1>3, <2>1, <3>1, <3>2, <3>3
  <2>9. ASSUME NEW q \in Proc, Reset(q)
        PROVE  Goal
    <3>1. /\ Using(q) /\ at' = [at EXCEPT ![q] = "reset"] /\ UNCHANGED <<job, mixed>>
      BY <2>9 DEF Reset, Using
    <3>2. q # p
      BY <1>0, <1>3, <3>1 DEF Alone
    <3>3. Alone(p)
      BY <1>0, <1>3, <3>1, <3>2 DEF Alone, Holds, Using
    <3> QED BY <1>3, <2>1, <3>1, <3>2, <3>3
  <2>10. ASSUME NEW q \in Proc, ProbeBegin(q)
         PROVE  Goal
    <3>1. at' = [at EXCEPT ![q] = "calm"] /\ UNCHANGED job
      BY <2>10 DEF ProbeBegin
    <3>2. q # p
      BY <1>0, <1>3, <3>1 DEF Alone
    <3>3. Using(p)
      BY <1>0, <1>3, <3>1, <3>2 DEF Alone, Holds, Using
    <3>4. mixed'
      BY <2>10, <3>2, <3>3, Zenon DEF ProbeBegin
    <3> QED BY <1>3, <3>4
  <2>11. ASSUME NEW q \in Proc, Kill(q)
         PROVE  Goal
    <3>1. at' = [at EXCEPT ![q] = "dead"] /\ UNCHANGED <<job, got, drive, disk, mixed>>
      BY <2>11 DEF Kill
    <3>2. q # p
      BY <1>0, <1>3, <3>1 DEF Alone
    <3> QED BY <1>3, <2>2, <3>1, <3>2 DEF At, Polling
  <2>12. ASSUME UNCHANGED vars
         PROVE  Goal
    <3>1. UNCHANGED <<at, job, got, drive, disk, mixed>>
      BY <2>12 DEF vars
    <3>2. Alone(p) /\ ~mixed
      BY <1>3, <3>1 DEF Alone, Holds, Using
    <3>3. \A q \in Proc \ {p} : ~Using(q)'
      BY <2>1, <3>1, <3>2 DEF Using
    <3> QED BY <2>1, <3>1, <3>2, <3>3 DEF InStep
  <2> HIDE DEF Goal
  <2>13. Goal
    BY <2>3, <2>4, <2>5, <2>6, <2>7, <2>8, <2>9, <2>10, <2>11, <2>12 DEF Next
  <2> QED BY <2>13 DEF Goal
<1> QED BY <1>2, <1>3 DEF TransferInv

-----------------------------------------------------------------------------
(* Theorems *)

\* The invariant is inductive.
LEMMA AtaStep ==
  ASSUME AtaAssumption, AInv, [Next]_vars
  PROVE  AInv'
BY DriveStep, MutexStep, TransferStep, TypeStep DEF AInv

\* The invariant holds when nothing was asked of the drive yet.
LEMMA AtaStart ==
  ASSUME AtaAssumption, Init
  PROVE  AInv
<1>1. TypeOK
  <2>1. \A M, B \in Nat : 0 \in 0..(M + B)
    OBVIOUS
  <2>2. 0 \in 0..(MaxCount + MaxBlocks) /\ 0 \in Sector /\ 0 \in 0..MaxBlocks /\ 0 \in 0..MaxJobs
    BY <2>1, AtaFacts
  <2>3. got \in [Proc -> Seq(Proc \cup {0, Identity})] /\ waitqueue \in Seq(Proc)
    BY DEF Init
  <2>4. /\ at \in [Proc -> At] /\ result \in [Proc -> 0..MaxBlocks]
        /\ job \in [Proc -> [kind : Kinds \cup {"none"}, n : 0..MaxBlocks]]
        /\ disk \in [Sector -> Proc \cup {0}] /\ jobs \in 0..MaxJobs
    BY <2>2 DEF Init, At
  <2>5. /\ drive.st \in {"idle", "busy", "drq", "error"} /\ drive.next \in Sector
        /\ drive.left \in 0..(MaxCount + MaxBlocks) /\ drive.data \in Proc \cup {0}
    BY <2>2 DEF Init, Quiet
  <2>6. locked \in BOOLEAN /\ mixed \in BOOLEAN /\ lost \in BOOLEAN
    BY DEF Init
  <2> QED BY <2>3, <2>4, <2>5, <2>6 DEF TypeOK
<1>2. DriveInv
  BY AtaFacts DEF Init, DriveInv, DriveType, Quiet, Sector
<1>3. \A p \in Proc : at[p] = "user" /\ ~Using(p) /\ got[p] = << >>
  BY DEF Init, Using, Polling
<1>4. waitqueue = << >> /\ ~locked /\ Range(waitqueue) = {} /\ IsInjective(waitqueue)
  BY DEF Init, Range, IsInjective
<1>5. MutexInv /\ Exclusive /\ NoneStranded
  BY <1>3, <1>4 DEF MutexInv, Exclusive, NoneStranded, Holds
<1>6. TransferInv
  BY <1>3 DEF TransferInv, Alone, Holds
<1> QED BY <1>1, <1>2, <1>5, <1>6 DEF AInv

\* An operation returns from its last ata_wait, and a read or write from nowhere else but a
\* reset, which returns 0.
LEMMA TransferRightStep ==
  ASSUME AtaAssumption, AInv, [Next]_vars
  PROVE  TransferRight
<1> USE DEF AInv
<1> SUFFICES ASSUME NEW p \in Proc, Returns(p), ~mixed, job[p].kind \in {"read", "write"}
             PROVE  /\ job[p].n <= MaxCount
                    /\ Len(got'[p]) = job[p].n
                    /\ \A i \in 1..job[p].n :
                         got'[p][i] = disk[i - 1] \/ (job[p].kind = "write" /\ i = job[p].n)
  BY DEF TransferRight
<1>0. at \in [Proc -> At] /\ at'[p] = "user" /\ at[p] # "user" /\ Using(p)
  BY DEF TypeOK, Returns, Using, Polling
<1>1. Complete(p)
  <2>1. ASSUME NEW q \in Proc, Complete(q) \/ ResetDone(q) \/ (Transfer(q) /\ Ends(q))
        PROVE  Complete(p)
    <3>1. Ends(q) /\ Using(q)
      BY <2>1, EndsFacts
    <3>2. q = p
      BY <1>0, <3>1, EndsAt
    <3>3. ~ResetDone(p)
      <4>1. ASSUME ResetDone(p) PROVE FALSE
        <5>1. result'[p] = 0
          BY <4>1 DEF ResetDone, Finish, TypeOK
        <5> QED BY <5>1 DEF Returns
      <4> QED BY <4>1
    <3>4. ~Transfer(p) \/ ~Ends(p)
      <4>1. ASSUME Transfer(p), Ends(p) PROVE FALSE
        <5>1. at' = at \/ at' = [at EXCEPT ![p] = "final"]
          BY <4>1, EndsFacts
        <5> QED BY <1>0, <5>1
      <4> QED BY <4>1
    <3> QED BY <2>1, <3>2, <3>3, <3>4
  <2>2. ASSUME NEW q \in Proc, NEW k \in Kinds, NEW n \in 0..MaxBlocks, Begin(q, k, n)
        PROVE  FALSE
    <3>1. \E l \in {"probe", "lock"} : at' = [at EXCEPT ![q] = l]
      BY <2>2 DEF Begin
    <3> QED BY <1>0, <3>1
  <2>3. ASSUME NEW q \in Proc,
               MutexLock(q) \/ Started(q) \/ Reset(q) \/ ProbeBegin(q) \/ Kill(q)
        PROVE  FALSE
    <3>1. \E l \in At \ {"user"} : at' = [at EXCEPT ![q] = l]
      BY <2>3 DEF MutexLock, Started, Reset, ProbeBegin, Kill, At, Polling
    <3> QED BY <1>0, <3>1
  <2>4. ASSUME NEW q \in Proc, Transfer(q), ~Ends(q)
        PROVE  FALSE
    <3>1. at' = at \/ at' = [at EXCEPT ![q] = "final"]
      BY <2>4, EndsFacts
    <3> QED BY <1>0, <3>1
  <2>5. ASSUME DriveAnswers \/ DriveFails \/ UNCHANGED vars
        PROVE  FALSE
    BY <1>0, <2>5 DEF DriveAnswers, DriveFails, vars
  <2> QED BY <2>1, <2>2, <2>3, <2>4, <2>5 DEF Next
<1>2. /\ at[p] = "final" /\ drive.st # "busy" /\ UNCHANGED got
      /\ Alone(p)
  BY <1>0, <1>1 DEF Complete, Satisfied, Alone, Holds
<1>3. InStep(p)
  BY <1>2 DEF TransferInv
<1>4. /\ Len(got[p]) \in Nat /\ job[p].n \in Nat /\ drive.left \in Nat /\ MaxCount \in Nat
      /\ Count(job[p].n) \in 1..MaxCount
  BY InStepTypes, AtaFacts
<1>5. /\ Len(got[p]) = job[p].n /\ drive.next = job[p].n
      /\ drive.next + drive.left = Count(job[p].n)
  BY <1>2, <1>3, <1>4 DEF InStep
<1>6. job[p].n <= MaxCount
  <2>1. \A a, b, c, m \in Nat : a + b = c /\ c <= m => a <= m
    OBVIOUS
  <2>2. Count(job[p].n) \in Nat /\ Count(job[p].n) <= MaxCount
    BY <1>4
  <2> QED BY <1>4, <1>5, <2>1, <2>2
<1>7. \A i \in 1..job[p].n :
        got'[p][i] = disk[i - 1] \/ (job[p].kind = "write" /\ i = job[p].n)
  BY <1>2, <1>3, <1>5 DEF InStep
<1> QED BY <1>2, <1>5, <1>6, <1>7

\* The invariant of the driver: the mutex has one holder and loses no waiter, the drive and the
\* process that uses it agree on how far they are.
THEOREM AtaInv ==
  ASSUME AtaAssumption
  PROVE  Spec => []AInv
<1>1. Init => AInv
  BY AtaStart
<1>2. AInv /\ [Next]_vars => AInv'
  BY AtaStep
<1> QED BY <1>1, <1>2, PTL DEF Spec

\* mutex_lock excludes, however its waiters are woken, overtaken and killed.
THEOREM ExclusiveHolds ==
  ASSUME AtaAssumption
  PROVE  Spec => []Exclusive
<1>1. AInv => Exclusive
  BY DEF AInv
<1> QED BY <1>1, AtaInv, PTL

\* Nobody waits in mutex_lock for a mutex that no one will unlock.
THEOREM NoneStrandedHolds ==
  ASSUME AtaAssumption
  PROVE  Spec => []NoneStranded
<1>1. AInv => NoneStranded
  BY DEF AInv
<1> QED BY <1>1, AtaInv, PTL

\* ata_read and ata_write return nblocks only when that many sectors, the right ones, have moved.
THEOREM TransferRightHolds ==
  ASSUME AtaAssumption
  PROVE  Spec => [][TransferRight]_vars
<1>1. AInv /\ [Next]_vars => [TransferRight]_vars
  BY TransferRightStep
<1> QED BY <1>1, AtaInv, PTL DEF Spec
=============================================================================
