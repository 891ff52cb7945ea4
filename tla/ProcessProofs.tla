--------------------------- MODULE ProcessProofs ---------------------------
(***************************************************************************)
(* Theorems about Process, for any number of pids, processes, clock ticks  *)
(* and kernel stack frames, with program images on disk or in memory.      *)
(***************************************************************************)
EXTENDS Process, BasicLemmas

-----------------------------------------------------------------------------
(* Pids *)

\* process_allocate_pid finds a pid that is not in use, whatever it has given out
\* before: memory runs out before the pids other than "last" do.
LEMMA AllocPidFree ==
  ASSUME table \in SUBSET Pid, last \in Pid, Cardinality(table) < MaxProcs
  PROVE  AllocPid \in Pid \ table
<1>0. MaxPid \in Nat /\ MaxProcs \in Nat /\ MaxProcs <= MaxPid - 2 /\ MaxPid >= 2
  BY ConstAssumption
<1>1. IsFiniteSet(Pid) /\ Cardinality(Pid) = MaxPid - 1
  BY <1>0, FS_Interval DEF Pid
<1>2. IsFiniteSet(table) /\ Cardinality(table) \in Nat
  BY <1>1, FS_Subset, FS_CardinalityType
<1>3. /\ IsFiniteSet(table \cup {last})
      /\ Cardinality(table \cup {last}) <= Cardinality(table) + 1
  <2>1. /\ IsFiniteSet(table \cup {last})
        /\ Cardinality(table \cup {last}) =
             IF last \in table THEN Cardinality(table) ELSE Cardinality(table) + 1
    BY <1>2, FS_AddElement
  <2> QED BY <2>1, <1>2
<1>4. Cardinality(table \cup {last}) \in Nat
  BY <1>3, FS_CardinalityType
<1>5. Pid # table \cup {last}
  BY <1>0, <1>1, <1>2, <1>3, <1>4
<1>6. PICK i \in Pid : i \notin table /\ i # last
  BY <1>5
<1>7. i \in Above \/ i \in Below
  BY <1>6, <1>0 DEF Above, Below, Pid
<1>8. Above \subseteq Pid \ table /\ Below \subseteq Pid \ table
  BY <1>0 DEF Above, Below, Pid
<1>9. Above \in SUBSET Nat /\ Below \in SUBSET Nat
  BY <1>8 DEF Pid
<1>10. CASE Above # {}
  BY <1>8, <1>9, <1>10, MinIn DEF AllocPid
<1>11. CASE Above = {}
  <2>1. Below # {}
    BY <1>7, <1>11
  <2> QED BY <2>1, <1>8, <1>9, <1>11, MinIn DEF AllocPid
<1> QED BY <1>10, <1>11

-----------------------------------------------------------------------------
(* Lists *)

Lists == ListsOver(QueueName, Pid)

\* M and c are what process_switch makes of the lists L: the list family without
\* the process it chose, and that process.
SwitchFacts(L, M, c) ==
  /\ M \in Lists /\ NoDup(M) /\ c \in {Idle} \cup Pid
  /\ c \notin Linked(M)
  /\ Linked(L) = Linked(M) \cup ({c} \ {Idle})
  /\ \A q \in QueueName \ {"ready"} : Range(M[q]) = Range(L[q])

\* Idle is not a pid, so no list holds it.
LEMMA IdleNotLinked ==
  ASSUME NEW L \in Lists
  PROVE  Idle \notin Pid /\ Linked(L) \subseteq Pid
<1>1. Idle \notin Pid
  BY DEF Idle, Pid
<1>2. ASSUME NEW n \in Linked(L) PROVE n \in Pid
  <2>1. PICK q \in QueueName : n \in Range(L[q])
    BY DEF Linked, Lists, ListsOver
  <2>2. L[q] \in Seq(Pid)
    BY DEF Lists, ListsOver
  <2>3. \A i \in DOMAIN L[q] : L[q][i] \in Pid
    BY <2>2
  <2> QED BY <2>1, <2>3 DEF Range
<1> QED BY <1>1, <1>2

\* process_switch takes the first ready process, and the lists keep their members.
LEMMA SwitchLists ==
  ASSUME NEW L \in Lists, NoDup(L)
  PROVE  SwitchFacts(L, Rest(L), Chosen(L))
<1>0. "ready" \in QueueName
  BY DEF QueueName
<1>1. CASE L["ready"] = << >>
  <2>1. Rest(L) = L /\ Chosen(L) = Idle
    BY <1>1 DEF Rest, Chosen
  <2>2. Idle \notin Linked(L)
    BY IdleNotLinked
  <2> QED BY <2>1, <2>2 DEF SwitchFacts
<1>2. CASE L["ready"] # << >>
  <2> DEFINE h == Head(L["ready"])
             M == PopHead(L, "ready")
  <2>1. Rest(L) = M /\ Chosen(L) = h
    BY <1>2 DEF Rest, Chosen
  <2>2. PopFacts(QueueName, Pid, L, "ready", M)
    BY <1>0, <1>2, PopLists, Zenon DEF Lists
  <2>3. /\ M \in Lists /\ NoDup(M) /\ h \in Pid /\ h \in Range(L["ready"])
        /\ \A r \in QueueName : Range(M[r]) =
             IF r = "ready" THEN Range(L[r]) \ {h} ELSE Range(L[r])
        /\ Linked(M) = Linked(L) \ {h}
    BY <2>2 DEF PopFacts, Lists
  <2> HIDE DEF h, M
  <2>4. h \in Linked(L)
    BY <1>0, <2>3 DEF Linked, Lists, ListsOver
  <2>5. h # Idle
    BY <2>3, IdleNotLinked
  <2> QED BY <2>1, <2>3, <2>4, <2>5 DEF SwitchFacts
<1> QED BY <1>1, <1>2

\* The processes that are somewhere: in a list of L, or running as c.
Held(L, c) == Linked(L) \cup ({c} \ {Idle})

\* The lists L and the running process c are sound, for the process table T.
Placed(L, c, T) ==
  /\ L \in Lists /\ NoDup(L) /\ c \in {Idle} \cup Pid
  /\ c \notin Linked(L) /\ Held(L, c) \subseteq T

\* What becomes of the lists L when c goes to the end of q and process_switch
\* chooses the next process.
AwayFacts(L, q, c, M, d) ==
  /\ Placed(M, d, Linked(L) \cup {c})
  /\ Held(M, d) = Linked(L) \cup {c}
  /\ \A r \in QueueName \ {"ready"} :
       Range(M[r]) = IF r = q THEN Range(L[r]) \cup {c} ELSE Range(L[r])

\* A process that is nowhere goes to the end of q, and process_switch follows.
LEMMA SwitchAway ==
  ASSUME NEW L \in Lists, NoDup(L), NEW q \in QueueName,
         NEW c \in Pid, c \notin Linked(L)
  PROVE  AwayFacts(L, q, c, Rest(PushTail(L, q, c)), Chosen(PushTail(L, q, c)))
<1> DEFINE M == PushTail(L, q, c)
<1>1. PushFacts(QueueName, Pid, L, q, c, M)
  BY PushLists, Zenon DEF Lists
<1>2. /\ M \in Lists /\ NoDup(M) /\ Linked(M) = Linked(L) \cup {c}
      /\ \A r \in QueueName : Range(M[r]) =
                  IF r = q THEN Range(L[r]) \cup {c} ELSE Range(L[r])
  BY <1>1 DEF PushFacts, Lists
<1> HIDE DEF M
<1>3. SwitchFacts(M, Rest(M), Chosen(M))
  BY <1>2, SwitchLists
<1>4. /\ Rest(M) \in Lists /\ NoDup(Rest(M)) /\ Chosen(M) \in {Idle} \cup Pid
      /\ Chosen(M) \notin Linked(Rest(M))
      /\ Held(Rest(M), Chosen(M)) = Linked(L) \cup {c}
  BY <1>2, <1>3 DEF SwitchFacts, Held
<1>5. \A r \in QueueName \ {"ready"} : Range(Rest(M)[r]) = Range(M[r])
  BY <1>3 DEF SwitchFacts
<1>6. Placed(Rest(M), Chosen(M), Linked(L) \cup {c})
  BY <1>4 DEF Placed
<1>7. AwayFacts(L, q, c, Rest(M), Chosen(M))
  BY <1>2, <1>4, <1>5, <1>6 DEF AwayFacts
<1> QED BY <1>7 DEF M

-----------------------------------------------------------------------------
(* The inductive invariant *)

\* Every launched process of the table is somewhere, nothing else is, and nothing
\* is twice: OnePlace and NoneLost together.
PlaceInv ==
  /\ Placed(queue, current, table)
  /\ \A p \in table : frame[p].at # "embryo" => p \in Held(queue, current)

\* The child a loader is filling is a process nobody has launched, its own.
LoadInv ==
  \A p \in Pid : frame[p].at = "load" /\ frame[p].arg # 0 =>
     /\ frame[p].arg \in table
     /\ frame[frame[p].arg].at = "embryo"
     /\ ppid[frame[p].arg] = p

\* process_make_dead runs inside a system call of a program, on processes of
\* the table.
KillInv ==
  killstack # << >> =>
    /\ current # Idle /\ frame[current].at = "user"
    /\ \A i \in DOMAIN killstack : killstack[i].dead \in table

Inv == TypeOK /\ PlaceInv /\ LoadInv /\ KillInv

\* The invariant implies the properties that the runs check.
LEMMA InvImplies ==
  ASSUME Inv
  PROVE  TypeOK /\ OnePlace /\ NoneLost
<1>1. Linked(queue) \subseteq table
  BY DEF Inv, PlaceInv, Placed, Held
<1>2. ASSUME NEW q \in QueueName PROVE Range(queue[q]) \subseteq Linked(queue)
  BY DEF Inv, TypeOK, ListsOver, Linked
<1>3. OnePlace
  BY <1>1, <1>2 DEF Inv, PlaceInv, Placed, Held, OnePlace
<1> QED BY <1>3 DEF Inv, PlaceInv, NoneLost, Held

\* The invariant holds when the first process runs.
LEMMA InvInit ==
  ASSUME Init
  PROVE  Inv
<1>0. 1 \in Pid /\ MaxPid \in Nat /\ MaxTicks \in Nat /\ MaxPid >= 2 /\ Pid \subseteq Nat
      /\ MaxPid - 1 \in Nat
  BY ConstAssumption DEF Pid
<1>1. UserFrame \in Frame
  BY <1>0 DEF UserFrame, Frame, Forever
<1>2. << >> \in Seq(Pid) /\ << >> \in Seq(KillFrame)
  OBVIOUS
<1>3. queue \in ListsOver(QueueName, Pid)
  BY <1>2 DEF Init, ListsOver
<1>4. TypeOK
  <2>1. /\ table \in SUBSET Pid /\ last \in Pid /\ current \in {Idle} \cup Pid
        /\ killstack \in Seq(KillFrame) /\ fault \in Fault
    BY <1>0, <1>2 DEF Init, Fault
  <2>2. wrapped \in BOOLEAN /\ kshell \in BOOLEAN
    BY DEF Init
  <2>3. 0 \in 0..(MaxPid - 1)
    BY <1>0
  <2>4. /\ state \in [Pid -> State] /\ exitreason \in [Pid -> Reason]
        /\ frame \in [Pid -> Frame]
    BY <1>1 DEF Init, State, Reason
  <2>5. ppid \in [Pid -> 0..(MaxPid - 1)] /\ waitfor \in [Pid -> 0..(MaxPid - 1)]
    BY <2>3 DEF Init
  <2> QED BY <2>1, <2>2, <2>4, <2>5, <1>3 DEF TypeOK
<1>5. DOMAIN queue = QueueName /\ \A q \in QueueName : Range(queue[q]) = {}
  BY DEF Init, Range
<1>6. Linked(queue) = {}
  BY <1>5 DEF Linked
<1>7. \A q \in QueueName : IsInjective(queue[q])
  BY DEF Init, IsInjective
<1>8. NoDup(queue)
  BY <1>5, <1>7 DEF NoDup
<1>9. PlaceInv
  <2>1. current = 1 /\ table = {1} /\ 1 # Idle
    BY DEF Init, Idle
  <2>2. Held(queue, current) = {1}
    BY <2>1, <1>6 DEF Held
  <2> QED BY <2>1, <2>2, <1>0, <1>3, <1>6, <1>8 DEF PlaceInv, Placed, Lists
<1>10. LoadInv
  BY DEF Init, LoadInv, UserFrame
<1>11. KillInv
  BY DEF Init, KillInv
<1> QED BY <1>4, <1>9, <1>10, <1>11 DEF Inv

-----------------------------------------------------------------------------
(* Steps that move processes and create or free none *)

\* Every process that was somewhere still is.
Moved == /\ Placed(queue', current', table)
         /\ Held(queue, current) \subseteq Held(queue', current')

\* No process becomes or ceases to be an embryo, and no loader starts.
FrameKeeps ==
  \A p \in Pid :
     /\ frame'[p].at = "embryo" <=> frame[p].at = "embryo"
     /\ frame'[p].at = "load" =>
          frame[p].at = "load" /\ frame'[p].arg = frame[p].arg

\* A step that creates and removes no process keeps what the invariant says of the table.
LEMMA QuietStep ==
  ASSUME Inv, TypeOK', table' = table, ppid' = ppid, FrameKeeps, Moved, KillInv'
  PROVE  Inv'
<1>1. PlaceInv'
  <2>1. table \subseteq Pid
    BY DEF Inv, TypeOK
  <2> QED BY <2>1 DEF Inv, PlaceInv, Moved, FrameKeeps
<1>2. LoadInv'
  <2> SUFFICES ASSUME NEW p \in Pid, frame'[p].at = "load", frame'[p].arg # 0
               PROVE  /\ frame'[p].arg \in table
                      /\ frame'[frame'[p].arg].at = "embryo"
                      /\ ppid[frame'[p].arg] = p
    BY DEF LoadInv
  <2>1. frame[p].at = "load" /\ frame'[p].arg = frame[p].arg
    BY DEF FrameKeeps
  <2>2. /\ frame[p].arg \in table /\ frame[frame[p].arg].at = "embryo"
        /\ ppid[frame[p].arg] = p
    BY <2>1 DEF Inv, LoadInv
  <2>3. frame[p].arg \in Pid
    BY <2>2 DEF Inv, TypeOK
  <2> QED BY <2>1, <2>2, <2>3 DEF FrameKeeps
<1> QED BY <1>1, <1>2 DEF Inv

\* The current process goes to the end of a list and another is chosen.
LEMMA Away ==
  ASSUME Inv, current # Idle,
         \E q \in QueueName : /\ queue' = Rest(PushTail(queue, q, current))
                              /\ current' = Chosen(PushTail(queue, q, current))
  PROVE  Moved
<1>1. PICK q \in QueueName : /\ queue' = Rest(PushTail(queue, q, current))
                             /\ current' = Chosen(PushTail(queue, q, current))
  OBVIOUS
<1>2. /\ queue \in Lists /\ NoDup(queue) /\ current \in Pid
      /\ current \notin Linked(queue) /\ Held(queue, current) \subseteq table
      /\ Held(queue, current) = Linked(queue) \cup {current}
  BY DEF Inv, PlaceInv, Placed, Held
<1>3. AwayFacts(queue, q, current, queue', current')
  BY <1>1, <1>2, SwitchAway
<1> QED BY <1>2, <1>3 DEF AwayFacts, Moved, Placed

\* A frame record with its fields.
LEMMA FrameFacts ==
  /\ UserFrame \in Frame /\ UserFrame.at = "user"
  /\ EmbryoFrame \in Frame /\ EmbryoFrame.at = "embryo"
<1>1. 0 \in 0..(MaxPid - 1) /\ 0 \in 0..Forever
  BY ConstAssumption DEF Forever
<1> QED BY <1>1 DEF UserFrame, EmbryoFrame, Frame

\* Giving up the processor, waiting for the loader, exec and waiting for a device.
LEMMA YieldStep ==
  ASSUME Inv, SysYield \/ LoadWait \/ SysExec \/ SysBlock
  PROVE  Inv'
<1>1. current # Idle /\ killstack = << >> /\ killstack' = << >>
  BY DEF SysYield, LoadWait, SysExec, SysBlock, AtUser, Loading, Inv, KillInv
<1>2. Moved
  <2>1. {"ready", "device"} \subseteq QueueName
    BY DEF QueueName
  <2>2. \E q \in QueueName : /\ queue' = Rest(PushTail(queue, q, current))
                             /\ current' = Chosen(PushTail(queue, q, current))
    BY <2>1 DEF SysYield, LoadWait, SysExec, SysBlock, SwitchReady, Block, Dispatch
  <2> QED BY <2>2, <1>1, Away
<1>3. state' \in [Pid -> State]
  BY DEF SysYield, LoadWait, SysExec, SysBlock, SwitchReady, Block, Dispatch,
         Inv, TypeOK, State
<1>4. kshell' \in BOOLEAN
  BY DEF SysYield, LoadWait, SysExec, SysBlock, Inv, TypeOK
<1>5. UNCHANGED <<table, last, wrapped, ppid, exitreason, waitfor, frame, killstack,
                  fault>>
  BY DEF SysYield, LoadWait, SysExec, SysBlock
<1>6. TypeOK'
  BY <1>2, <1>3, <1>4, <1>5 DEF Inv, TypeOK, Moved, Placed, Lists
<1>7. FrameKeeps
  BY <1>5 DEF FrameKeeps
<1>8. KillInv'
  BY <1>1 DEF KillInv
<1> QED BY <1>2, <1>5, <1>6, <1>7, <1>8, QuietStep

\* The idle loop takes the first process that became ready.
LEMMA IdleLoopStep ==
  ASSUME Inv, IdleLoop
  PROVE  Inv'
<1>1. queue \in Lists /\ NoDup(queue) /\ Held(queue, current) = Linked(queue)
      /\ Held(queue, current) \subseteq table
  BY DEF IdleLoop, Inv, PlaceInv, Placed, Held
<1>2. queue' = Rest(queue) /\ current' = Chosen(queue)
  BY DEF IdleLoop, Dispatch
<1>3. SwitchFacts(queue, queue', current')
  BY <1>1, <1>2, SwitchLists
<1>4. Moved
  BY <1>1, <1>3 DEF SwitchFacts, Moved, Placed, Held
<1>5. state' \in [Pid -> State]
  BY DEF IdleLoop, Dispatch, Inv, TypeOK, State
<1>6. UNCHANGED <<table, kshell, last, wrapped, ppid, exitreason, waitfor, frame,
                  killstack, fault>>
  BY DEF IdleLoop
<1>7. TypeOK'
  BY <1>4, <1>5, <1>6 DEF Inv, TypeOK, Moved, Placed, Lists
<1>8. FrameKeeps
  BY <1>6 DEF FrameKeeps
<1>9. KillInv'
  BY <1>6 DEF IdleLoop, Inv, KillInv
<1> QED BY <1>4, <1>6, <1>7, <1>8, <1>9, QuietStep

\* A step that only gives the current process, no embryo, another frame.
LEMMA FrameStep ==
  ASSUME Inv, current \in Pid, frame[current].at # "embryo", killstack = << >>,
         \E f \in Frame : /\ f.at \notin {"embryo", "load"}
                          /\ frame' = [frame EXCEPT ![current] = f]
  PROVE  FrameKeeps /\ frame' \in [Pid -> Frame]
<1>1. PICK f \in Frame : /\ f.at \notin {"embryo", "load"}
                         /\ frame' = [frame EXCEPT ![current] = f]
  OBVIOUS
<1>2. frame \in [Pid -> Frame]
  BY DEF Inv, TypeOK
<1> QED BY <1>1, <1>2 DEF FrameKeeps

\* The steps of a call that neither switch nor change the lists.
LEMMA InKernelStep ==
  ASSUME Inv, LoadFail \/ (\E t \in 0..Forever : SysWait(t)) \/ WaitCheck
  PROVE  Inv'
<1>1. /\ current # Idle /\ killstack = << >> /\ current \in Pid
      /\ frame[current].at # "embryo"
  BY DEF LoadFail, SysWait, WaitCheck, AtUser, Loading, Inv, KillInv, TypeOK
<1>2. UNCHANGED <<table, kshell, last, wrapped, current, queue, state, ppid,
                  exitreason, waitfor, killstack, fault>>
  BY DEF LoadFail, SysWait, WaitCheck
<1>3. \E f \in Frame : /\ f.at \notin {"embryo", "load"}
                       /\ frame' = [frame EXCEPT ![current] = f]
  <2>0. 0 \in 0..(MaxPid - 1)
    BY ConstAssumption
  <2>1. CASE LoadFail
    BY <2>1, FrameFacts DEF LoadFail
  <2>2. CASE \E t \in 0..Forever : SysWait(t)
    <3>1. PICK t \in 0..Forever : SysWait(t)
      BY <2>2
    <3>2. [at |-> "scan", arg |-> 0, ticks |-> t] \in Frame
      BY <2>0 DEF Frame
    <3> QED BY <3>1, <3>2 DEF SysWait
  <2>3. CASE WaitCheck
    <3>1. frame[current] \in Frame
      BY <1>1 DEF Inv, TypeOK
    <3>2. [frame[current] EXCEPT !.at = "scan"] \in Frame
      BY <3>1 DEF Frame
    <3>3. [frame[current] EXCEPT !.at = "scan"].at = "scan"
      BY <3>1 DEF Frame
    <3>4. CASE frame[current].ticks = 0
      BY <3>4, <2>3, FrameFacts DEF WaitCheck
    <3>5. CASE frame[current].ticks # 0
      BY <3>5, <2>3, <3>2, <3>3 DEF WaitCheck
    <3> QED BY <3>4, <3>5
  <2> QED BY <2>1, <2>2, <2>3
<1>4. FrameKeeps /\ frame' \in [Pid -> Frame]
  BY <1>1, <1>3, FrameStep
<1>5. TypeOK'
  BY <1>2, <1>4 DEF Inv, TypeOK
<1>6. Moved
  BY <1>2 DEF Moved, Inv, PlaceInv
<1>7. KillInv'
  BY <1>1, <1>2 DEF KillInv
<1> QED BY <1>2, <1>4, <1>5, <1>6, <1>7, QuietStep

\* sys_process_sleep and its loop.
LEMMA SleepStep ==
  ASSUME Inv, (\E t \in 0..MaxTicks : SysSleep(t)) \/ SleepCheck
  PROVE  Inv'
<1>1. /\ current # Idle /\ killstack = << >> /\ current \in Pid
      /\ frame[current].at # "embryo"
  BY DEF SysSleep, SleepCheck, AtProgram, AtUser, Inv, KillInv, TypeOK
<1>2. UNCHANGED <<table, kshell, last, wrapped, ppid, exitreason, waitfor, killstack,
                  fault>>
  BY DEF SysSleep, SleepCheck
<1>3. FrameKeeps /\ frame' \in [Pid -> Frame]
  <2>1. CASE \E t \in 0..MaxTicks : SysSleep(t)
    <3>1. PICK t \in 0..MaxTicks : SysSleep(t)
      BY <2>1
    <3>2. 0 \in 0..(MaxPid - 1) /\ t \in 0..Forever
      BY ConstAssumption DEF Forever
    <3>3. [at |-> "sleep", arg |-> 0, ticks |-> t] \in Frame
      BY <3>2 DEF Frame
    <3>4. \E f \in Frame : /\ f.at \notin {"embryo", "load"}
                           /\ frame' = [frame EXCEPT ![current] = f]
      BY <3>1, <3>3 DEF SysSleep
    <3> QED BY <1>1, <3>4, FrameStep
  <2>2. CASE SleepCheck /\ frame[current].ticks = 0
    <3>1. frame' = [frame EXCEPT ![current] = UserFrame]
      BY <2>2 DEF SleepCheck
    <3>2. \E f \in Frame : /\ f.at \notin {"embryo", "load"}
                           /\ frame' = [frame EXCEPT ![current] = f]
      BY <3>1, FrameFacts
    <3> QED BY <1>1, <3>2, FrameStep
  <2>3. CASE SleepCheck /\ frame[current].ticks # 0
    <3>1. frame' = frame
      BY <2>3 DEF SleepCheck
    <3> QED BY <3>1 DEF FrameKeeps, Inv, TypeOK
  <2> QED BY <2>1, <2>2, <2>3
<1>4. Moved /\ state' \in [Pid -> State]
  <2>1. CASE UNCHANGED <<current, queue, state>>
    BY <2>1 DEF Moved, Inv, PlaceInv, TypeOK
  <2>2. CASE Block("clock")
    <3>1. "clock" \in QueueName
      BY DEF QueueName
    <3>2. \E q \in QueueName : /\ queue' = Rest(PushTail(queue, q, current))
                               /\ current' = Chosen(PushTail(queue, q, current))
      BY <3>1, <2>2 DEF Block, Dispatch
    <3>3. Moved
      BY <1>1, <3>2, Away
    <3>4. state' \in [Pid -> State]
      BY <2>2 DEF Block, Dispatch, Inv, TypeOK, State
    <3> QED BY <3>3, <3>4
  <2> QED BY <2>1, <2>2 DEF SysSleep, SleepCheck
<1>5. TypeOK'
  BY <1>2, <1>3, <1>4 DEF Inv, TypeOK, Moved, Placed, Lists
<1>6. KillInv'
  BY <1>1, <1>2 DEF KillInv
<1> QED BY <1>2, <1>3, <1>4, <1>5, <1>6, QuietStep

\* The clock interrupt wakes all that wait for the clock.
LEMMA ClockStep ==
  ASSUME Inv, ClockInterrupt
  PROVE  Inv'
<1>1. /\ queue \in Lists /\ NoDup(queue) /\ current \in {Idle} \cup Pid
      /\ current \notin Linked(queue) /\ Held(queue, current) \subseteq table
  BY DEF Inv, PlaceInv, Placed
<1>2. UNCHANGED <<table, kshell, last, wrapped, current, ppid, exitreason, waitfor,
                  killstack, fault>>
  BY DEF ClockInterrupt
<1>3. JoinFacts(QueueName, Pid, queue, "ready", "clock", queue')
  <2>1. /\ "ready" \in QueueName /\ "clock" \in QueueName
        /\ queue' = [queue EXCEPT !["ready"] = @ \o queue["clock"],
                                  !["clock"] = << >>]
    BY DEF QueueName, ClockInterrupt
  <2> QED BY <1>1, <2>1, JoinLists DEF Lists
<1>4. Moved
  BY <1>1, <1>2, <1>3 DEF JoinFacts, Moved, Placed, Held, Lists
<1>5. state' \in [Pid -> State]
  BY DEF ClockInterrupt, Inv, TypeOK, State
<1>6. FrameKeeps /\ frame' \in [Pid -> Frame]
  <2>1. ASSUME NEW p \in Pid
        PROVE  /\ frame'[p] \in Frame
               /\ frame'[p].at = frame[p].at /\ frame'[p].arg = frame[p].arg
    <3>1. frame[p] \in Frame
      BY DEF Inv, TypeOK
    <3>2. CASE frame'[p] = frame[p]
      BY <3>1, <3>2
    <3>3. CASE /\ frame[p].ticks \in 1..MaxTicks
               /\ frame'[p] = [frame[p] EXCEPT !.ticks = @ - 1]
      <4>1. frame[p].ticks - 1 \in 0..Forever
        BY <3>3, ConstAssumption DEF Forever
      <4> QED BY <3>1, <3>3, <4>1 DEF Frame
    <3> QED BY <3>2, <3>3 DEF ClockInterrupt, Elapse
  <2>2. frame' = [p \in Pid |-> frame'[p]]
    BY DEF ClockInterrupt, Elapse
  <2> QED BY <2>1, <2>2 DEF FrameKeeps
<1>7. TypeOK'
  BY <1>2, <1>4, <1>5, <1>6 DEF Inv, TypeOK, Moved, Placed, Lists
<1>8. KillInv'
  BY <1>2 DEF ClockInterrupt, KillInv
<1> QED BY <1>2, <1>4, <1>6, <1>7, <1>8, QuietStep

\* The interrupt of a device wakes all that wait for it.
LEMMA DeviceStep ==
  ASSUME Inv, DeviceWakeup
  PROVE  Inv'
<1> DEFINE p == Head(queue["device"])
           M == PopHead(queue, "device")
<1>1. /\ queue \in Lists /\ NoDup(queue) /\ current \in {Idle} \cup Pid
      /\ current \notin Linked(queue) /\ Held(queue, current) \subseteq table
  BY DEF Inv, PlaceInv, Placed
<1>2. UNCHANGED <<table, kshell, last, wrapped, current, ppid, exitreason, waitfor,
                  frame, killstack, fault>>
  BY DEF DeviceWakeup
<1>3. "ready" \in QueueName /\ "device" \in QueueName
  BY DEF QueueName
<1>4. PopFacts(QueueName, Pid, queue, "device", M)
  BY <1>1, <1>3, PopLists, Zenon DEF Lists, DeviceWakeup
<1>5. /\ M \in Lists /\ NoDup(M) /\ p \in Pid /\ p \in Range(queue["device"])
      /\ Linked(M) = Linked(queue) \ {p}
  BY <1>4 DEF PopFacts, Lists
<1>6. queue' = PushTail(M, "ready", p) /\ state' = [state EXCEPT ![p] = "READY"]
  BY DEF DeviceWakeup
<1> HIDE DEF p, M
<1>7. p \in Linked(queue)
  BY <1>1, <1>3, <1>5 DEF Linked, Lists, ListsOver
<1>8. PushFacts(QueueName, Pid, M, "ready", p, queue')
  BY <1>3, <1>5, <1>6, PushLists DEF Lists
<1>9. queue' \in Lists /\ NoDup(queue') /\ Linked(queue') = Linked(queue)
  BY <1>5, <1>7, <1>8 DEF PushFacts, Lists
<1>10. Moved
  BY <1>1, <1>2, <1>9 DEF Moved, Placed, Held
<1>11. state' \in [Pid -> State]
  BY <1>5, <1>6 DEF Inv, TypeOK, State
<1>12. TypeOK'
  BY <1>2, <1>9, <1>11 DEF Inv, TypeOK, Lists
<1>13. FrameKeeps
  BY <1>2 DEF FrameKeeps
<1>14. KillInv'
  BY <1>2 DEF DeviceWakeup, KillInv
<1> QED BY <1>2, <1>10, <1>12, <1>13, <1>14, QuietStep

\* process_wakeup_parent takes a waiting parent, and no one else, from
\* grave_watcher_list to ready_list.
WakeFacts(L) ==
  /\ L \in Lists /\ NoDup(L) /\ Linked(L) = Linked(queue)
  /\ Range(L["grave"]) = Range(queue["grave"])
  /\ Range(L["watchers"]) = Range(queue["watchers"]) \
        (IF ParentWaits(queue) THEN {ppid[current]} ELSE {})

\* process_wakeup_parent moves the parent of the dead from the watchers to the ready list.
LEMMA WakeLists ==
  ASSUME Inv
  PROVE  WakeFacts(WakeupParent(queue))
<1>1. queue \in Lists /\ NoDup(queue)
  BY DEF Inv, PlaceInv, Placed
<1>2. CASE ~ParentWaits(queue)
  BY <1>1, <1>2 DEF WakeupParent, WakeFacts
<1>3. CASE ParentWaits(queue)
  <2> DEFINE par == ppid[current]
             M == Unlink(queue, par)
             L == PushTail(M, "ready", par)
  <2>0. {"ready", "grave", "watchers"} \subseteq QueueName
    BY DEF QueueName
  <2>1. WakeupParent(queue) = L
    BY <1>3 DEF WakeupParent
  <2>2. par \in Range(queue["watchers"])
    BY <1>3 DEF ParentWaits
  <2>3. par \in Linked(queue) /\ par \in Pid
    <3>1. par \in Linked(queue)
      BY <2>0, <2>2, <1>1 DEF Linked, Lists, ListsOver
    <3> QED BY <3>1, <1>1, IdleNotLinked
  <2>4. RemoveFacts(QueueName, Pid, queue, par, M)
    BY <1>1, RemoveLists, Zenon DEF Lists
  <2>5. /\ M \in Lists /\ NoDup(M) /\ Linked(M) = Linked(queue) \ {par}
        /\ \A r \in QueueName : Range(M[r]) = Range(queue[r]) \ {par}
    BY <2>4 DEF RemoveFacts, Lists
  <2> HIDE DEF M
  <2>6. PushFacts(QueueName, Pid, M, "ready", par, L)
    <3>1. par \notin Linked(M)
      BY <2>5
    <3> HIDE DEF par
    <3> QED BY <2>0, <2>3, <2>5, <3>1, PushLists, Zenon DEF Lists
  <2>7. /\ L \in Lists /\ NoDup(L) /\ Linked(L) = Linked(queue)
        /\ Range(L["grave"]) = Range(M["grave"])
        /\ Range(L["watchers"]) = Range(M["watchers"])
    <3>1. /\ L \in Lists /\ NoDup(L) /\ Linked(L) = Linked(M) \cup {par}
          /\ \A r \in QueueName : r # "ready" => Range(L[r]) = Range(M[r])
      BY <2>6 DEF PushFacts, Lists
    <3> QED BY <3>1, <2>0, <2>3, <2>5
  <2> HIDE DEF L
  <2>8. par \notin Range(queue["grave"])
    BY <2>0, <2>2, <1>1 DEF NoDup, Lists, ListsOver
  <2>9. /\ Range(L["grave"]) = Range(queue["grave"])
        /\ Range(L["watchers"]) = Range(queue["watchers"]) \ {par}
    BY <2>0, <2>5, <2>7, <2>8
  <2> QED BY <1>3, <2>1, <2>7, <2>9 DEF WakeFacts
<1> QED BY <1>2, <1>3

\* The lists and the processor after process_exit, and a few consequences.
LEMMA ExitFacts ==
  ASSUME Inv, SysExit
  PROVE  /\ current \in Pid /\ killstack = << >>
         /\ WakeFacts(WakeupParent(queue))
         /\ AwayFacts(WakeupParent(queue), "grave", current, queue', current')
         /\ ParentWaits(queue) => ppid[current] \in Pid
<1>1. /\ current # Idle /\ current \in Pid /\ killstack = << >>
      /\ current \notin Linked(queue)
  BY DEF SysExit, AtProgram, AtUser, Inv, TypeOK, PlaceInv, Placed
<1> DEFINE L == WakeupParent(queue)
<1>2. WakeFacts(L)
  BY WakeLists
<1>3. queue' = Rest(PushTail(L, "grave", current))
      /\ current' = Chosen(PushTail(L, "grave", current))
  BY DEF SysExit, Dispatch
<1> HIDE DEF L
<1>4. AwayFacts(L, "grave", current, queue', current')
  <2>1. L \in Lists /\ NoDup(L) /\ current \notin Linked(L)
    BY <1>1, <1>2 DEF WakeFacts
  <2>2. "grave" \in QueueName
    BY DEF QueueName
  <2> QED BY <1>1, <1>3, <2>1, <2>2, SwitchAway
<1>5. ASSUME ParentWaits(queue) PROVE ppid[current] \in Pid
  <2>1. queue \in Lists /\ "watchers" \in QueueName
    BY DEF Inv, PlaceInv, Placed, QueueName
  <2>2. ppid[current] \in Linked(queue)
    BY <1>5, <2>1 DEF ParentWaits, Linked, Lists, ListsOver
  <2> QED BY <2>1, <2>2, IdleNotLinked
<1> QED BY <1>1, <1>2, <1>4, <1>5 DEF L

\* process_exit puts the process on the grave list and wakes its parent.
LEMMA ExitStep ==
  ASSUME Inv, SysExit
  PROVE  Inv'
<1>1. /\ current \in Pid /\ killstack = << >>
      /\ WakeFacts(WakeupParent(queue))
      /\ AwayFacts(WakeupParent(queue), "grave", current, queue', current')
      /\ ParentWaits(queue) => ppid[current] \in Pid
  BY ExitFacts
<1>2. UNCHANGED <<table, kshell, last, wrapped, ppid, frame, killstack, fault>>
  BY DEF SysExit
<1>3. Moved
  <2>1. Linked(WakeupParent(queue)) \cup {current} = Held(queue, current)
    BY <1>1 DEF WakeFacts, Held, Idle, Pid
  <2>2. Held(queue, current) \subseteq table
    BY DEF Inv, PlaceInv, Placed
  <2> QED BY <1>1, <2>1, <2>2 DEF AwayFacts, Moved, Placed
<1>4. 0 \in 0..(MaxPid - 1)
  BY ConstAssumption
<1>5. /\ state' \in [Pid -> State]
      /\ exitreason' \in [Pid -> Reason]
      /\ waitfor' \in [Pid -> 0..(MaxPid - 1)]
  BY <1>1, <1>4 DEF SysExit, Dispatch, Inv, TypeOK, State, Reason
<1>6. TypeOK'
  BY <1>2, <1>3, <1>5 DEF Inv, TypeOK, Moved, Placed, Lists
<1>7. FrameKeeps
  BY <1>2 DEF FrameKeeps
<1>8. KillInv'
  BY <1>1, <1>2 DEF KillInv
<1> QED BY <1>2, <1>3, <1>6, <1>7, <1>8, QuietStep

-----------------------------------------------------------------------------
(* process_kill *)

\* Starting process_make_dead, and running out of memory, touch no process.
LEMMA KillBeginStep ==
  ASSUME Inv, CreateHalts \/ (\E pid \in 1..MaxPid : SysKill(pid))
  PROVE  Inv'
<1>1. UNCHANGED <<table, kshell, last, wrapped, current, queue, state, ppid,
                  exitreason, waitfor, frame>>
  BY DEF CreateHalts, SysKill, pvars
<1>2. AtUser
  BY DEF CreateHalts, SysKill
<1>3. fault' \in Fault /\ killstack' \in Seq(KillFrame) /\ KillInv'
  <2>1. CASE killstack' = killstack
    <3>1. fault' \in {"memory", "wild", fault}
      BY DEF CreateHalts, SysKill
    <3> QED BY <2>1, <1>1, <3>1 DEF Inv, TypeOK, KillInv, Fault
  <2>2. CASE killstack' # killstack
    <3>1. PICK pid \in 1..MaxPid : SysKill(pid)
      BY <2>2 DEF CreateHalts
    <3>2. pid \in table /\ killstack' = <<[dead |-> pid, next |-> 1]>> /\ fault' = fault
      BY <2>2, <3>1 DEF SysKill
    <3>3. pid \in Pid /\ 1 \in 1..MaxPid
      BY <3>2, ConstAssumption DEF Inv, TypeOK
    <3>4. [dead |-> pid, next |-> 1] \in KillFrame
      BY <3>3 DEF KillFrame
    <3>5. killstack' \in Seq(KillFrame)
      BY <3>2, <3>4
    <3>6. DOMAIN killstack' = {1} /\ killstack'[1].dead = pid
      BY <3>2
    <3>7. KillInv'
      BY <3>2, <3>6, <1>1, <1>2 DEF KillInv, AtUser
    <3> QED BY <3>2, <3>5, <3>7 DEF Inv, TypeOK
  <2> QED BY <2>1, <2>2
<1>4. TypeOK'
  BY <1>1, <1>3 DEF Inv, TypeOK
<1>5. Moved /\ FrameKeeps
  BY <1>1 DEF Moved, FrameKeeps, Inv, PlaceInv
<1> QED BY <1>1, <1>3, <1>4, <1>5, QuietStep

\* The innermost activation, the child it comes to next, and the stack it leaves.
LEMMA TopFacts ==
  ASSUME Inv, killstack # << >>
  PROVE  /\ Len(killstack) \in Nat \ {0} /\ DOMAIN killstack = 1..Len(killstack)
         /\ Len(killstack) \in DOMAIN killstack
         /\ Top \in KillFrame /\ Top.dead \in table /\ Top.dead \in Pid
<1>1. killstack \in Seq(KillFrame)
  BY DEF Inv, TypeOK
<1>2. /\ Len(killstack) \in Nat \ {0} /\ DOMAIN killstack = 1..Len(killstack)
      /\ Len(killstack) \in DOMAIN killstack
      /\ killstack[Len(killstack)] \in KillFrame
  BY <1>1
<1>3. Top.dead \in table
  BY <1>2 DEF Inv, KillInv, Top
<1> QED BY <1>2, <1>3 DEF Top, Inv, TypeOK

\* The child that process_make_dead comes to next.
LEMMA NextChild ==
  ASSUME Inv, killstack # << >>, Unvisited # {}
  PROVE  Min(Unvisited) \in Unvisited /\ Min(Unvisited) \in Pid
<1>1. Unvisited \subseteq table /\ table \subseteq Pid
  BY DEF Unvisited, Inv, TypeOK
<1>2. Pid \subseteq Nat
  BY DEF Pid
<1>3. Unvisited \in SUBSET Nat /\ Unvisited \subseteq Pid
  BY <1>1, <1>2
<1> QED BY <1>3, MinIn

\* process_make_dead descends to a child.
LEMMA KillChildStep ==
  ASSUME Inv, KillChild
  PROVE  Inv'
<1>1. UNCHANGED <<table, kshell, last, wrapped, current, queue, state, ppid,
                  exitreason, waitfor, frame>>
  BY DEF KillChild, pvars
<1>2. killstack \in Seq(KillFrame) /\ killstack # << >>
  BY DEF KillChild, Inv, TypeOK
<1>3. fault' \in Fault /\ killstack' \in Seq(KillFrame) /\ KillInv'
  <2>1. CASE Len(killstack) = MaxDepth
    BY <2>1, <1>1, <1>2 DEF KillChild, Inv, KillInv, Fault
  <2>2. CASE Len(killstack) # MaxDepth
    <3> DEFINE n == Min(Unvisited)
               k == [killstack EXCEPT ![Len(killstack)].next = n + 1]
               f == [dead |-> n, next |-> 1]
    <3>1. killstack' = Append(k, f) /\ fault' = fault
      BY <2>2 DEF KillChild
    <3>2. n \in table /\ n \in Pid
      BY <1>2, NextChild DEF KillChild, Unvisited
    <3>3. n + 1 \in 1..MaxPid /\ 1 \in 1..MaxPid
      BY <3>2, ConstAssumption DEF Pid
    <3> HIDE DEF n
    <3>4. f \in KillFrame /\ f.dead = n
      BY <3>2, <3>3 DEF KillFrame
    <3>5. /\ k \in Seq(KillFrame) /\ Len(k) = Len(killstack)
          /\ \A i \in DOMAIN killstack : k[i].dead = killstack[i].dead
      <4> DEFINE m == Len(killstack)
      <4>1. m \in DOMAIN killstack /\ killstack[m] \in KillFrame
        BY <1>2
      <4> DEFINE g == [killstack[m] EXCEPT !.next = n + 1]
      <4>2. g \in KillFrame /\ g.dead = killstack[m].dead
        BY <4>1, <3>3 DEF KillFrame
      <4>3. k = [killstack EXCEPT ![m] = g]
        OBVIOUS
      <4> HIDE DEF g, m
      <4> QED BY <4>1, <4>2, <4>3, <1>2
    <3> HIDE DEF k, f
    <3>6. /\ Append(k, f) \in Seq(KillFrame)
          /\ \A i \in DOMAIN Append(k, f) :
               \/ i \in DOMAIN killstack /\ Append(k, f)[i] = k[i]
               \/ Append(k, f)[i] = f
      BY <3>4, <3>5, TopFacts, <1>2
    <3>7. \A i \in DOMAIN killstack' : killstack'[i].dead \in table
      BY <3>1, <3>2, <3>4, <3>5, <3>6, <1>2 DEF Inv, KillInv
    <3> QED BY <3>1, <3>6, <3>7, <1>1, <1>2 DEF Inv, TypeOK, KillInv
  <2> QED BY <2>1, <2>2
<1>4. TypeOK'
  BY <1>1, <1>3 DEF Inv, TypeOK
<1>5. Moved /\ FrameKeeps
  BY <1>1 DEF Moved, FrameKeeps, Inv, PlaceInv
<1> QED BY <1>1, <1>3, <1>4, <1>5, QuietStep

\* The lists after process_make_dead has put d into the grave.
KillFacts(d) ==
  /\ Placed(queue', current', table)
  /\ Held(queue, current) \subseteq Held(queue', current')
  /\ Range(queue'["grave"]) = Range(queue["grave"]) \cup {d}
  /\ Range(queue'["watchers"]) = Range(queue["watchers"]) \ {d}

\* process_make_dead takes the dead from its list and puts it on the grave list.
LEMMA KillLists ==
  ASSUME Inv, KillSelf
  PROVE  KillFacts(Top.dead)
<1> DEFINE d == Top.dead
<1>0. "grave" \in QueueName /\ "watchers" \in QueueName
  BY DEF QueueName
<1>1. d \in table /\ d \in Pid
  BY TopFacts DEF KillSelf
<1>2. /\ queue \in Lists /\ NoDup(queue) /\ current \in {Idle} \cup Pid
      /\ current \notin Linked(queue) /\ Held(queue, current) \subseteq table
      /\ Linked(queue) \subseteq Held(queue, current)
  BY DEF Inv, PlaceInv, Placed, Held
<1>3. CASE d = current
  <2>1. queue' = Rest(PushTail(queue, "grave", current))
        /\ current' = Chosen(PushTail(queue, "grave", current))
    BY <1>3 DEF KillSelf, Dispatch
  <2> HIDE DEF d
  <2>2. AwayFacts(queue, "grave", current, queue', current')
    BY <1>0, <1>1, <1>2, <1>3, <2>1, SwitchAway
  <2>3. Held(queue, current) = Linked(queue) \cup {current}
    BY <1>1, <1>3, IdleNotLinked, <1>2 DEF Held
  <2>4. /\ Range(queue'["grave"]) = Range(queue["grave"]) \cup {d}
        /\ Range(queue'["watchers"]) = Range(queue["watchers"])
    BY <1>0, <1>3, <2>2 DEF AwayFacts
  <2>5. d \notin Range(queue["watchers"])
    BY <1>0, <1>2, <1>3 DEF Linked, Lists, ListsOver
  <2>6. Placed(queue', current', table) /\ Held(queue', current') = Held(queue, current)
    BY <1>2, <2>2, <2>3 DEF AwayFacts, Placed
  <2> QED BY <2>4, <2>5, <2>6 DEF KillFacts, d
<1>4. CASE d # current
  <2> DEFINE M == Unlink(queue, d)
  <2>1. queue' = PushTail(M, "grave", d) /\ current' = current
    BY <1>4 DEF KillSelf
  <2> HIDE DEF d
  <2>2. RemoveFacts(QueueName, Pid, queue, d, M)
    BY <1>2, RemoveLists, Zenon DEF Lists
  <2> HIDE DEF M
  <2>3. /\ M \in Lists /\ NoDup(M) /\ Linked(M) = Linked(queue) \ {d}
        /\ \A r \in QueueName : Range(M[r]) = Range(queue[r]) \ {d}
    BY <2>2 DEF RemoveFacts, Lists
  <2>4. PushFacts(QueueName, Pid, M, "grave", d, queue')
    BY <1>0, <1>1, <2>1, <2>3, PushLists DEF Lists
  <2>5. /\ queue' \in Lists /\ NoDup(queue') /\ Linked(queue') = Linked(M) \cup {d}
        /\ Range(queue'["grave"]) = Range(M["grave"]) \cup {d}
        /\ Range(queue'["watchers"]) = Range(M["watchers"])
    BY <1>0, <2>4 DEF PushFacts, Lists
  <2>6. Held(queue', current') = Held(queue, current) \cup {d}
    BY <2>1, <2>3, <2>5 DEF Held
  <2>7. Placed(queue', current', table)
    BY <1>1, <1>2, <1>4, <2>1, <2>3, <2>5, <2>6 DEF Placed
  <2>8. /\ Range(queue'["grave"]) = Range(queue["grave"]) \cup {d}
        /\ Range(queue'["watchers"]) = Range(queue["watchers"]) \ {d}
    BY <1>0, <2>3, <2>5
  <2> QED BY <2>6, <2>7, <2>8 DEF KillFacts, d
<1> QED BY <1>3, <1>4

\* process_make_dead has killed the descendants, and kills the process itself.
LEMMA KillSelfStep ==
  ASSUME Inv, KillSelf
  PROVE  Inv'
<1>1. Moved
  BY KillLists DEF KillFacts, Moved
<1>2. UNCHANGED <<table, kshell, last, wrapped, ppid, waitfor, frame, fault>>
  BY DEF KillSelf
<1>3. exitreason' \in [Pid -> Reason]
  BY DEF KillSelf, Inv, TypeOK, Reason
<1>4. state' \in [Pid -> State]
  BY DEF KillSelf, Dispatch, Inv, TypeOK, State
<1>5. killstack' \in Seq(KillFrame) /\ KillInv'
  <2>1. CASE Top.dead = current
    BY <2>1 DEF KillSelf, KillInv
  <2>2. CASE Top.dead # current
    <3>1. killstack \in Seq(KillFrame) /\ killstack # << >>
      BY DEF KillSelf, Inv, TypeOK
    <3>2. killstack' = SubSeq(killstack, 1, Len(killstack) - 1) /\ current' = current
      BY <2>2 DEF KillSelf
    <3>3. Len(killstack) - 1 \in Nat
      BY <3>1
    <3>4. /\ killstack' \in Seq(KillFrame)
          /\ \A i \in DOMAIN killstack' :
               i \in DOMAIN killstack /\ killstack'[i] = killstack[i]
      BY <3>1, <3>2, <3>3
    <3> QED BY <1>2, <3>1, <3>2, <3>4 DEF Inv, KillInv
  <2> QED BY <2>1, <2>2
<1>6. TypeOK'
  BY <1>1, <1>2, <1>3, <1>4, <1>5 DEF Inv, TypeOK, Moved, Placed, Lists
<1>7. FrameKeeps
  BY <1>2 DEF FrameKeeps
<1> QED BY <1>1, <1>2, <1>5, <1>6, <1>7, QuietStep

-----------------------------------------------------------------------------
(* Reaping *)

\* A zombie z is deleted while the frames are fr, which differ from frame only
\* in what a process that is neither an embryo nor a loader does next.
Reaps(z, fr) ==
  /\ z \in Range(queue["grave"]) /\ fr \in [Pid -> Frame]
  /\ \A p \in Pid : /\ fr[p].at = "embryo" <=> frame[p].at = "embryo"
                    /\ fr[p].at = "load" => fr[p] = frame[p]
  /\ Delete(z, fr) /\ killstack = << >>
  /\ UNCHANGED <<last, wrapped, current, killstack, fault>>

\* The lists without the zombie.
DeleteFacts(z) ==
  /\ z \in Pid /\ z # current
  /\ Placed(queue', current, table \ {z})
  /\ Held(queue', current) = Held(queue, current) \ {z}
  /\ \A q \in QueueName : Range(queue'[q]) = Range(queue[q]) \ {z}

\* Removing a zombie from the grave list leaves the other lists.
LEMMA DeleteLists ==
  ASSUME Inv, NEW z, z \in Range(queue["grave"]), queue' = Unlink(queue, z)
  PROVE  DeleteFacts(z)
<1>1. /\ queue \in Lists /\ NoDup(queue) /\ current \in {Idle} \cup Pid
      /\ current \notin Linked(queue) /\ Held(queue, current) \subseteq table
  BY DEF Inv, PlaceInv, Placed
<1>2. z \in Linked(queue)
  BY <1>1 DEF Linked, Lists, ListsOver, QueueName
<1>3. z \in Pid /\ z # current
  BY <1>1, <1>2, IdleNotLinked
<1>4. RemoveFacts(QueueName, Pid, queue, z, queue')
  BY <1>1, RemoveLists DEF Lists
<1>5. /\ queue' \in Lists /\ NoDup(queue') /\ Linked(queue') = Linked(queue) \ {z}
      /\ \A q \in QueueName : Range(queue'[q]) = Range(queue[q]) \ {z}
  BY <1>4 DEF RemoveFacts, Lists
<1>6. Held(queue', current) = Held(queue, current) \ {z}
  BY <1>3, <1>5 DEF Held
<1>7. Placed(queue', current, table \ {z})
  BY <1>1, <1>5, <1>6 DEF Placed
<1> QED BY <1>3, <1>5, <1>6, <1>7 DEF DeleteFacts

\* process_reap removes one zombie from the table, with its objects.
LEMMA ReapStep ==
  ASSUME Inv, \E z : \E fr : Reaps(z, fr)
  PROVE  Inv'
<1>1. PICK z : \E fr : Reaps(z, fr)
  OBVIOUS
<1>2. PICK fr : Reaps(z, fr)
  BY <1>1
<1>3. DeleteFacts(z)
  <2>1. z \in Range(queue["grave"]) /\ queue' = Unlink(queue, z)
    BY <1>2 DEF Reaps, Delete
  <2> QED BY <2>1, DeleteLists
<1>4. z \in Pid /\ z # current /\ current' = current /\ table' = table \ {z}
  BY <1>2, <1>3 DEF DeleteFacts, Reaps, Delete
<1>5. 0 \in 0..(MaxPid - 1)
  BY ConstAssumption
<1>6. ASSUME NEW p \in Pid
      PROVE  /\ frame'[p] \in Frame
             /\ p # z => (frame'[p].at = "embryo" <=> frame[p].at = "embryo")
             /\ frame'[p].at = "load" /\ frame'[p].arg # 0 =>
                  p # z /\ frame'[p] = frame[p] /\ frame[p].arg # z
  <2>1. fr[p] \in Frame
    BY <1>2 DEF Reaps
  <2>2. CASE p = z
    BY <1>2, <2>2, FrameFacts DEF Reaps, Delete
  <2>3. CASE p # z /\ fr[p].at = "load" /\ fr[p].arg = z
    <3>1. frame'[p] = [fr[p] EXCEPT !.arg = 0]
      BY <1>2, <2>3 DEF Reaps, Delete
    <3>2. frame'[p] \in Frame /\ frame'[p].arg = 0 /\ frame'[p].at = "load"
      BY <3>1, <2>1, <2>3, <1>5 DEF Frame
    <3> QED BY <3>2, <2>3, <1>2 DEF Reaps
  <2>4. CASE p # z /\ ~(fr[p].at = "load" /\ fr[p].arg = z)
    <3>1. frame'[p] = fr[p]
      BY <1>2, <2>4 DEF Reaps, Delete
    <3> QED BY <3>1, <2>1, <2>4, <1>2 DEF Reaps
  <2> QED BY <2>2, <2>3, <2>4
<1>7. frame' \in [Pid -> Frame]
  <2>1. frame' = [p \in Pid |-> frame'[p]]
    BY <1>2 DEF Reaps, Delete
  <2> QED BY <1>6, <2>1
<1>8. TypeOK'
  <2>1. /\ state' \in [Pid -> State] /\ exitreason' \in [Pid -> Reason]
        /\ ppid' \in [Pid -> 0..(MaxPid - 1)]
        /\ waitfor' \in [Pid -> 0..(MaxPid - 1)]
    BY <1>2, <1>5 DEF Reaps, Delete, Inv, TypeOK, State, Reason
  <2>2. kshell' \in BOOLEAN
    BY <1>2 DEF Reaps, Delete, Inv, TypeOK
  <2>3. UNCHANGED <<last, wrapped, current, killstack, fault>>
    BY <1>2 DEF Reaps
  <2>4. queue' \in ListsOver(QueueName, Pid)
    BY <1>3 DEF DeleteFacts, Placed, Lists
  <2> QED BY <1>4, <1>7, <2>1, <2>2, <2>3, <2>4 DEF Inv, TypeOK
<1>9. PlaceInv'
  <2>1. Placed(queue', current', table')
    BY <1>3, <1>4 DEF DeleteFacts
  <2>2. ASSUME NEW p \in table', frame'[p].at # "embryo"
        PROVE  p \in Held(queue', current')
    <3>1. p \in table /\ p # z /\ p \in Pid
      BY <1>4, <2>2 DEF Inv, TypeOK
    <3>2. frame[p].at # "embryo"
      BY <3>1, <2>2, <1>6
    <3> QED BY <1>3, <1>4, <3>1, <3>2 DEF Inv, PlaceInv, DeleteFacts
  <2> QED BY <2>1, <2>2 DEF PlaceInv
<1>10. LoadInv'
  <2> SUFFICES ASSUME NEW p \in Pid, frame'[p].at = "load", frame'[p].arg # 0
               PROVE  /\ frame'[p].arg \in table'
                      /\ frame'[frame'[p].arg].at = "embryo"
                      /\ ppid'[frame'[p].arg] = p
    BY DEF LoadInv
  <2> DEFINE c == frame[p].arg
  <2>1. p # z /\ frame'[p] = frame[p] /\ c # z
    BY <1>6
  <2>2. c \in table /\ frame[c].at = "embryo" /\ ppid[c] = p
    BY <2>1 DEF Inv, LoadInv
  <2>3. c \in Pid
    BY <2>2 DEF Inv, TypeOK
  <2>4. frame'[c].at = "embryo" /\ c \in table'
    BY <1>4, <1>6, <2>1, <2>2, <2>3
  <2>5. ppid'[c] = ppid[c]
    BY <1>2, <2>1, <2>3 DEF Reaps, Delete, Inv, TypeOK
  <2> QED BY <2>1, <2>2, <2>4, <2>5
<1>11. KillInv'
  BY <1>2 DEF Reaps, KillInv
<1> QED BY <1>8, <1>9, <1>10, <1>11 DEF Inv

\* sys_process_reap, and process_wait_child when kshell's "run" called it, delete
\* a zombie.
LEMMA ReapingActions ==
  ASSUME Inv,
         \/ \E z \in Pid : SysReap(z)
         \/ WaitScan /\ Matches # {} /\ frame[current].arg # 0
  PROVE  \E z : \E fr : Reaps(z, fr)
<1>1. ASSUME NEW z \in Pid, SysReap(z) PROVE Reaps(z, frame)
  <2>1. frame \in [Pid -> Frame]
    BY DEF Inv, TypeOK
  <2> QED BY <1>1, <2>1 DEF SysReap, AtUser, Reaps
<1>2. ASSUME WaitScan, Matches # {}, frame[current].arg # 0
      PROVE  \E z : \E fr : Reaps(z, fr)
  <2> DEFINE fr == [frame EXCEPT ![current] = UserFrame]
             g == queue["grave"]
             z == g[Min(Matches)]
  <2>1. current \in Pid /\ frame[current].at = "scan" /\ killstack = << >>
    BY <1>2 DEF WaitScan, Inv, TypeOK, KillInv
  <2>2. g \in Seq(Pid)
    BY DEF Inv, TypeOK, ListsOver, QueueName
  <2>3. Matches \subseteq DOMAIN g /\ DOMAIN g \subseteq Nat
    BY <2>2 DEF Matches
  <2>4. Min(Matches) \in DOMAIN g
    <3>1. Matches \in SUBSET Nat
      BY <2>3
    <3>2. Min(Matches) \in Matches
      BY <1>2, <3>1, MinIn
    <3> QED BY <3>2, <2>3
  <2>5. z \in Range(g)
    BY <2>4 DEF Range
  <2>6. Delete(z, fr) /\ UNCHANGED <<last, wrapped, current, killstack, fault>>
    BY <1>2 DEF WaitScan
  <2>7. /\ fr \in [Pid -> Frame]
        /\ \A p \in Pid : /\ fr[p].at = "embryo" <=> frame[p].at = "embryo"
                          /\ fr[p].at = "load" => fr[p] = frame[p]
    BY <2>1, FrameFacts DEF Inv, TypeOK
  <2>8. Reaps(z, fr)
    BY <2>1, <2>5, <2>6, <2>7 DEF Reaps
  <2> QED BY <2>8
<1> QED BY <1>1, <1>2

\* process_wait_child returns with the zombie that it found.
LEMMA WaitReturnStep ==
  ASSUME Inv, WaitScan, Matches # {}, frame[current].arg = 0
  PROVE  Inv'
<1>1. /\ current # Idle /\ killstack = << >> /\ current \in Pid
      /\ frame[current].at # "embryo"
  BY DEF WaitScan, Inv, KillInv, TypeOK
<1>2. UNCHANGED <<table, kshell, last, wrapped, current, queue, state, ppid,
                  exitreason, waitfor, killstack, fault>>
  BY DEF WaitScan
<1>3. \E f \in Frame : /\ f.at \notin {"embryo", "load"}
                       /\ frame' = [frame EXCEPT ![current] = f]
  BY FrameFacts DEF WaitScan
<1>4. FrameKeeps /\ frame' \in [Pid -> Frame]
  BY <1>1, <1>3, FrameStep
<1>5. TypeOK'
  BY <1>2, <1>4 DEF Inv, TypeOK
<1>6. Moved
  BY <1>2 DEF Moved, Inv, PlaceInv
<1>7. KillInv'
  BY <1>1, <1>2 DEF KillInv
<1> QED BY <1>2, <1>4, <1>5, <1>6, <1>7, QuietStep

\* process_wait_child finds none and waits among the watchers.
LEMMA WaitBlockStep ==
  ASSUME Inv, WaitScan, Matches = {}
  PROVE  Inv'
<1>1. /\ current # Idle /\ killstack = << >> /\ current \in Pid
      /\ frame[current].at = "scan"
  BY DEF WaitScan, Inv, KillInv, TypeOK
<1>2. UNCHANGED <<table, kshell, last, wrapped, ppid, exitreason, killstack, fault>>
  BY DEF WaitScan
<1>3. /\ Block("watchers") /\ frame' = [frame EXCEPT ![current].at = "check"]
      /\ waitfor' = [waitfor EXCEPT ![current] = frame[current].arg]
  BY DEF WaitScan
<1>4. frame[current] \in Frame
  BY <1>1 DEF Inv, TypeOK
<1>5. FrameKeeps /\ frame' \in [Pid -> Frame]
  <2> DEFINE f == [frame[current] EXCEPT !.at = "check"]
  <2>1. f \in Frame /\ f.at = "check"
    BY <1>4 DEF Frame
  <2>2. frame' = [frame EXCEPT ![current] = f]
    BY <1>3
  <2> HIDE DEF f
  <2> QED BY <1>1, <2>1, <2>2, FrameStep
<1>6. waitfor' \in [Pid -> 0..(MaxPid - 1)]
  <2>1. frame[current].arg \in 0..(MaxPid - 1)
    BY <1>4 DEF Frame
  <2> QED BY <1>3, <2>1 DEF Inv, TypeOK
<1>7. Moved
  <2>1. "watchers" \in QueueName
    BY DEF QueueName
  <2>2. \E q \in QueueName : /\ queue' = Rest(PushTail(queue, q, current))
                             /\ current' = Chosen(PushTail(queue, q, current))
    BY <2>1, <1>3 DEF Block, Dispatch
  <2> QED BY <1>1, <2>2, Away
<1>8. state' \in [Pid -> State]
  BY <1>3 DEF Block, Dispatch, Inv, TypeOK, State
<1>9. TypeOK'
  BY <1>2, <1>5, <1>6, <1>7, <1>8 DEF Inv, TypeOK, Moved, Placed, Lists
<1>10. KillInv'
  BY <1>1, <1>2 DEF KillInv
<1> QED BY <1>2, <1>5, <1>7, <1>9, <1>10, QuietStep

-----------------------------------------------------------------------------
(* Creation *)

\* The new process is none of the table and nowhere, and what both sys_process_fork
\* and sys_process_run do to its fields.
LEMMA NewProcess ==
  ASSUME Inv, SysFork \/ RunBegin
  PROVE  /\ AllocPid \in Pid \ table /\ AllocPid \notin Held(queue, current)
         /\ current \in Pid /\ current \in table /\ current # AllocPid
         /\ frame[current].at = "user" /\ killstack = << >>
         /\ table' = table \cup {AllocPid} /\ last' = AllocPid
         /\ ppid' = [ppid EXCEPT ![AllocPid] = current]
<1>1. Cardinality(table) < MaxProcs /\ AtUser
  BY DEF SysFork, RunBegin, Create, AtProgram
<1>2. AllocPid \in Pid \ table
  BY <1>1, AllocPidFree DEF Inv, TypeOK
<1>3. AllocPid # 0
  BY <1>2 DEF Pid
<1>4. /\ current \in Pid /\ frame[current].at = "user" /\ killstack = << >>
      /\ current \in Held(queue, current)
  BY <1>1 DEF AtUser, Inv, TypeOK, Held
<1>5. Held(queue, current) \subseteq table
  BY DEF Inv, PlaceInv, Placed
<1>6. /\ table' = table \cup {AllocPid} /\ last' = AllocPid
      /\ ppid' = [ppid EXCEPT ![AllocPid] = current]
  BY <1>3 DEF SysFork, RunBegin, Create
<1> QED BY <1>2, <1>4, <1>5, <1>6

\* A new process keeps the types.
LEMMA CreateTypes ==
  ASSUME Inv, SysFork \/ RunBegin, queue' \in Lists, frame' \in [Pid -> Frame]
  PROVE  TypeOK'
<1>1. /\ AllocPid \in Pid \ table /\ current \in Pid
      /\ table' = table \cup {AllocPid} /\ last' = AllocPid
      /\ ppid' = [ppid EXCEPT ![AllocPid] = current]
  BY NewProcess
<1>2. current \in 0..(MaxPid - 1) /\ 0 \in 0..(MaxPid - 1)
  BY <1>1, ConstAssumption DEF Pid
<1>3. /\ table' \in SUBSET Pid /\ last' \in Pid
      /\ ppid' \in [Pid -> 0..(MaxPid - 1)]
  BY <1>1, <1>2 DEF Inv, TypeOK
<1>4. /\ exitreason' = [exitreason EXCEPT ![AllocPid] = "NORMAL"]
      /\ waitfor' = [waitfor EXCEPT ![AllocPid] = 0]
      /\ state' = [state EXCEPT ![AllocPid] = "READY"]
      /\ UNCHANGED <<current, kshell, killstack, fault>>
  BY DEF SysFork, RunBegin, Create
<1>5. /\ exitreason' \in [Pid -> Reason] /\ state' \in [Pid -> State]
      /\ waitfor' \in [Pid -> 0..(MaxPid - 1)]
  BY <1>2, <1>4 DEF Inv, TypeOK, Reason, State
<1>6. wrapped' \in BOOLEAN
  <2>1. wrapped' = (wrapped \/ AllocPid < last)
    BY DEF SysFork, RunBegin, Create
  <2> QED BY <2>1 DEF Inv, TypeOK
<1> QED BY <1>3, <1>4, <1>5, <1>6 DEF Inv, TypeOK, Lists

\* sys_process_fork adds a process that is ready.
LEMMA ForkStep ==
  ASSUME Inv, SysFork
  PROVE  Inv'
<1> DEFINE c == AllocPid
<1>1. /\ c \in Pid \ table /\ c \notin Held(queue, current)
      /\ current \in Pid /\ current \in table /\ current # c
      /\ frame[current].at = "user" /\ killstack = << >>
      /\ table' = table \cup {c} /\ ppid' = [ppid EXCEPT ![c] = current]
  BY NewProcess
<1>2. /\ frame' = [frame EXCEPT ![c] = UserFrame]
      /\ queue' = PushTail(queue, "ready", c)
      /\ UNCHANGED <<current, kshell, killstack, fault>>
  BY DEF SysFork, Create
<1> HIDE DEF c
<1>3. /\ queue \in Lists /\ NoDup(queue) /\ current \notin Linked(queue)
      /\ Held(queue, current) \subseteq table
      /\ c \notin Linked(queue) /\ frame \in [Pid -> Frame]
      /\ table \subseteq Pid /\ ppid \in [Pid -> 0..(MaxPid - 1)]
  BY <1>1 DEF Inv, PlaceInv, Placed, TypeOK, Held
<1>4. PushFacts(QueueName, Pid, queue, "ready", c, queue')
  <2>1. "ready" \in QueueName
    BY DEF QueueName
  <2> QED BY <1>1, <1>2, <1>3, <2>1, PushLists DEF Lists
<1>5. queue' \in Lists /\ NoDup(queue') /\ Linked(queue') = Linked(queue) \cup {c}
  BY <1>4 DEF PushFacts, Lists
<1>6. TypeOK'
  <2>1. frame' \in [Pid -> Frame]
    BY <1>1, <1>2, <1>3, FrameFacts
  <2> QED BY <1>5, <2>1, CreateTypes
<1>7. PlaceInv'
  <2>1. Held(queue', current') = Held(queue, current) \cup {c}
    BY <1>2, <1>5 DEF Held
  <2>2. Placed(queue', current', table')
    BY <1>1, <1>2, <1>3, <1>5, <2>1 DEF Placed
  <2>3. ASSUME NEW p \in table', frame'[p].at # "embryo"
        PROVE  p \in Held(queue', current')
    BY <1>1, <1>2, <1>3, <2>1, <2>3 DEF Inv, PlaceInv
  <2> QED BY <2>2, <2>3 DEF PlaceInv
<1>8. LoadInv'
  <2> SUFFICES ASSUME NEW p \in Pid, frame'[p].at = "load", frame'[p].arg # 0
               PROVE  /\ frame'[p].arg \in table'
                      /\ frame'[frame'[p].arg].at = "embryo"
                      /\ ppid'[frame'[p].arg] = p
    BY DEF LoadInv
  <2>1. p # c /\ frame'[p] = frame[p]
    BY <1>1, <1>2, <1>3, FrameFacts
  <2>2. /\ frame[p].arg \in table /\ frame[frame[p].arg].at = "embryo"
        /\ ppid[frame[p].arg] = p
    BY <2>1 DEF Inv, LoadInv
  <2>3. frame[p].arg # c /\ frame[p].arg \in Pid
    BY <2>2, <1>1, <1>3
  <2> QED BY <2>1, <2>2, <2>3, <1>1, <1>2, <1>3
<1>9. KillInv'
  BY <1>1, <1>2 DEF KillInv
<1> QED BY <1>6, <1>7, <1>8, <1>9 DEF Inv

\* sys_process_run adds a process that is not launched yet.
LEMMA RunBeginStep ==
  ASSUME Inv, RunBegin
  PROVE  Inv'
<1> DEFINE c == AllocPid
           f == [at |-> "load", arg |-> c, ticks |-> 0]
<1>1. /\ c \in Pid \ table /\ c \notin Held(queue, current)
      /\ current \in Pid /\ current \in table /\ current # c
      /\ frame[current].at = "user" /\ killstack = << >>
      /\ table' = table \cup {c} /\ ppid' = [ppid EXCEPT ![c] = current]
  BY NewProcess
<1>2. /\ frame' = [frame EXCEPT ![c] = EmbryoFrame, ![current] = f]
      /\ UNCHANGED <<current, queue, kshell, killstack, fault>>
  BY DEF RunBegin, Create
<1>3. f \in Frame /\ f.at = "load" /\ f.arg = c
  <2>1. c \in 0..(MaxPid - 1) /\ 0 \in 0..Forever
    BY <1>1, ConstAssumption DEF Pid, Forever
  <2> QED BY <2>1 DEF Frame
<1> HIDE DEF c, f
<1>4. /\ frame \in [Pid -> Frame] /\ table \subseteq Pid
      /\ ppid \in [Pid -> 0..(MaxPid - 1)]
      /\ Placed(queue, current, table)
  BY DEF Inv, TypeOK, PlaceInv
<1>5. /\ frame' \in [Pid -> Frame] /\ frame'[c] = EmbryoFrame /\ frame'[current] = f
      /\ \A p \in Pid \ {c, current} : frame'[p] = frame[p]
  BY <1>1, <1>2, <1>3, <1>4, FrameFacts
<1>6. TypeOK'
  <2>1. queue' \in Lists
    BY <1>2, <1>4 DEF Placed
  <2> QED BY <1>5, <2>1, CreateTypes
<1>7. PlaceInv'
  <2>1. Placed(queue', current', table')
    BY <1>1, <1>2, <1>4 DEF Placed
  <2>2. ASSUME NEW p \in table', frame'[p].at # "embryo"
        PROVE  p \in Held(queue', current')
    <3>1. p # c /\ p \in table /\ p \in Pid
      BY <1>1, <1>4, <1>5, <2>2, FrameFacts
    <3>2. frame[p].at # "embryo"
      BY <1>1, <1>5, <3>1, <2>2
    <3> QED BY <1>2, <3>1, <3>2 DEF Inv, PlaceInv
  <2> QED BY <2>1, <2>2 DEF PlaceInv
<1>8. LoadInv'
  <2> SUFFICES ASSUME NEW p \in Pid, frame'[p].at = "load", frame'[p].arg # 0
               PROVE  /\ frame'[p].arg \in table'
                      /\ frame'[frame'[p].arg].at = "embryo"
                      /\ ppid'[frame'[p].arg] = p
    BY DEF LoadInv
  <2>1. CASE p = current
    BY <2>1, <1>1, <1>3, <1>4, <1>5, FrameFacts
  <2>2. CASE p # current
    <3>1. p # c /\ frame'[p] = frame[p]
      BY <1>5, <2>2, FrameFacts
    <3> DEFINE d == frame[p].arg
    <3>2. d \in table /\ frame[d].at = "embryo" /\ ppid[d] = p
      BY <3>1 DEF Inv, LoadInv
    <3>3. d # c /\ d # current /\ d \in Pid
      BY <3>2, <1>1, <1>4
    <3>4. frame'[d] = frame[d] /\ ppid'[d] = ppid[d] /\ d \in table'
      BY <3>2, <3>3, <1>1, <1>4, <1>5
    <3> QED BY <3>1, <3>2, <3>4
  <2> QED BY <2>1, <2>2
<1>9. KillInv'
  BY <1>1, <1>2 DEF KillInv
<1> QED BY <1>6, <1>7, <1>8, <1>9 DEF Inv

\* A launch that finds the child dead changes the fault only.
LEMMA RelaunchStep ==
  ASSUME Inv, LoadDone, fault' # fault
  PROVE  Inv'
<1>1. UNCHANGED <<table, kshell, last, wrapped, current, queue, state, ppid,
                  exitreason, waitfor, frame, killstack>> /\ fault' = "relaunch"
  BY DEF LoadDone
<1>2. TypeOK'
  BY <1>1 DEF Inv, TypeOK, Fault
<1>3. Moved /\ FrameKeeps /\ KillInv'
  BY <1>1 DEF Moved, FrameKeeps, Inv, PlaceInv, KillInv
<1> QED BY <1>1, <1>2, <1>3, QuietStep

\* A launch: the child c goes to ready_list, and kshell yields.
LEMMA LaunchLists ==
  ASSUME Inv, LoadDone, fault' = fault
  PROVE  LET c == frame[current].arg IN
           /\ c \in Pid \ {current} /\ c \in table /\ frame[c].at = "embryo"
           /\ ppid[c] = current
           /\ Placed(queue', current', table)
           /\ Held(queue', current') = Held(queue, current) \cup {c}
           /\ \A q \in QueueName \ {"ready"} : Range(queue'[q]) = Range(queue[q])
<1> DEFINE c == frame[current].arg
           L == PushTail(queue, "ready", c)
<1>1. /\ current # Idle /\ current \in Pid /\ frame[current].at = "load"
      /\ fault = "none" /\ c # 0 /\ c \notin Linked(queue)
  BY DEF LoadDone, Loading, Inv, TypeOK
<1>2. c \in table /\ frame[c].at = "embryo" /\ ppid[c] = current
  BY <1>1 DEF Inv, LoadInv
<1>3. c # current /\ c \in Pid
  BY <1>1, <1>2 DEF Inv, TypeOK
<1>4. \/ queue' = L /\ current' = current
      \/ /\ queue' = Rest(PushTail(L, "ready", current))
         /\ current' = Chosen(PushTail(L, "ready", current))
  BY <1>1 DEF LoadDone, SwitchReady, Dispatch
<1>5. /\ queue \in Lists /\ NoDup(queue) /\ current \notin Linked(queue)
      /\ Held(queue, current) \subseteq table
      /\ Held(queue, current) = Linked(queue) \cup {current}
  BY <1>1 DEF Inv, PlaceInv, Placed, Held
<1>6. "ready" \in QueueName
  BY DEF QueueName
<1>7. PushFacts(QueueName, Pid, queue, "ready", c, L)
  <2> HIDE DEF c
  <2> QED BY <1>1, <1>3, <1>5, <1>6, PushLists, Zenon DEF Lists
<1> HIDE DEF c, L
<1>8. /\ L \in Lists /\ NoDup(L) /\ Linked(L) = Linked(queue) \cup {c}
      /\ \A q \in QueueName \ {"ready"} : Range(L[q]) = Range(queue[q])
  BY <1>7 DEF PushFacts, Lists
<1>9. CASE queue' = L /\ current' = current
  <2>1. Held(queue', current') = Held(queue, current) \cup {c}
    BY <1>8, <1>9 DEF Held
  <2>2. Placed(queue', current', table)
    BY <1>1, <1>2, <1>3, <1>5, <1>8, <1>9, <2>1 DEF Placed
  <2> QED BY <1>2, <1>3, <1>8, <1>9, <2>1, <2>2 DEF c
<1>10. CASE /\ queue' = Rest(PushTail(L, "ready", current))
            /\ current' = Chosen(PushTail(L, "ready", current))
  <2>1. current \notin Linked(L)
    BY <1>3, <1>5, <1>8
  <2>2. AwayFacts(L, "ready", current, queue', current')
    BY <1>1, <1>6, <1>8, <1>10, <2>1, SwitchAway
  <2>3. Held(queue', current') = Held(queue, current) \cup {c}
    BY <1>5, <1>8, <2>2 DEF AwayFacts
  <2>4. Placed(queue', current', table)
    BY <1>2, <1>5, <2>2, <2>3 DEF AwayFacts, Placed
  <2>5. \A q \in QueueName \ {"ready"} : Range(queue'[q]) = Range(queue[q])
    BY <1>8, <2>2 DEF AwayFacts
  <2> QED BY <1>2, <1>3, <2>3, <2>4, <2>5 DEF c
<1> QED BY <1>4, <1>9, <1>10

\* The new process was loaded and is launched.
LEMMA LaunchStep ==
  ASSUME Inv, LoadDone, fault' = fault
  PROVE  Inv'
<1> DEFINE c == frame[current].arg
<1>1. /\ c \in Pid \ {current} /\ c \in table /\ frame[c].at = "embryo"
      /\ ppid[c] = current
      /\ Placed(queue', current', table)
      /\ Held(queue', current') = Held(queue, current) \cup {c}
  BY LaunchLists
<1>2. /\ current \in Pid /\ frame[current].at = "load" /\ killstack = << >>
      /\ fault = "none"
  BY DEF LoadDone, Loading, Inv, TypeOK, KillInv
<1>3. UNCHANGED <<table, kshell, last, wrapped, ppid, exitreason, waitfor, killstack,
                  fault>>
  BY DEF LoadDone
<1>4. PICK f \in {UserFrame, [at |-> "scan", arg |-> c, ticks |-> Forever]} :
        frame' = [frame EXCEPT ![c] = UserFrame, ![current] = f]
  BY <1>2 DEF LoadDone
<1>5. f \in Frame /\ f.at \in {"user", "scan"}
  <2>1. c \in 0..(MaxPid - 1) /\ Forever \in 0..Forever
    BY <1>1, ConstAssumption DEF Pid, Forever
  <2>2. [at |-> "scan", arg |-> c, ticks |-> Forever] \in Frame
    BY <2>1 DEF Frame
  <2> QED BY <2>2, FrameFacts
<1>6. state' \in [Pid -> State]
  BY <1>2 DEF LoadDone, SwitchReady, Dispatch, Inv, TypeOK, State
<1> HIDE DEF c
<1>7. frame \in [Pid -> Frame] /\ table \subseteq Pid
  BY DEF Inv, TypeOK
<1>8. /\ frame' \in [Pid -> Frame] /\ frame'[c] = UserFrame /\ frame'[current] = f
      /\ \A p \in Pid \ {c, current} : frame'[p] = frame[p]
  BY <1>1, <1>2, <1>4, <1>5, <1>7, FrameFacts
<1>9. TypeOK'
  BY <1>1, <1>3, <1>6, <1>8 DEF Inv, TypeOK, Placed, Lists
<1>10. PlaceInv'
  <2>1. ASSUME NEW p \in table, frame'[p].at # "embryo"
        PROVE  p \in Held(queue', current')
    <3>1. CASE p = c
      BY <3>1, <1>1
    <3>2. CASE p # c
      <4>1. frame[p].at # "embryo"
        BY <3>2, <2>1, <1>2, <1>7, <1>8
      <4> QED BY <4>1, <1>1 DEF Inv, PlaceInv
    <3> QED BY <3>1, <3>2
  <2> QED BY <1>1, <1>3, <2>1 DEF PlaceInv
<1>11. LoadInv'
  <2> SUFFICES ASSUME NEW p \in Pid, frame'[p].at = "load", frame'[p].arg # 0
               PROVE  /\ frame'[p].arg \in table
                      /\ frame'[frame'[p].arg].at = "embryo"
                      /\ ppid[frame'[p].arg] = p
    BY <1>3 DEF LoadInv
  <2>1. p # c /\ p # current /\ frame'[p] = frame[p]
    BY <1>5, <1>8, FrameFacts
  <2> DEFINE d == frame[p].arg
  <2>2. d \in table /\ frame[d].at = "embryo" /\ ppid[d] = p
    BY <2>1 DEF Inv, LoadInv
  <2>3. d # c /\ d # current /\ d \in Pid
    BY <2>1, <2>2, <1>1, <1>2, <1>7
  <2>4. frame'[d] = frame[d]
    BY <2>3, <1>8
  <2> QED BY <2>1, <2>2, <2>4
<1>12. KillInv'
  BY <1>2, <1>3 DEF KillInv
<1> QED BY <1>9, <1>10, <1>11, <1>12 DEF Inv

-----------------------------------------------------------------------------
(* The theorems *)

\* The invariant is inductive.
LEMMA InvStep ==
  ASSUME Inv, [Next]_vars
  PROVE  Inv'
<1>1. CASE UNCHANGED vars
  BY <1>1 DEF vars, Inv, TypeOK, PlaceInv, LoadInv, KillInv
<1>2. CASE IdleLoop
  BY <1>2, IdleLoopStep
<1>3. CASE SysYield \/ LoadWait \/ SysExec \/ SysBlock
  BY <1>3, YieldStep
<1>4. CASE LoadFail \/ (\E t \in 0..Forever : SysWait(t)) \/ WaitCheck
  BY <1>4, InKernelStep
<1>5. CASE (\E t \in 0..MaxTicks : SysSleep(t)) \/ SleepCheck
  BY <1>5, SleepStep
<1>6. CASE ClockInterrupt \/ DeviceWakeup
  BY <1>6, ClockStep, DeviceStep
<1>7. CASE SysExit
  BY <1>7, ExitStep
<1>8. CASE CreateHalts \/ (\E pid \in 1..MaxPid : SysKill(pid))
  BY <1>8, KillBeginStep
<1>9. CASE KillChild \/ KillSelf
  BY <1>9, KillChildStep, KillSelfStep
<1>10. CASE \E z \in Pid : SysReap(z)
  BY <1>10, ReapingActions, ReapStep
<1>11. CASE WaitScan
  <2>1. CASE Matches = {}
    BY <1>11, <2>1, WaitBlockStep
  <2>2. CASE Matches # {} /\ frame[current].arg = 0
    BY <1>11, <2>2, WaitReturnStep
  <2>3. CASE Matches # {} /\ frame[current].arg # 0
    BY <1>11, <2>3, ReapingActions, ReapStep
  <2> QED BY <2>1, <2>2, <2>3
<1>12. CASE SysFork \/ RunBegin
  BY <1>12, ForkStep, RunBeginStep
<1>13. CASE LoadDone
  BY <1>13, RelaunchStep, LaunchStep
<1> QED BY <1>1, <1>2, <1>3, <1>4, <1>5, <1>6, <1>7, <1>8, <1>9, <1>10, <1>11,
           <1>12, <1>13 DEF Next

\* The inductive invariant holds in every reachable state.
THEOREM Invariance == Spec => []Inv
BY InvInit, InvStep, PTL DEF Spec

\* The fields of struct process, the lists and the pid allocator keep their types:
\* in particular process_allocate_pid never returns 0 or an index outside the
\* process table.
THEOREM TypeCorrect == Spec => []TypeOK
BY Invariance, InvImplies, PTL

\* A process is linked into at most one list, once, and the running process into
\* none, whatever is killed, reaped or woken in whatever order.
THEOREM OnePlaceHolds == Spec => []OnePlace
BY Invariance, InvImplies, PTL

\* No launched process disappears from the processor and from every list.
THEOREM NoneLostHolds == Spec => []NoneLost
BY Invariance, InvImplies, PTL

-----------------------------------------------------------------------------
(* The grave and the waiting parents *)

\* A step that leaves grave_list and grave_watcher_list, and what is recorded of
\* the processes in them, as they are.
GraveQuiet ==
  /\ Range(queue'["grave"]) = Range(queue["grave"])
  /\ Range(queue'["watchers"]) = Range(queue["watchers"])
  /\ UNCHANGED <<table, ppid, exitreason, waitfor>>

\* A switch touches neither the grave list nor the watchers.
LEMMA AwayQuiet ==
  ASSUME Inv, current # Idle,
         \E q \in {"ready", "clock", "device"} :
            /\ queue' = Rest(PushTail(queue, q, current))
            /\ current' = Chosen(PushTail(queue, q, current))
  PROVE  /\ Range(queue'["grave"]) = Range(queue["grave"])
         /\ Range(queue'["watchers"]) = Range(queue["watchers"])
<1>1. PICK q \in {"ready", "clock", "device"} :
            /\ queue' = Rest(PushTail(queue, q, current))
            /\ current' = Chosen(PushTail(queue, q, current))
  OBVIOUS
<1>2. /\ queue \in Lists /\ NoDup(queue) /\ current \in Pid
      /\ current \notin Linked(queue) /\ q \in QueueName
  BY DEF Inv, PlaceInv, Placed, QueueName
<1>3. AwayFacts(queue, q, current, queue', current')
  BY <1>1, <1>2, SwitchAway
<1>4. "grave" \in QueueName /\ "watchers" \in QueueName
  BY DEF QueueName
<1> QED BY <1>3, <1>4 DEF AwayFacts

\* The calls that only switch leave the dead alone.
LEMMA SwitchQuiet ==
  ASSUME Inv, \/ SysYield \/ LoadWait \/ SysExec \/ SysBlock
              \/ (\E t \in 0..MaxTicks : SysSleep(t))
              \/ (SleepCheck /\ frame[current].ticks # 0)
  PROVE  GraveQuiet
<1>1. current # Idle
  BY DEF SysYield, LoadWait, SysExec, SysBlock, SysSleep, SleepCheck, AtProgram,
         AtUser, Loading
<1>2. \E q \in {"ready", "clock", "device"} :
            /\ queue' = Rest(PushTail(queue, q, current))
            /\ current' = Chosen(PushTail(queue, q, current))
  BY DEF SysYield, LoadWait, SysExec, SysBlock, SysSleep, SleepCheck, SwitchReady,
         Block, Dispatch
<1>3. UNCHANGED <<table, ppid, exitreason, waitfor>>
  BY DEF SysYield, LoadWait, SysExec, SysBlock, SysSleep, SleepCheck
<1> QED BY <1>1, <1>2, <1>3, AwayQuiet DEF GraveQuiet

\* Interrupts leave the dead alone.
LEMMA InterruptQuiet ==
  ASSUME Inv, IdleLoop \/ ClockInterrupt \/ DeviceWakeup
  PROVE  GraveQuiet
<1>0. {"grave", "watchers", "ready", "clock", "device"} \subseteq QueueName
  BY DEF QueueName
<1>1. queue \in Lists /\ NoDup(queue)
  BY DEF Inv, PlaceInv, Placed
<1>2. UNCHANGED <<table, ppid, exitreason, waitfor>>
  BY DEF IdleLoop, ClockInterrupt, DeviceWakeup
<1>3. CASE IdleLoop
  <2>1. SwitchFacts(queue, queue', current')
    BY <1>1, <1>3, SwitchLists DEF IdleLoop, Dispatch
  <2> QED BY <1>0, <1>2, <2>1 DEF SwitchFacts, GraveQuiet
<1>4. CASE ClockInterrupt
  <2>1. queue' = [queue EXCEPT !["ready"] = @ \o queue["clock"],
                               !["clock"] = << >>]
    BY <1>4 DEF ClockInterrupt
  <2>2. JoinFacts(QueueName, Pid, queue, "ready", "clock", queue')
    BY <1>0, <1>1, <2>1, JoinLists DEF Lists
  <2> QED BY <1>0, <1>2, <2>2 DEF JoinFacts, GraveQuiet
<1>5. CASE DeviceWakeup
  <2> DEFINE p == Head(queue["device"])
             M == PopHead(queue, "device")
  <2>1. PopFacts(QueueName, Pid, queue, "device", M)
    BY <1>0, <1>1, <1>5, PopLists, Zenon DEF Lists, DeviceWakeup
  <2>2. /\ M \in Lists /\ NoDup(M) /\ p \in Pid /\ p \notin Linked(M)
        /\ \A r \in QueueName : r # "device" => Range(M[r]) = Range(queue[r])
    BY <2>1 DEF PopFacts, Lists
  <2>3. queue' = PushTail(M, "ready", p)
    BY <1>5 DEF DeviceWakeup
  <2> HIDE DEF p, M
  <2>4. PushFacts(QueueName, Pid, M, "ready", p, queue')
    BY <1>0, <2>2, <2>3, PushLists DEF Lists
  <2> QED BY <1>0, <1>2, <2>2, <2>4 DEF PushFacts, GraveQuiet
<1> QED BY <1>3, <1>4, <1>5

\* The other steps that leave all lists alone.
LEMMA OtherQuiet ==
  ASSUME Inv, \/ LoadFail \/ (\E t \in 0..Forever : SysWait(t)) \/ WaitCheck
              \/ (SleepCheck /\ frame[current].ticks = 0)
              \/ (WaitScan /\ Matches # {} /\ frame[current].arg = 0)
              \/ CreateHalts \/ (\E pid \in 1..MaxPid : SysKill(pid)) \/ KillChild
              \/ (LoadDone /\ fault' # fault) \/ UNCHANGED vars
  PROVE  GraveQuiet /\ queue' = queue
<1>1. UNCHANGED <<queue, table, ppid, exitreason, waitfor>>
  BY DEF LoadFail, SysWait, WaitCheck, SleepCheck, WaitScan, CreateHalts, SysKill,
         KillChild, LoadDone, vars, pvars
<1> QED BY <1>1 DEF GraveQuiet

\* Launching a process leaves the dead alone.
LEMMA LaunchQuiet ==
  ASSUME Inv, LoadDone, fault' = fault
  PROVE  GraveQuiet
<1>1. \A q \in QueueName \ {"ready"} : Range(queue'[q]) = Range(queue[q])
  BY LaunchLists
<1>2. UNCHANGED <<table, ppid, exitreason, waitfor>>
  BY DEF LoadDone
<1> QED BY <1>1, <1>2 DEF GraveQuiet, QueueName

\* Every step but these is quiet: exit, the end of process_make_dead, the block
\* of process_wait_child, a reap, a create.
LEMMA QuietOr ==
  ASSUME Inv, [Next]_vars
  PROVE  \/ GraveQuiet
         \/ SysExit \/ KillSelf \/ SysFork \/ RunBegin
         \/ WaitScan /\ Matches = {}
         \/ \E z : \E fr : Reaps(z, fr)
<1>1. CASE \/ SysYield \/ LoadWait \/ SysExec \/ SysBlock
           \/ (\E t \in 0..MaxTicks : SysSleep(t))
           \/ (SleepCheck /\ frame[current].ticks # 0)
  BY <1>1, SwitchQuiet
<1>2. CASE IdleLoop \/ ClockInterrupt \/ DeviceWakeup
  BY <1>2, InterruptQuiet
<1>3. CASE \/ LoadFail \/ (\E t \in 0..Forever : SysWait(t)) \/ WaitCheck
           \/ (SleepCheck /\ frame[current].ticks = 0)
           \/ (WaitScan /\ Matches # {} /\ frame[current].arg = 0)
           \/ CreateHalts \/ (\E pid \in 1..MaxPid : SysKill(pid)) \/ KillChild
           \/ (LoadDone /\ fault' # fault) \/ UNCHANGED vars
  BY <1>3, OtherQuiet
<1>4. CASE LoadDone /\ fault' = fault
  BY <1>4, LaunchQuiet
<1>5. CASE \/ \E z \in Pid : SysReap(z)
           \/ WaitScan /\ Matches # {} /\ frame[current].arg # 0
  BY <1>5, ReapingActions
<1>6. CASE SysExit \/ KillSelf \/ SysFork \/ RunBegin \/ (WaitScan /\ Matches = {})
  BY <1>6
<1> QED BY <1>1, <1>2, <1>3, <1>4, <1>5, <1>6 DEF Next

\* Creation gives fields to a process that is in neither list.
LEMMA CreateQuiet ==
  ASSUME Inv, SysFork \/ RunBegin
  PROVE  /\ Range(queue'["grave"]) = Range(queue["grave"])
         /\ Range(queue'["watchers"]) = Range(queue["watchers"])
         /\ \A p \in Linked(queue) : /\ ppid'[p] = ppid[p] /\ waitfor'[p] = waitfor[p]
                                     /\ exitreason'[p] = exitreason[p]
<1> DEFINE c == AllocPid
<1>1. c \in Pid /\ c \notin Held(queue, current)
  BY NewProcess
<1>2. queue' = queue \/ queue' = PushTail(queue, "ready", c)
  BY DEF SysFork, RunBegin
<1>3. /\ ppid' = [ppid EXCEPT ![c] = current]
      /\ waitfor' = [waitfor EXCEPT ![c] = 0]
      /\ exitreason' = [exitreason EXCEPT ![c] = "NORMAL"]
  BY DEF SysFork, RunBegin, Create
<1> HIDE DEF c
<1>4. queue \in Lists /\ NoDup(queue) /\ c \notin Linked(queue)
  BY <1>1 DEF Inv, PlaceInv, Placed, Held
<1>5. {"grave", "watchers", "ready"} \subseteq QueueName
  BY DEF QueueName
<1>6. CASE queue' = queue
  BY <1>3, <1>4, <1>6, IdleNotLinked DEF Inv, TypeOK
<1>7. CASE queue' = PushTail(queue, "ready", c)
  <2>1. PushFacts(QueueName, Pid, queue, "ready", c, queue')
    BY <1>1, <1>4, <1>5, <1>7, PushLists DEF Lists
  <2>2. /\ Range(queue'["grave"]) = Range(queue["grave"])
        /\ Range(queue'["watchers"]) = Range(queue["watchers"])
    BY <2>1, <1>5 DEF PushFacts
  <2> QED BY <2>2, <1>3, <1>4, IdleNotLinked DEF Inv, TypeOK
<1> QED BY <1>2, <1>6, <1>7

\* What is in grave_list or grave_watcher_list is a pid, linked, and not both, and
\* not the current process.
LEMMA InLists ==
  ASSUME Inv
  PROVE  /\ Range(queue["grave"]) \subseteq Linked(queue)
         /\ Range(queue["watchers"]) \subseteq Linked(queue)
         /\ Linked(queue) \subseteq Pid /\ Linked(queue) \subseteq table
         /\ Range(queue["grave"]) \cap Range(queue["watchers"]) = {}
         /\ current \notin Linked(queue)
<1>1. queue \in Lists /\ NoDup(queue) /\ current \notin Linked(queue)
      /\ Linked(queue) \subseteq table
  BY DEF Inv, PlaceInv, Placed, Held
<1>2. DOMAIN queue = QueueName /\ {"grave", "watchers"} \subseteq QueueName
  BY <1>1 DEF Lists, ListsOver, QueueName
<1>3. /\ Range(queue["grave"]) \subseteq Linked(queue)
      /\ Range(queue["watchers"]) \subseteq Linked(queue)
  BY <1>2 DEF Linked
<1>4. Range(queue["grave"]) \cap Range(queue["watchers"]) = {}
  BY <1>1, <1>2 DEF NoDup
<1> QED BY <1>1, <1>3, <1>4, IdleNotLinked

-----------------------------------------------------------------------------
(* No missed child *)

\* No parent is stranded when the first process runs.
LEMMA StrandedInit ==
  ASSUME Init
  PROVE  NoStrandedParent
BY DEF Init, NoStrandedParent, Range, QueueName

\* Every step leaves a parent either awake or without a dead child to wait for.
LEMMA StrandedStep ==
  ASSUME Inv, NoStrandedParent, [Next]_vars
  PROVE  NoStrandedParent'
<1>0. /\ Range(queue["grave"]) \subseteq Linked(queue)
      /\ Range(queue["watchers"]) \subseteq Linked(queue)
      /\ Linked(queue) \subseteq Pid /\ Linked(queue) \subseteq table
      /\ Range(queue["grave"]) \cap Range(queue["watchers"]) = {}
      /\ current \notin Linked(queue)
  BY InLists
<1>1. CASE GraveQuiet
  BY <1>1 DEF GraveQuiet, NoStrandedParent
<1>2. CASE SysFork \/ RunBegin
  BY <1>0, <1>2, CreateQuiet DEF NoStrandedParent
<1>3. CASE SysExit
  <2> DEFINE par == ppid[current]
  <2>1. /\ current \in Pid
        /\ WakeFacts(WakeupParent(queue))
        /\ AwayFacts(WakeupParent(queue), "grave", current, queue', current')
        /\ ParentWaits(queue) => par \in Pid
    BY <1>3, ExitFacts
  <2>2. /\ Range(queue'["grave"]) = Range(queue["grave"]) \cup {current}
        /\ Range(queue'["watchers"]) = Range(queue["watchers"]) \
              (IF ParentWaits(queue) THEN {par} ELSE {})
    BY <2>1 DEF WakeFacts, AwayFacts, QueueName
  <2>3. /\ ppid' = ppid /\ exitreason' = [exitreason EXCEPT ![current] = "NORMAL"]
        /\ waitfor' = IF ParentWaits(queue) THEN [waitfor EXCEPT ![par] = 0]
                      ELSE waitfor
    BY <1>3 DEF SysExit
  <2> SUFFICES ASSUME NEW p \in Range(queue'["watchers"]),
                      NEW z \in Range(queue'["grave"]),
                      ppid[z] = p, waitfor'[p] \in {0, z}
               PROVE  exitreason'[z] = "KILLED"
    BY <2>3 DEF NoStrandedParent
  <2>4. p \in Range(queue["watchers"]) /\ (ParentWaits(queue) => p # par)
    BY <2>2
  <2>5. waitfor'[p] = waitfor[p]
    BY <2>1, <2>3, <2>4
  <2>6. CASE z = current
    BY <2>4, <2>5, <2>6 DEF ParentWaits
  <2>7. CASE z # current
    <3>1. z \in Range(queue["grave"])
      BY <2>2, <2>7
    <3>2. exitreason[z] = "KILLED"
      BY <2>4, <2>5, <3>1 DEF NoStrandedParent
    <3> QED BY <3>1, <3>2, <2>3, <2>7
  <2> QED BY <2>6, <2>7
<1>4. CASE KillSelf
  <2>1. KillFacts(Top.dead)
    BY <1>4, KillLists
  <2>2. /\ ppid' = ppid /\ waitfor' = waitfor
        /\ exitreason' = [exitreason EXCEPT ![Top.dead] = "KILLED"]
    BY <1>4 DEF KillSelf
  <2>3. exitreason \in [Pid -> Reason] /\ Top.dead \in Pid
    BY <1>4, TopFacts DEF Inv, TypeOK, KillSelf
  <2> QED BY <1>0, <2>1, <2>2, <2>3 DEF KillFacts, NoStrandedParent
<1>5. CASE WaitScan /\ Matches = {}
  <2>1. current \in Pid /\ current # Idle
    BY <1>5 DEF WaitScan, Inv, TypeOK
  <2>2. /\ queue' = Rest(PushTail(queue, "watchers", current))
        /\ current' = Chosen(PushTail(queue, "watchers", current))
        /\ ppid' = ppid /\ exitreason' = exitreason
        /\ waitfor' = [waitfor EXCEPT ![current] = frame[current].arg]
    BY <1>5 DEF WaitScan, Block, Dispatch
  <2>3. AwayFacts(queue, "watchers", current, queue', current')
    <3>1. queue \in Lists /\ NoDup(queue) /\ "watchers" \in QueueName
      BY DEF Inv, PlaceInv, Placed, QueueName
    <3> QED BY <1>0, <2>1, <2>2, <3>1, SwitchAway
  <2>4. /\ Range(queue'["grave"]) = Range(queue["grave"])
        /\ Range(queue'["watchers"]) = Range(queue["watchers"]) \cup {current}
    BY <2>3 DEF AwayFacts, QueueName
  <2>5. \A z \in Range(queue["grave"]) : ppid[z] # current
    BY <1>5 DEF Matches, Range
  <2>6. \A p \in Range(queue["watchers"]) : waitfor'[p] = waitfor[p]
    BY <1>0, <2>1, <2>2 DEF Inv, TypeOK
  <2> QED BY <2>2, <2>4, <2>5, <2>6 DEF NoStrandedParent
<1>6. CASE \E z : \E fr : Reaps(z, fr)
  <2>1. PICK z : \E fr : Reaps(z, fr)
    BY <1>6
  <2>2. PICK fr : Reaps(z, fr)
    BY <2>1
  <2>3. z \in Range(queue["grave"]) /\ queue' = Unlink(queue, z)
    BY <2>2 DEF Reaps, Delete
  <2>4. DeleteFacts(z)
    BY <2>3, DeleteLists
  <2>5. /\ Range(queue'["grave"]) = Range(queue["grave"]) \ {z}
        /\ Range(queue'["watchers"]) = Range(queue["watchers"]) \ {z}
    BY <2>4 DEF DeleteFacts, QueueName
  <2>6. /\ ppid' = [ppid EXCEPT ![z] = 0] /\ waitfor' = [waitfor EXCEPT ![z] = 0]
        /\ exitreason' = [exitreason EXCEPT ![z] = "NORMAL"]
    BY <2>2 DEF Reaps, Delete
  <2>7. \A p \in Pid \ {z} : /\ ppid'[p] = ppid[p] /\ waitfor'[p] = waitfor[p]
                             /\ exitreason'[p] = exitreason[p]
    BY <2>6 DEF Inv, TypeOK
  <2> QED BY <1>0, <2>5, <2>7 DEF NoStrandedParent
<1> QED BY <1>1, <1>2, <1>3, <1>4, <1>5, <1>6, QuietOr

\* A parent that sleeps in process_wait_child has no dead child it would have
\* accepted, other than a killed one.
THEOREM NoStrandedParentHolds == Spec => []NoStrandedParent
<1>1. Inv /\ NoStrandedParent /\ [Next]_vars => (Inv /\ NoStrandedParent)'
  BY InvStep, StrandedStep
<1>2. Init => Inv /\ NoStrandedParent
  BY InvInit, StrandedInit
<1> QED BY <1>1, <1>2, PTL DEF Spec

-----------------------------------------------------------------------------
(* Zombies *)

\* A zombie stays on the grave list until it is removed from the table.
LEMMA ZombieStep ==
  ASSUME Inv, [Next]_vars, NEW z \in Range(queue["grave"])
  PROVE  z \in Range(queue'["grave"]) \/ z \notin table'
<1>0. Range(queue["grave"]) \subseteq Linked(queue)
  BY InLists
<1>1. CASE GraveQuiet
  BY <1>1 DEF GraveQuiet
<1>2. CASE SysFork \/ RunBegin
  BY <1>2, CreateQuiet
<1>3. CASE SysExit
  BY <1>3, ExitFacts DEF WakeFacts, AwayFacts, QueueName
<1>4. CASE KillSelf
  BY <1>4, KillLists DEF KillFacts
<1>5. CASE WaitScan /\ Matches = {}
  <2>1. /\ current \in Pid /\ queue \in Lists /\ NoDup(queue)
        /\ "watchers" \in QueueName /\ current \notin Linked(queue)
    BY <1>5 DEF WaitScan, Inv, TypeOK, PlaceInv, Placed, QueueName
  <2>2. AwayFacts(queue, "watchers", current, queue', current')
    BY <1>5, <2>1, SwitchAway DEF WaitScan, Block, Dispatch
  <2> QED BY <2>2 DEF AwayFacts, QueueName
<1>6. CASE \E y : \E fr : Reaps(y, fr)
  <2>1. PICK y : \E fr : Reaps(y, fr)
    BY <1>6
  <2>2. PICK fr : Reaps(y, fr)
    BY <2>1
  <2>3. y \in Range(queue["grave"]) /\ queue' = Unlink(queue, y)
        /\ table' = table \ {y}
    BY <2>2 DEF Reaps, Delete
  <2>4. DeleteFacts(y)
    BY <2>3, DeleteLists
  <2> QED BY <2>3, <2>4 DEF DeleteFacts, QueueName
<1> QED BY <1>1, <1>2, <1>3, <1>4, <1>5, <1>6, QuietOr

\* Nothing but process_reap takes a process out of the grave: not a wakeup, not a
\* second kill, not the launch of a child that was killed while it was loaded.
THEOREM ZombieStaysHolds == Spec => ZombieStays
<1>1. Inv /\ [Next]_vars =>
        [\A z \in Range(queue["grave"]) :
           z \in Range(queue'["grave"]) \/ z \notin table']_vars
  BY ZombieStep
<1> QED BY <1>1, Invariance, PTL DEF Spec, ZombieStays

-----------------------------------------------------------------------------
(* The recursion of process_make_dead *)

\* While no pid has been used twice, children are younger than their parents, so
\* the activations of process_make_dead work on ever larger pids.
AncestryInv ==
  ~wrapped =>
    /\ \A p \in table : ppid[p] < p /\ p <= last
    /\ \A i \in DOMAIN killstack : killstack[i].dead >= i

\* process_allocate_pid does not return the pid it returned last.
LEMMA AllocNotLast ==
  ASSUME Inv, AllocPid \in Pid
  PROVE  AllocPid # last
<1>1. last \in Nat /\ Above \in SUBSET Nat /\ Below \in SUBSET Nat
  BY ConstAssumption DEF Inv, TypeOK, Pid, Above, Below
<1>2. CASE Above # {}
  <2>1. AllocPid \in Above
    BY <1>1, <1>2, MinIn DEF AllocPid
  <2> QED BY <2>1, <1>1 DEF Above
<1>3. CASE Above = {} /\ Below # {}
  <2>1. AllocPid \in Below
    BY <1>1, <1>3, MinIn DEF AllocPid
  <2> QED BY <2>1, <1>1 DEF Below
<1>4. CASE Above = {} /\ Below = {}
  BY <1>4 DEF AllocPid, Pid
<1> QED BY <1>2, <1>3, <1>4

\* A new process is younger than its parent.
LEMMA AncestryCreate ==
  ASSUME Inv, AncestryInv, SysFork \/ RunBegin
  PROVE  AncestryInv'
<1> DEFINE c == AllocPid
<1>1. /\ c \in Pid \ table /\ current \in Pid /\ current \in table
      /\ killstack = << >> /\ table' = table \cup {c} /\ last' = c
      /\ ppid' = [ppid EXCEPT ![c] = current]
  BY NewProcess
<1>2. c # last
  BY <1>1, AllocNotLast
<1>3. wrapped' = (wrapped \/ c < last) /\ killstack' = killstack
  BY DEF SysFork, RunBegin, Create
<1> HIDE DEF c
<1>4. /\ ppid \in [Pid -> 0..(MaxPid - 1)] /\ table \subseteq Pid /\ last \in Pid
      /\ MaxPid \in Nat
  BY ConstAssumption DEF Inv, TypeOK
<1> SUFFICES ASSUME ~wrapped'
             PROVE  /\ \A p \in table' : ppid'[p] < p /\ p <= last'
                    /\ \A i \in DOMAIN killstack' : killstack'[i].dead >= i
  BY DEF AncestryInv
<1>5. ~wrapped /\ c > last
  <2>1. ~wrapped /\ ~(c < last)
    BY <1>3, Zenon
  <2>2. c \in Nat /\ last \in Nat
    BY <1>1, <1>4 DEF Pid
  <2> QED BY <2>1, <2>2, <1>2
<1>6. \A p \in table : ppid[p] < p /\ p <= last
  BY <1>5 DEF AncestryInv
<1>7. current < c
  BY <1>1, <1>4, <1>5, <1>6 DEF Pid
<1>8. ASSUME NEW p \in table' PROVE ppid'[p] < p /\ p <= last'
  <2>1. CASE p = c
    BY <2>1, <1>1, <1>4, <1>7 DEF Pid
  <2>2. CASE p # c
    BY <2>2, <1>1, <1>4, <1>5, <1>6, <1>8 DEF Pid
  <2> QED BY <2>1, <2>2
<1>9. DOMAIN killstack' = {}
  BY <1>1, <1>3
<1> QED BY <1>8, <1>9

\* process_make_dead descends to a younger process, so its stack is as deep as the table at most.
LEMMA AncestryKill ==
  ASSUME Inv, AncestryInv, KillChild
  PROVE  AncestryInv' /\ (~wrapped /\ MaxDepth >= MaxPid - 1 => fault' # "stack")
<1>0. /\ UNCHANGED <<table, last, wrapped, ppid>> /\ fault = "none"
      /\ killstack # << >> /\ Unvisited # {}
  BY DEF KillChild, pvars
<1> DEFINE n == Min(Unvisited)
           m == Len(killstack)
<1>1. /\ m \in Nat \ {0} /\ DOMAIN killstack = 1..m
      /\ Top = killstack[m]
  BY <1>0, TopFacts DEF Top
<1>2. n \in table /\ n \in Pid /\ ppid[n] = Top.dead
  BY <1>0, NextChild DEF Unvisited
<1>3. ASSUME ~wrapped PROVE n >= m + 1
  <2>1. Top.dead >= m /\ ppid[n] < n
    BY <1>1, <1>2, <1>3 DEF AncestryInv
  <2>2. Top.dead \in Nat /\ n \in Nat
    BY <1>0, <1>2, TopFacts DEF Pid
  <2> QED BY <2>1, <2>2, <1>1, <1>2
<1>4. ASSUME ~wrapped, MaxDepth >= MaxPid - 1 PROVE m # MaxDepth
  <2>1. n >= m + 1
    BY <1>3, <1>4
  <2>2. n <= MaxPid - 1 /\ n \in Nat
    BY <1>2 DEF Pid
  <2> HIDE DEF n, m
  <2> QED BY <2>1, <2>2, <1>1, <1>4, ConstAssumption
<1>5. m # MaxDepth => fault' = "none"
  BY <1>0 DEF KillChild
<1>6. AncestryInv'
  <2>1. CASE m = MaxDepth
    BY <1>0, <2>1 DEF KillChild, AncestryInv
  <2>2. CASE m # MaxDepth
    <3> DEFINE g == [killstack[m] EXCEPT !.next = n + 1]
               k == [killstack EXCEPT ![m] = g]
               f == [dead |-> n, next |-> 1]
    <3>1. killstack' = Append(k, f)
      BY <2>2 DEF KillChild
    <3>2. killstack \in Seq(KillFrame) /\ killstack[m] \in KillFrame
      BY <1>0, <1>1, TopFacts DEF Inv, TypeOK
    <3>3. n + 1 \in 1..MaxPid /\ 1 \in 1..MaxPid
      BY <1>2, ConstAssumption DEF Pid
    <3>4. g \in KillFrame /\ g.dead = killstack[m].dead /\ f \in KillFrame /\ f.dead = n
      BY <3>2, <3>3, <1>2 DEF KillFrame
    <3> HIDE DEF g, f
    <3>5. /\ k \in Seq(KillFrame) /\ Len(k) = m
          /\ \A i \in 1..m : k[i].dead = killstack[i].dead
      <4>1. m \in DOMAIN killstack
        BY <1>1
      <4>2. /\ k \in Seq(KillFrame) /\ Len(k) = Len(killstack)
            /\ \A i \in DOMAIN killstack : k[i].dead = killstack[i].dead
        <5> HIDE DEF m
        <5> QED BY <3>2, <3>4, <4>1
      <4> QED BY <4>2, <1>1
    <3> HIDE DEF k, n
    <3>6. /\ DOMAIN killstack' = 1..(m + 1) /\ killstack'[m + 1] = f
          /\ \A i \in 1..m : killstack'[i] = k[i]
      BY <3>1, <3>4, <3>5, <1>1
    <3> HIDE DEF m
    <3>7. ASSUME ~wrapped, NEW i \in DOMAIN killstack'
          PROVE  killstack'[i].dead >= i
      <4>1. CASE i = m + 1
        BY <4>1, <3>4, <3>6, <1>3, <3>7
      <4>2. CASE i # m + 1
        <5>1. i \in 1..m
          BY <4>2, <3>6, <3>7, <1>1
        <5> QED BY <5>1, <3>5, <3>6, <3>7, <1>1 DEF AncestryInv
      <4> QED BY <4>1, <4>2
    <3> QED BY <3>7, <1>0 DEF AncestryInv
  <2> QED BY <2>1, <2>2
<1> QED BY <1>4, <1>5, <1>6

\* Removing a zombie keeps the order of ages.
LEMMA AncestryReap ==
  ASSUME Inv, AncestryInv, \E z : \E fr : Reaps(z, fr)
  PROVE  AncestryInv' /\ wrapped' = wrapped /\ fault' = fault
<1>1. PICK z : \E fr : Reaps(z, fr)
  OBVIOUS
<1>2. PICK fr : Reaps(z, fr)
  BY <1>1
<1>3. /\ table' = table \ {z} /\ ppid' = [ppid EXCEPT ![z] = 0]
      /\ UNCHANGED <<last, wrapped, killstack, fault>>
  BY <1>2 DEF Reaps, Delete
<1>4. \A p \in table' : p \in table /\ ppid'[p] = ppid[p]
  BY <1>3 DEF Inv, TypeOK
<1> QED BY <1>3, <1>4 DEF AncestryInv

\* Returning from a level of process_make_dead keeps the order of ages.
LEMMA AncestryPop ==
  ASSUME Inv, AncestryInv, KillSelf
  PROVE  AncestryInv'
<1>1. UNCHANGED <<table, last, wrapped, ppid>> /\ killstack # << >>
  BY DEF KillSelf
<1>2. CASE killstack' = << >>
  BY <1>1, <1>2 DEF AncestryInv
<1>3. CASE killstack' = SubSeq(killstack, 1, Len(killstack) - 1)
  <2>1. killstack \in Seq(KillFrame) /\ Len(killstack) - 1 \in Nat
    BY <1>1, TopFacts DEF Inv, TypeOK
  <2>2. \A i \in DOMAIN killstack' :
           i \in DOMAIN killstack /\ killstack'[i] = killstack[i]
    BY <1>3, <2>1
  <2> QED BY <1>1, <2>2 DEF AncestryInv
<1> QED BY <1>2, <1>3 DEF KillSelf

\* process_make_dead begins with one level.
LEMMA AncestryBegin ==
  ASSUME Inv, AncestryInv, NEW pid \in 1..MaxPid, SysKill(pid)
  PROVE  AncestryInv'
<1>1. UNCHANGED <<table, last, wrapped, ppid>>
  BY DEF SysKill, pvars
<1>2. CASE killstack' = killstack
  BY <1>1, <1>2 DEF AncestryInv
<1>3. CASE pid \in table /\ killstack' = <<[dead |-> pid, next |-> 1]>>
  <2>1. DOMAIN killstack' = {1} /\ killstack'[1].dead = pid /\ pid >= 1
    BY <1>3
  <2> QED BY <1>1, <2>1 DEF AncestryInv
<1> QED BY <1>2, <1>3 DEF SysKill

\* Every step keeps the order of ages, and the stack of process_make_dead within its bound.
LEMMA AncestryStep ==
  ASSUME Inv, AncestryInv, KillFitsStack, [Next]_vars
  PROVE  AncestryInv' /\ KillFitsStack'
<1>1. CASE SysFork \/ RunBegin
  <2>1. fault' = fault /\ (wrapped => wrapped')
    BY <1>1 DEF SysFork, RunBegin, Create
  <2> QED BY <1>1, <2>1, AncestryCreate DEF KillFitsStack
<1>2. CASE KillChild
  <2>1. wrapped' = wrapped
    BY <1>2 DEF KillChild
  <2> QED BY <1>2, <2>1, AncestryKill DEF KillFitsStack
<1>3. CASE \E z : \E fr : Reaps(z, fr)
  BY <1>3, AncestryReap DEF KillFitsStack
<1>4. CASE KillSelf
  BY <1>4, AncestryPop DEF KillSelf, KillFitsStack
<1>5. CASE \E pid \in 1..MaxPid : SysKill(pid)
  <2>1. wrapped' = wrapped /\ (fault' = fault \/ fault' = "wild")
    BY <1>5 DEF SysKill
  <2>2. AncestryInv'
    BY <1>5, AncestryBegin
  <2> QED BY <2>1, <2>2 DEF KillFitsStack
<1>6. CASE /\ UNCHANGED <<table, last, wrapped, ppid, killstack>>
           /\ fault' \in {fault, "memory", "relaunch"}
  BY <1>6 DEF AncestryInv, KillFitsStack
<1>7. CASE \/ SysYield \/ LoadWait \/ SysExec \/ SysBlock \/ IdleLoop
           \/ (\E t \in 0..MaxTicks : SysSleep(t)) \/ SleepCheck
           \/ ClockInterrupt \/ DeviceWakeup \/ UNCHANGED vars
  <2>1. UNCHANGED <<table, last, wrapped, ppid, killstack, fault>>
    BY <1>7 DEF SysYield, LoadWait, SysExec, SysBlock, IdleLoop, SysSleep, SleepCheck,
                ClockInterrupt, DeviceWakeup, vars
  <2> QED BY <2>1, <1>6
<1>8. CASE \/ LoadFail \/ (\E t \in 0..Forever : SysWait(t)) \/ WaitCheck
           \/ SysExit \/ CreateHalts \/ LoadDone
  <2>1. /\ UNCHANGED <<table, last, wrapped, ppid, killstack>>
        /\ fault' \in {fault, "memory", "relaunch"}
    BY <1>8 DEF LoadFail, SysWait, WaitCheck, SysExit, CreateHalts, LoadDone, pvars
  <2> QED BY <2>1, <1>6
<1>9. CASE WaitScan /\ ~(Matches # {} /\ frame[current].arg # 0)
  <2>1. UNCHANGED <<table, last, wrapped, ppid, killstack, fault>>
    BY <1>9 DEF WaitScan
  <2> QED BY <2>1, <1>6
<1>10. CASE \/ \E z \in Pid : SysReap(z)
            \/ WaitScan /\ Matches # {} /\ frame[current].arg # 0
  BY <1>10, <1>3, ReapingActions
<1> QED BY <1>1, <1>2, <1>4, <1>5, <1>7, <1>8, <1>9, <1>10 DEF Next

\* Until the pids wrap around, a kernel stack with room for one activation of
\* process_make_dead per pid is deep enough for every kill.
THEOREM KillFitsStackHolds == Spec => []KillFitsStack
<1>1. Init => Inv /\ AncestryInv /\ KillFitsStack
  <2>1. Init => AncestryInv /\ KillFitsStack
    BY ConstAssumption DEF Init, AncestryInv, KillFitsStack, Pid
  <2> QED BY <2>1, InvInit
<1>2. Inv /\ AncestryInv /\ KillFitsStack /\ [Next]_vars =>
        (Inv /\ AncestryInv /\ KillFitsStack)'
  BY InvStep, AncestryStep
<1> QED BY <1>1, <1>2, PTL DEF Spec

-----------------------------------------------------------------------------
(* What a kill has visited *)

Children(d) == {c \in table : ppid[c] = d}
Buried(r) == Family(r) \subseteq Range(queue["grave"])

\* The children an activation of process_make_dead has passed are in the grave
\* with all of their descendants, but for the child the next activation works on.
\* Families may be cyclic, since pids come back.
VisitInv ==
  \A i \in DOMAIN killstack : \A c \in Children(killstack[i].dead) :
    c < killstack[i].next =>
      \/ i < Len(killstack) /\ c = killstack[i + 1].dead
      \/ Buried(c)

\* A family is its founder and the families of the founder's children.
LEMMA FamilyOf ==
  ASSUME NEW d \in table, NEW p \in Family(d)
  PROVE  p = d \/ \E c \in Children(d) : p \in Family(c)
<1> DEFINE S == {d} \cup {q \in table : \E c \in Children(d) : q \in Family(c)}
<1>1. S \in SUBSET table /\ d \in S
  OBVIOUS
<1>2. ASSUME NEW c \in table, ppid[c] \in S PROVE c \in S
  <2>1. CASE ppid[c] = d
    <3>1. c \in Children(d) /\ c \in Family(c)
      BY <2>1 DEF Children, Family
    <3> QED BY <3>1
  <2>2. CASE \E b \in Children(d) : ppid[c] \in Family(b)
    <3>1. PICK b \in Children(d) : ppid[c] \in Family(b)
      BY <2>2
    <3>2. c \in Family(b)
      BY <3>1 DEF Family
    <3> QED BY <3>1, <3>2
  <2> QED BY <1>2, <2>1, <2>2
<1> HIDE DEF S
<1>3. p \in S
  BY <1>1, <1>2 DEF Family
<1> QED BY <1>3 DEF S

\* During a kill nothing but the kill goes on.
LEMMA KillGoesOn ==
  ASSUME Inv, killstack # << >>, Next
  PROVE  KillChild \/ KillSelf
<1>1. current # Idle /\ frame[current].at = "user"
  BY DEF Inv, KillInv
<1>2. ~AtUser /\ ~AtProgram /\ ~Loading
  BY <1>1 DEF AtUser, AtProgram, Loading
<1>3. /\ ~SysYield /\ ~SysExec /\ ~SysFork /\ ~CreateHalts /\ ~RunBegin /\ ~SysExit
      /\ ~SysBlock /\ ~(\E pid \in 1..MaxPid : SysKill(pid))
      /\ ~(\E z \in Pid : SysReap(z)) /\ ~(\E t \in 0..Forever : SysWait(t))
      /\ ~(\E t \in 0..MaxTicks : SysSleep(t))
  BY <1>2 DEF SysYield, SysExec, SysFork, CreateHalts, RunBegin, SysExit, SysBlock,
              SysKill, SysReap, SysWait, SysSleep
<1>4. /\ ~IdleLoop /\ ~LoadWait /\ ~LoadFail /\ ~LoadDone
      /\ ~WaitScan /\ ~WaitCheck /\ ~SleepCheck /\ ~ClockInterrupt /\ ~DeviceWakeup
  BY <1>1, <1>2 DEF IdleLoop, LoadWait, LoadFail, LoadDone, WaitScan, WaitCheck,
                    SleepCheck, ClockInterrupt, DeviceWakeup
<1> QED BY <1>3, <1>4 DEF Next

\* process_make_dead descends to a child it has not visited.
LEMMA VisitChild ==
  ASSUME Inv, VisitInv, KillChild
  PROVE  VisitInv' /\ killstack' # << >>
<1>0. /\ UNCHANGED <<table, ppid, queue>> /\ killstack # << >> /\ Unvisited # {}
  BY DEF KillChild, pvars
<1>1. /\ \A r : Buried(r)' <=> Buried(r)
      /\ \A r : Children(r)' = Children(r)
  BY <1>0 DEF Buried, Family, Children
<1> DEFINE n == Min(Unvisited)
           m == Len(killstack)
<1>2. /\ m \in Nat \ {0} /\ DOMAIN killstack = 1..m /\ Top = killstack[m]
      /\ killstack \in Seq(KillFrame) /\ killstack[m] \in KillFrame
  BY <1>0, TopFacts DEF Top, Inv, TypeOK
<1>3. /\ n \in Unvisited /\ n \in Pid /\ \A c \in Unvisited : n <= c
  <2>1. Unvisited \subseteq table /\ table \subseteq Pid /\ Pid \subseteq Nat
    BY DEF Unvisited, Inv, TypeOK, Pid
  <2>2. Unvisited \in SUBSET Nat
    BY <2>1
  <2> QED BY <1>0, <2>2, NextChild, MinIn
<1>4. CASE killstack' = killstack
  <2>1. VisitInv'
    BY <1>0, <1>1, <1>4 DEF VisitInv
  <2> QED BY <2>1, <1>0, <1>4
<1>5. CASE killstack' # killstack
  <2> DEFINE g == [killstack[m] EXCEPT !.next = n + 1]
             k == [killstack EXCEPT ![m] = g]
             f == [dead |-> n, next |-> 1]
  <2>1. killstack' = Append(k, f)
    BY <1>5 DEF KillChild
  <2>2. n + 1 \in 1..MaxPid /\ 1 \in 1..MaxPid
    BY <1>3, ConstAssumption DEF Pid
  <2>3. /\ g \in KillFrame /\ g.dead = killstack[m].dead /\ g.next = n + 1
        /\ f \in KillFrame /\ f.dead = n /\ f.next = 1
    BY <1>2, <1>3, <2>2 DEF KillFrame
  <2> HIDE DEF g, f
  <2>4. /\ k \in Seq(KillFrame) /\ Len(k) = m /\ k[m] = g
        /\ \A i \in 1..m : i # m => k[i] = killstack[i]
    <3>1. m \in DOMAIN killstack
      BY <1>2
    <3>2. /\ k \in Seq(KillFrame) /\ Len(k) = Len(killstack) /\ k[m] = g
          /\ \A i \in DOMAIN killstack : i # m => k[i] = killstack[i]
      <4> HIDE DEF m
      <4> QED BY <1>2, <2>3, <3>1
    <3> HIDE DEF k
    <3> QED BY <3>2, <1>2
  <2> HIDE DEF k
  <2>5. /\ DOMAIN killstack' = 1..(m + 1) /\ Len(killstack') = m + 1
        /\ killstack'[m + 1] = f
        /\ \A i \in 1..m : killstack'[i] = k[i]
    BY <2>1, <2>3, <2>4, <1>2
  <2> HIDE DEF m, n
  <2> SUFFICES ASSUME NEW i \in DOMAIN killstack',
                      NEW c \in Children(killstack'[i].dead), c < killstack'[i].next
               PROVE  \/ i < Len(killstack') /\ c = killstack'[i + 1].dead
                      \/ Buried(c)
    <3>1. killstack' # << >>
      BY <2>5, <1>2
    <3> QED BY <3>1, <1>1 DEF VisitInv
  <2>6. c \in table /\ c \in Nat /\ ppid[c] = killstack'[i].dead
    BY DEF Children, Inv, TypeOK, Pid
  <2>7. CASE i = m + 1
    <3>1. FALSE
      BY <2>3, <2>5, <2>6, <2>7 DEF Inv, TypeOK, Pid, Children
    <3> QED BY <3>1
  <2>8. CASE i = m
    <3>1. killstack'[i] = g /\ killstack'[i + 1] = f /\ i < Len(killstack')
      BY <1>2, <2>4, <2>5, <2>8
    <3>2. CASE c = n
      BY <2>3, <3>1, <3>2
    <3>3. CASE c # n
      <4>1. c < n /\ c \in Children(killstack[m].dead)
        BY <1>3, <2>3, <2>6, <3>1, <3>3 DEF Pid, Children
      <4>2. c < killstack[m].next
        <5>1. c \notin Unvisited
          BY <1>3, <2>6, <4>1 DEF Pid
        <5>2. killstack[m].next \in Nat
          BY <1>2, ConstAssumption DEF KillFrame
        <5> QED BY <1>2, <2>6, <4>1, <5>1, <5>2 DEF Unvisited, Children
      <4>3. m \in DOMAIN killstack /\ ~(m < Len(killstack))
        BY <1>2 DEF m
      <4> QED BY <4>1, <4>2, <4>3 DEF VisitInv
    <3> QED BY <3>2, <3>3
  <2>9. CASE i \in 1..(m - 1)
    <3>1. /\ killstack'[i] = killstack[i] /\ i \in DOMAIN killstack
          /\ killstack'[i + 1].dead = killstack[i + 1].dead
          /\ i < Len(killstack')
      BY <1>2, <2>3, <2>4, <2>5, <2>9
    <3>2. \/ i < Len(killstack) /\ c = killstack[i + 1].dead
          \/ Buried(c)
      BY <3>1 DEF VisitInv
    <3> QED BY <3>1, <3>2
  <2> QED BY <1>2, <2>5, <2>7, <2>8, <2>9
<1> QED BY <1>4, <1>5

\* What an activation leaves behind when it returns.
LEMMA VisitSelf ==
  ASSUME Inv, VisitInv, KillSelf
  PROVE  /\ VisitInv'
         /\ killstack' = << >> /\ current' = current
              => Family(killstack[1].dead) \subseteq Range(queue'["grave"])
<1> DEFINE d == Top.dead
           m == Len(killstack)
<1>0. UNCHANGED <<table, ppid>> /\ killstack # << >> /\ Unvisited = {}
  BY DEF KillSelf
<1>1. /\ m \in Nat \ {0} /\ DOMAIN killstack = 1..m /\ Top = killstack[m]
      /\ killstack \in Seq(KillFrame) /\ killstack[m] \in KillFrame
      /\ d = killstack[m].dead /\ d \in table
  BY <1>0, TopFacts DEF Top, Inv, TypeOK
<1>2. KillFacts(d)
  BY KillLists
<1> HIDE DEF d
<1>3. Range(queue'["grave"]) = Range(queue["grave"]) \cup {d}
  BY <1>2 DEF KillFacts
<1>4. /\ \A r : Buried(r) => Buried(r)'
      /\ \A r : Children(r)' = Children(r)
  BY <1>0, <1>3 DEF Buried, Family, Children
<1>5. Family(d) \subseteq Range(queue'["grave"])
  <2>1. ASSUME NEW c \in Children(d) PROVE Buried(c)
    <3>1. c \in table /\ c \in Nat /\ ppid[c] = d /\ killstack[m].next \in Nat
      BY <1>1, ConstAssumption DEF Children, Inv, TypeOK, Pid, KillFrame
    <3>2. c < killstack[m].next
      <4>1. c \notin Unvisited
        BY <1>0
      <4> QED BY <1>1, <3>1, <4>1 DEF Unvisited
    <3>3. m \in DOMAIN killstack /\ ~(m < Len(killstack))
      BY <1>1 DEF m
    <3> QED BY <1>1, <3>2, <3>3 DEF VisitInv
  <2> QED BY <1>1, <1>3, <2>1, FamilyOf DEF Buried
<1>6. CASE d = current
  <2>1. killstack' = << >>
    BY <1>6 DEF KillSelf, d
  <2>2. current' # current
    <3>1. /\ Placed(queue', current', table) /\ current \in Range(queue'["grave"])
          /\ "grave" \in QueueName /\ current # Idle
      BY <1>0, <1>2, <1>6 DEF KillFacts, QueueName, Inv, KillInv
    <3>2. current' \notin Linked(queue')
      BY <3>1, IdleNotLinked DEF Placed
    <3>3. current \in Linked(queue')
      BY <3>1 DEF Placed, Linked, Lists, ListsOver
    <3> QED BY <3>2, <3>3
  <2>3. VisitInv'
    BY <2>1 DEF VisitInv
  <2> QED BY <2>2, <2>3
<1>7. CASE d # current
  <2>1. killstack' = SubSeq(killstack, 1, m - 1) /\ current' = current
    BY <1>7 DEF KillSelf, d
  <2> HIDE DEF m
  <2>2. /\ DOMAIN killstack' = 1..(m - 1) /\ Len(killstack') = m - 1
        /\ \A i \in 1..(m - 1) : killstack'[i] = killstack[i]
    BY <1>1, <2>1
  <2>3. CASE m = 1
    <3>1. killstack[1].dead = d /\ VisitInv'
      BY <1>1, <2>2, <2>3 DEF VisitInv
    <3> QED BY <3>1, <1>5
  <2>4. CASE m # 1
    <3>1. killstack' # << >>
      BY <1>1, <2>2, <2>4
    <3>2. ASSUME NEW i \in DOMAIN killstack',
                 NEW c \in Children(killstack'[i].dead), c < killstack'[i].next
          PROVE  \/ i < Len(killstack') /\ c = killstack'[i + 1].dead
                 \/ Buried(c)'
      <4>1. i \in DOMAIN killstack /\ killstack'[i] = killstack[i]
        BY <1>1, <2>2
      <4>2. \/ i < Len(killstack) /\ c = killstack[i + 1].dead
            \/ Buried(c)
        BY <3>2, <4>1 DEF VisitInv
      <4>3. CASE Buried(c)
        BY <4>3, <1>4
      <4>4. CASE i = m - 1 /\ c = killstack[i + 1].dead
        <5>1. c = d
          BY <4>4, <1>1
        <5> QED BY <5>1, <1>0, <1>5 DEF Buried, Family
      <4>5. CASE i # m - 1 /\ c = killstack[i + 1].dead
        BY <4>5, <1>1, <2>2
      <4> QED BY <4>2, <4>3, <4>4, <4>5
    <3>3. VisitInv'
      BY <1>4, <3>2 DEF VisitInv
    <3> QED BY <3>1, <3>3
  <2> QED BY <2>3, <2>4
<1> QED BY <1>6, <1>7

\* process_make_dead begins with nothing visited.
LEMMA VisitBegin ==
  ASSUME Inv, killstack = << >>, [Next]_vars
  PROVE  VisitInv'
<1>1. CASE killstack' = << >>
  BY <1>1 DEF VisitInv
<1>2. CASE \E pid \in table : killstack' = <<[dead |-> pid, next |-> 1]>>
  <2>1. PICK pid \in table : killstack' = <<[dead |-> pid, next |-> 1]>>
    BY <1>2
  <2>2. DOMAIN killstack' = {1} /\ killstack'[1].next = 1
    BY <2>1
  <2>3. table' \subseteq Pid
    BY InvStep DEF Inv, TypeOK
  <2> QED BY <2>2, <2>3 DEF VisitInv, Children, Pid
<1>3. CASE \E pid \in 1..MaxPid : SysKill(pid)
  BY <1>1, <1>2, <1>3 DEF SysKill
<1>4. CASE SysFork \/ RunBegin \/ CreateHalts \/ SysExit \/ (\E z \in Pid : SysReap(z))
  BY <1>1, <1>4 DEF SysFork, RunBegin, CreateHalts, SysExit, SysReap
<1>5. CASE \/ SysYield \/ SysExec \/ SysBlock \/ IdleLoop \/ SleepCheck
           \/ (\E t \in 0..MaxTicks : SysSleep(t)) \/ (\E t \in 0..Forever : SysWait(t))
           \/ ClockInterrupt \/ DeviceWakeup \/ UNCHANGED vars
  BY <1>1, <1>5 DEF SysYield, SysExec, SysBlock, IdleLoop, SleepCheck, SysSleep, SysWait,
                    ClockInterrupt, DeviceWakeup, vars
<1>6. CASE LoadWait \/ LoadFail \/ LoadDone \/ WaitScan \/ WaitCheck
  BY <1>1, <1>6 DEF LoadWait, LoadFail, LoadDone, WaitScan, WaitCheck
<1>7. ~KillChild /\ ~KillSelf
  BY DEF KillChild, KillSelf
<1> QED BY <1>3, <1>4, <1>5, <1>6, <1>7 DEF Next

\* The action that KillComplete is about.
KillReturns ==
  killstack # << >> /\ killstack' = << >> /\ current' = current
    => Family(killstack[1].dead) \subseteq Range(queue'["grave"])

\* Every step keeps what process_make_dead has visited, and it returns when all are dead.
LEMMA VisitStep ==
  ASSUME Inv, VisitInv, [Next]_vars
  PROVE  VisitInv' /\ KillReturns
<1>1. CASE killstack = << >>
  BY <1>1, VisitBegin DEF KillReturns
<1>2. CASE killstack # << >> /\ Next
  <2>1. CASE KillChild
    BY <2>1, VisitChild DEF KillReturns
  <2>2. CASE KillSelf
    BY <2>2, VisitSelf DEF KillReturns
  <2> QED BY <1>2, <2>1, <2>2, KillGoesOn
<1>3. CASE killstack # << >> /\ UNCHANGED vars
  BY <1>3 DEF vars, VisitInv, Children, Buried, Family, KillReturns
<1> QED BY <1>1, <1>2, <1>3

\* A process_make_dead that returns to its caller has put the process and all of its
\* descendants into the grave, cyclic families and zombies visited twice included.
THEOREM KillCompleteHolds == Spec => KillComplete
<1>1. Init => Inv /\ VisitInv
  <2>1. Init => VisitInv
    BY DEF Init, VisitInv
  <2> QED BY <2>1, InvInit
<1>2. Inv /\ VisitInv /\ [Next]_vars => (Inv /\ VisitInv)' /\ [KillReturns]_vars
  BY InvStep, VisitStep
<1>3. KillComplete <=> [][KillReturns]_vars
  BY PTL DEF KillComplete, KillReturns
<1> QED BY <1>1, <1>2, <1>3, PTL DEF Spec
=============================================================================
