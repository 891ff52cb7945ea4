------------------------------ MODULE Process ------------------------------
(***************************************************************************)
(* Processes of the kernel: kernel/process.c, the process system calls of  *)
(* kernel/syscall_handler.c, clock_wait and the clock interrupt of         *)
(* kernel/clock.c, and the process commands of kernel/kshell.c.            *)
(*                                                                         *)
(* The machine has one processor.  System calls enter through interrupt    *)
(* gates and allow_preempt is never set, so a process runs until it yields,*)
(* blocks, exits or dies; only interrupt handlers come in between.  An     *)
(* action is what the current process does up to the point where it either *)
(* returns to its program or calls process_switch.  A call that continues  *)
(* after process_switch leaves its local variables in frame[p], the part   *)
(* of the kernel stack that matters.                                       *)
(***************************************************************************)
EXTENDS KList, FiniteSets, FiniteSetsExt

CONSTANTS
  MaxPid,      \* PROCESS_MAX_PID, the size of process_table
  MaxProcs,    \* how many processes fit in memory before page_alloc halts
  MaxDepth,    \* activations of process_make_dead that fit on a kernel stack
  MaxTicks,    \* longest timeout or sleep, in clock interrupts
  LoadYields   \* TRUE when program images are read from disk, which yields

ASSUME ConstAssumption ==
  /\ MaxPid \in Nat /\ MaxProcs \in Nat \ {0} /\ MaxProcs <= MaxPid - 2
  /\ MaxDepth \in Nat \ {0}
  /\ MaxTicks \in Nat
  /\ LoadYields \in BOOLEAN

Pid == 1..(MaxPid - 1)
Idle == 0                     \* current = 0: process_switch waits for work
Forever == MaxTicks + 1       \* timeout < 0
QueueName == {"ready", "grave", "watchers", "clock", "device"}
State == {"CRADLE", "READY", "RUNNING", "BLOCKED", "GRAVE"}
Reason == {"NORMAL", "KILLED"}

(***************************************************************************)
(* Where a process continues when it next runs:                            *)
(*   embryo  created, never launched         user   in its program         *)
(*   load    in loader_load_process for the child arg (0: the child was    *)
(*           freed under it)                                               *)
(*   scan    at the top of the loop of process_wait_child(arg)             *)
(*   check   after process_wait in that loop                               *)
(*   sleep   after process_wait in the loop of clock_wait                  *)
(* ticks is the time left until the deadline of the call.                  *)
(***************************************************************************)
Frame == [at : {"embryo", "user", "load", "scan", "check", "sleep"},
          arg : 0..(MaxPid - 1), ticks : 0..Forever]
UserFrame == [at |-> "user", arg |-> 0, ticks |-> 0]
EmbryoFrame == [at |-> "embryo", arg |-> 0, ticks |-> 0]

VARIABLES
  table,      \* the pids whose entry of process_table is not null
  last,       \* the static variable of process_allocate_pid
  wrapped,    \* history: process_allocate_pid has wrapped around
  current,    \* pid of the current process, or Idle
  kshell,     \* process 1 is still the kernel shell it is created as
  queue,      \* the lists processes wait in
  state, ppid, exitreason, waitfor, frame,    \* fields of struct process
  killstack,  \* activations of process_make_dead, innermost last
  fault       \* why the kernel has stopped behaving, or "none"

pvars == <<state, ppid, exitreason, waitfor, frame>>
vars == <<table, last, wrapped, current, kshell, queue, state, ppid, exitreason,
          waitfor, frame, killstack, fault>>

KillFrame == [dead : Pid, next : 1..MaxPid]
Fault == {"none", "memory", "stack", "relaunch", "wild"}

TypeOK ==
  /\ table \in SUBSET Pid
  /\ last \in Pid
  /\ wrapped \in BOOLEAN
  /\ current \in {Idle} \cup Pid
  /\ kshell \in BOOLEAN
  /\ queue \in ListsOver(QueueName, Pid)
  /\ state \in [Pid -> State]
  /\ ppid \in [Pid -> 0..(MaxPid - 1)]
  /\ exitreason \in [Pid -> Reason]
  /\ waitfor \in [Pid -> 0..(MaxPid - 1)]
  /\ frame \in [Pid -> Frame]
  /\ killstack \in Seq(KillFrame)
  /\ fault \in Fault

\* process_init creates process 1, which goes on to run the kernel shell.
Init ==
  /\ table = {1} /\ last = 1 /\ wrapped = FALSE
  /\ current = 1 /\ kshell = TRUE
  /\ queue = [q \in QueueName |-> << >>]
  /\ state = [p \in Pid |-> IF p = 1 THEN "READY" ELSE "CRADLE"]
  /\ ppid = [p \in Pid |-> 0]
  /\ exitreason = [p \in Pid |-> "NORMAL"]
  /\ waitfor = [p \in Pid |-> 0]
  /\ frame = [p \in Pid |-> UserFrame]
  /\ killstack = << >>
  /\ fault = "none"

IsKshell(p) == p = 1 /\ kshell

\* The current process is in its program (or kshell is at its prompt).
AtUser ==
  /\ fault = "none" /\ killstack = << >>
  /\ current # Idle /\ frame[current].at = "user"
AtProgram == AtUser /\ ~IsKshell(current)

-----------------------------------------------------------------------------
(* Scheduling *)

\* The end of process_switch: take the head of ready_list, or go idle.
Chosen(L) == IF L["ready"] = << >> THEN Idle ELSE Head(L["ready"])
Rest(L) == IF L["ready"] = << >> THEN L ELSE PopHead(L, "ready")
Dispatch(L, st) ==
  /\ current' = Chosen(L)
  /\ queue' = Rest(L)
  /\ state' = [p \in Pid |-> IF p = Chosen(L) THEN "RUNNING" ELSE st[p]]

\* process_switch(READY) as process_yield calls it, on the lists L and states st.
SwitchReady(L, st) ==
  Dispatch(PushTail(L, "ready", current), [st EXCEPT ![current] = "READY"])

\* process_wait(q): queue the current process on q and switch away from it.
Block(q) ==
  Dispatch(PushTail(queue, q, current), [state EXCEPT ![current] = "BLOCKED"])

\* The idle loop of process_switch finds that an interrupt made work.
IdleLoop ==
  /\ fault = "none" /\ current = Idle /\ queue["ready"] # << >>
  /\ Dispatch(queue, state)
  /\ UNCHANGED <<table, kshell, last, wrapped, ppid, exitreason, waitfor, frame,
                 killstack, fault>>

SysYield ==
  /\ AtUser
  /\ SwitchReady(queue, state)
  /\ UNCHANGED <<table, kshell, last, wrapped, ppid, exitreason, waitfor, frame,
                 killstack, fault>>

-----------------------------------------------------------------------------
(* Creation: process_create, fork, run *)

\* process_allocate_pid: scan upwards from last, then from 1 up to last.
\* Mutant: the bound the comment above process_allocate_pid gives.
Above_Inclusive == {i \in (last + 1)..MaxPid : i \notin table}
Above == {i \in (last + 1)..(MaxPid - 1) : i \notin table}
Below == {i \in 1..(last - 1) : i \notin table}
AllocPid == IF Above # {} THEN Min(Above)
            ELSE IF Below # {} THEN Min(Below) ELSE 0

\* Mutant: child->ppid = child->pid.
Create_OwnParent(c, par, f) ==
  /\ Cardinality(table) < MaxProcs
  /\ table' = table \cup {c}
  /\ last' = c
  /\ wrapped' = (wrapped \/ c < last)
  /\ ppid' = [ppid EXCEPT ![c] = c]
  /\ UNCHANGED <<exitreason, waitfor>>
  /\ frame' = f

\* process_create and process_inherit: enter the zeroed struct process of a
\* child c of the current process in the table, linked into no list.
Create(c, par, f) ==
  /\ Cardinality(table) < MaxProcs
  /\ table' = table \cup {c}
  /\ last' = IF c = 0 THEN last ELSE c
  /\ wrapped' = (wrapped \/ c < last)
  /\ ppid' = [ppid EXCEPT ![c] = par]
  /\ exitreason' = [exitreason EXCEPT ![c] = "NORMAL"]
  /\ waitfor' = [waitfor EXCEPT ![c] = 0]
  /\ frame' = f

\* process_create when memory is used up: page_alloc halts the machine.
CreateHalts ==
  /\ AtUser /\ Cardinality(table) = MaxProcs
  /\ fault' = "memory"
  /\ UNCHANGED <<table, kshell, last, wrapped, current, queue, pvars, killstack>>

\* The child resumes in its program at once: the copied stack returns there.
SysFork ==
  /\ AtProgram
  /\ LET c == AllocPid IN
       /\ Create(c, current, [frame EXCEPT ![c] = UserFrame])
       /\ state' = [state EXCEPT ![c] = "READY"]
       /\ queue' = PushTail(queue, "ready", c)
  /\ UNCHANGED <<current, kshell, killstack, fault>>

\* sys_process_run and sys_process_wrun up to the first read of the image.
RunBegin ==
  /\ AtUser
  /\ LET c == AllocPid IN
       /\ Create(c, current,
                 [frame EXCEPT ![c] = EmbryoFrame,
                    ![current] = [at |-> "load", arg |-> c, ticks |-> 0]])
       /\ state' = [state EXCEPT ![c] = "READY"]
  /\ UNCHANGED <<current, kshell, queue, killstack, fault>>

Loading == fault = "none" /\ current # Idle /\ frame[current].at = "load"

\* A block of the image comes from disk: ata_wait yields while it polls.
LoadWait ==
  /\ Loading /\ LoadYields
  /\ SwitchReady(queue, state)
  /\ UNCHANGED <<table, kshell, last, wrapped, ppid, exitreason, waitfor, frame,
                 killstack, fault>>

\* The image cannot be loaded: the child is left behind, since the loader never
\* returns the one error (KERROR_EXECUTION_FAILED) after which it is deleted.
LoadFail ==
  /\ Loading
  /\ frame' = [frame EXCEPT ![current] = UserFrame]
  /\ UNCHANGED <<table, kshell, last, wrapped, current, queue, state, ppid, exitreason,
                 waitfor, killstack, fault>>

\* The image is loaded: process_kstack_reset and process_launch, then return to
\* the program; kshell's "start" and "run" yield, and "run" waits for the child.
LoadDone ==
  /\ Loading
  /\ LET c == frame[current].arg
         L == PushTail(queue, "ready", c)
         st == [state EXCEPT ![c] = "CRADLE"]
         fr(f) == [frame EXCEPT ![c] = UserFrame, ![current] = f]
     IN \/ /\ c = 0 \/ c \in Linked(queue)      \* killed, or killed and freed
           /\ fault' = "relaunch"
           /\ UNCHANGED <<current, queue, state, frame>>
        \/ /\ c # 0 /\ c \notin Linked(queue)
           /\ \/ /\ ~IsKshell(current)
                 /\ queue' = L /\ state' = st /\ frame' = fr(UserFrame)
                 /\ UNCHANGED current
              \/ /\ IsKshell(current)
                 /\ SwitchReady(L, st)
                 /\ \E f \in {UserFrame,
                              [at |-> "scan", arg |-> c, ticks |-> Forever]} :
                      frame' = fr(f)
           /\ UNCHANGED fault
  /\ UNCHANGED <<table, kshell, last, wrapped, ppid, exitreason, waitfor, killstack>>

\* A successful exec resets the stack, which makes the state CRADLE, and leaves
\* through process_yield to start the new program.  (One that fails has at most
\* yielded while it read from disk.)
SysExec ==
  /\ AtUser
  /\ SwitchReady(queue, [state EXCEPT ![current] = "CRADLE"])
  /\ kshell' = (kshell /\ current # 1)
  /\ UNCHANGED <<table, last, wrapped, ppid, exitreason, waitfor, frame,
                 killstack, fault>>

-----------------------------------------------------------------------------
(* Death: exit, kill, reap *)

\* process_wakeup_parent, on the lists L: pids are unique, so the only process
\* of grave_watcher_list that can match is the parent of the current one.
\* Mutants: only a parent waiting for exactly this child is woken; a parent is
\* woken without looking at the list it is in.
ParentWaits_Exact(L) ==
  /\ ppid[current] \in Range(L["watchers"])
  /\ waitfor[ppid[current]] = current
ParentWaits_Anywhere(L) ==
  /\ ppid[current] \in table
  /\ waitfor[ppid[current]] \in {0, current}
ParentWaits(L) ==
  /\ ppid[current] \in Range(L["watchers"])
  /\ waitfor[ppid[current]] \in {0, current}
\* Mutants: list_remove, or the push onto ready_list, is forgotten.
WakeupParent_StillLinked(L) ==
  IF ParentWaits(L) THEN PushTail(L, "ready", ppid[current]) ELSE L
WakeupParent_Dropped(L) ==
  IF ParentWaits(L) THEN Unlink(L, ppid[current]) ELSE L
WakeupParent(L) ==
  IF ParentWaits(L)
  THEN PushTail(Unlink(L, ppid[current]), "ready", ppid[current]) ELSE L

\* process_exit, called by the program or by unknown_exception on a fault.
SysExit ==
  /\ AtProgram
  /\ LET par == ppid[current]
         wake == ParentWaits(queue)
         st == IF wake THEN [state EXCEPT ![par] = "READY"] ELSE state
     IN /\ waitfor' = IF wake THEN [waitfor EXCEPT ![par] = 0] ELSE waitfor
        /\ Dispatch(PushTail(WakeupParent(queue), "grave", current),
                    [st EXCEPT ![current] = "GRAVE"])
  /\ exitreason' = [exitreason EXCEPT ![current] = "NORMAL"]
  /\ UNCHANGED <<table, kshell, last, wrapped, ppid, frame, killstack, fault>>

\* process_kill: start process_make_dead on a process of the table.  The range
\* check admits PROCESS_MAX_PID, whose entry lies behind the table: what is read
\* there may be null, which is as good as no process, or a wild pointer.
SysKill(pid) ==
  /\ AtUser
  /\ \/ /\ pid \in table
        /\ killstack' = <<[dead |-> pid, next |-> 1]>>
        /\ UNCHANGED fault
     \/ /\ pid = MaxPid
        /\ fault' = "wild"
        /\ UNCHANGED killstack
  /\ UNCHANGED <<table, kshell, last, wrapped, current, queue, pvars>>

\* The innermost activation of process_make_dead, and the children it has yet
\* to visit: dead ones that nobody reaped are visited again.
Top == killstack[Len(killstack)]
\* Mutant: the loop skips the first index.
Unvisited_Skip == {i \in table : i > Top.next /\ ppid[i] = Top.dead}
Unvisited == {i \in table : i >= Top.next /\ ppid[i] = Top.dead}

\* process_make_dead calls itself on the next child.
KillChild ==
  /\ fault = "none" /\ killstack # << >> /\ Unvisited # {}
  /\ IF Len(killstack) = MaxDepth
     THEN fault' = "stack" /\ UNCHANGED killstack
     ELSE /\ killstack' =
               Append([killstack EXCEPT
                         ![Len(killstack)].next = Min(Unvisited) + 1],
                      [dead |-> Min(Unvisited), next |-> 1])
          /\ UNCHANGED fault
  /\ UNCHANGED <<table, kshell, last, wrapped, current, queue, pvars>>

\* process_make_dead has visited the children of dead.  Reaching the current
\* process switches away from it for good, and the outer activations with it.
KillSelf ==
  /\ fault = "none" /\ killstack # << >> /\ Unvisited = {}
  /\ exitreason' = [exitreason EXCEPT ![Top.dead] = "KILLED"]
  /\ IF Top.dead = current
     THEN /\ killstack' = << >>
          /\ Dispatch(PushTail(queue, "grave", current),
                      [state EXCEPT ![current] = "GRAVE"])
     ELSE /\ killstack' = SubSeq(killstack, 1, Len(killstack) - 1)
          /\ queue' = PushTail(Unlink(queue, Top.dead), "grave", Top.dead)
          /\ UNCHANGED <<current, state>>
  /\ UNCHANGED <<table, kshell, last, wrapped, ppid, waitfor, frame, fault>>

\* process_reap and process_delete of the zombie z: its struct process is freed
\* (the model returns the fields to zero), and so is what a loader still holds.
Delete(z, fr) ==
  /\ table' = table \ {z}
  /\ kshell' = (kshell /\ z # 1)
  /\ queue' = Unlink(queue, z)
  /\ state' = [state EXCEPT ![z] = "CRADLE"]
  /\ ppid' = [ppid EXCEPT ![z] = 0]
  /\ exitreason' = [exitreason EXCEPT ![z] = "NORMAL"]
  /\ waitfor' = [waitfor EXCEPT ![z] = 0]
  /\ frame' = [p \in Pid |->
                 IF p = z THEN UserFrame
                 ELSE IF fr[p].at = "load" /\ fr[p].arg = z
                      THEN [fr[p] EXCEPT !.arg = 0] ELSE fr[p]]

\* Any process may reap any zombie.
SysReap(z) ==
  /\ AtUser
  /\ z \in Range(queue["grave"])
  /\ Delete(z, frame)
  /\ UNCHANGED <<last, wrapped, current, killstack, fault>>

-----------------------------------------------------------------------------
(* Waiting: process_wait_child, clock_wait, the queues of devices *)

\* sys_process_wait, and kshell's "wait": any child, with or without a timeout.
SysWait(t) ==
  /\ AtUser
  /\ frame' = [frame EXCEPT ![current] = [at |-> "scan", arg |-> 0, ticks |-> t]]
  /\ UNCHANGED <<table, kshell, last, wrapped, current, queue, state, ppid, exitreason,
                 waitfor, killstack, fault>>

\* The places in grave_list that satisfy the test of process_wait_child.
Matches == LET g == queue["grave"] IN
  {i \in DOMAIN g : \/ frame[current].arg # 0 /\ g[i] = frame[current].arg
                    \/ ppid[g[i]] = current}

\* One scan of grave_list: return the first match, which kshell's "run" reaps
\* on the spot, or queue up behind the other waiting parents.
WaitScan ==
  /\ fault = "none" /\ current # Idle /\ frame[current].at = "scan"
  /\ LET fr == [frame EXCEPT ![current] = UserFrame]
         z == queue["grave"][Min(Matches)]
     IN \/ /\ Matches # {} /\ frame[current].arg = 0
           /\ frame' = fr
           /\ UNCHANGED <<table, kshell, current, queue, state, ppid, exitreason,
                          waitfor>>
        \/ /\ Matches # {} /\ frame[current].arg # 0
           /\ Delete(z, fr)
           /\ UNCHANGED current
        \/ /\ Matches = {}
           /\ waitfor' = [waitfor EXCEPT ![current] = frame[current].arg]
           /\ frame' = [frame EXCEPT ![current].at = "check"]
           /\ Block("watchers")
           /\ UNCHANGED <<table, kshell, ppid, exitreason>>
  /\ UNCHANGED <<last, wrapped, killstack, fault>>

\* After process_wait: give up when the time is over, else scan again.
WaitCheck ==
  /\ fault = "none" /\ current # Idle /\ frame[current].at = "check"
  /\ frame' = [frame EXCEPT ![current] =
                 IF frame[current].ticks = 0 THEN UserFrame
                 ELSE [frame[current] EXCEPT !.at = "scan"]]
  /\ UNCHANGED <<table, kshell, last, wrapped, current, queue, state, ppid, exitreason,
                 waitfor, killstack, fault>>

\* clock_wait: queue for the next clock interrupt whatever the delay asked for.
SysSleep(t) ==
  /\ AtProgram
  /\ frame' = [frame EXCEPT ![current] = [at |-> "sleep", arg |-> 0, ticks |-> t]]
  /\ Block("clock")
  /\ UNCHANGED <<table, kshell, last, wrapped, ppid, exitreason, waitfor, killstack, fault>>

\* clock_wait, woken: return when the delay has passed, else queue again.
SleepCheck ==
  /\ fault = "none" /\ current # Idle /\ frame[current].at = "sleep"
  /\ \/ /\ frame[current].ticks = 0
        /\ frame' = [frame EXCEPT ![current] = UserFrame]
        /\ UNCHANGED <<current, queue, state>>
     \/ /\ frame[current].ticks > 0
        /\ Block("clock")
        /\ UNCHANGED frame
  /\ UNCHANGED <<table, kshell, last, wrapped, ppid, exitreason, waitfor, killstack, fault>>

\* A system call that waits for a device, a pipe or a mutex.
SysBlock ==
  /\ AtUser
  /\ Block("device")
  /\ UNCHANGED <<table, kshell, last, wrapped, ppid, exitreason, waitfor, frame,
                 killstack, fault>>

\* Mutant: the last tick is not counted.
Elapse_Short(fr) == [p \in Pid |->
  IF fr[p].at \in {"scan", "check", "sleep"} /\ fr[p].ticks \in 2..MaxTicks
  THEN [fr[p] EXCEPT !.ticks = @ - 1] ELSE fr[p]]
\* Time passes for the calls with a deadline.
Elapse(fr) == [p \in Pid |->
  IF fr[p].at \in {"scan", "check", "sleep"} /\ fr[p].ticks \in 1..MaxTicks
  THEN [fr[p] EXCEPT !.ticks = @ - 1] ELSE fr[p]]

\* clock_interrupt: process_wakeup_all on the queue of the clock.  The call of
\* process_preempt it ends with does nothing, since allow_preempt is 0.
ClockInterrupt ==
  /\ fault = "none" /\ killstack = << >>
  /\ frame' = Elapse(frame)
  /\ queue' = [queue EXCEPT !["ready"] = @ \o queue["clock"], !["clock"] = << >>]
  /\ state' = [p \in Pid |-> IF p \in Range(queue["clock"]) THEN "READY" ELSE state[p]]
  /\ UNCHANGED <<table, kshell, last, wrapped, current, ppid, exitreason, waitfor,
                 killstack, fault>>

\* process_wakeup: whatever a blocked process waits for has come.
DeviceWakeup ==
  /\ fault = "none" /\ killstack = << >> /\ queue["device"] # << >>
  /\ LET p == Head(queue["device"]) IN
       /\ queue' = PushTail(PopHead(queue, "device"), "ready", p)
       /\ state' = [state EXCEPT ![p] = "READY"]
  /\ UNCHANGED <<table, kshell, last, wrapped, current, ppid, exitreason, waitfor, frame,
                 killstack, fault>>

-----------------------------------------------------------------------------
Next ==
  \/ IdleLoop \/ SysYield \/ SysExec \/ SysFork \/ CreateHalts
  \/ RunBegin \/ LoadWait \/ LoadFail \/ LoadDone
  \/ SysExit \/ (\E pid \in 1..MaxPid : SysKill(pid)) \/ KillChild \/ KillSelf
  \/ (\E z \in Pid : SysReap(z))
  \/ (\E t \in 0..Forever : SysWait(t)) \/ WaitScan \/ WaitCheck
  \/ (\E t \in 0..MaxTicks : SysSleep(t)) \/ SleepCheck
  \/ SysBlock \/ ClockInterrupt \/ DeviceWakeup

Spec == Init /\ [][Next]_vars

-----------------------------------------------------------------------------
(* Properties *)

\* A process is never in two places: nothing is linked twice, what is linked is
\* in process_table, and the current process is linked nowhere.  Every path
\* through wait, wakeup, kill, reap and switch has to keep this, or list.c
\* follows links of another list.
OnePlace ==
  /\ NoDup(queue)
  /\ \A q \in QueueName : Range(queue[q]) \subseteq table
  /\ current # Idle => current \in table /\ current \notin Linked(queue)

\* No process that was ever launched gets lost: it runs or some list holds it, so
\* a wakeup, a kill or a reap can still find it.
NoneLost ==
  \A p \in table :
     frame[p].at # "embryo" => p = current \/ p \in Linked(queue)

\* A parent asleep in process_wait_child has no dead child it would have accepted
\* unless that child was killed: process_exit never misses the parent, whatever
\* was reaped, forked or reused in between (process_make_dead wakes nobody).
NoStrandedParent ==
  \A p \in Range(queue["watchers"]), z \in Range(queue["grave"]) :
     ppid[z] = p /\ waitfor[p] \in {0, z} => exitreason[z] = "KILLED"

\* Until pids are used a second time children have larger pids than their
\* parents, so the recursion of process_make_dead ends and a stack that has room
\* for one activation per pid is deep enough.
KillFitsStack == ~wrapped /\ MaxDepth >= MaxPid - 1 => fault # "stack"

\* A zombie stays a zombie until it is reaped.
ZombieStays ==
  [][\A z \in Range(queue["grave"]) :
       z \in Range(queue'["grave"]) \/ z \notin table']_vars

\* The processes descended from r, r included.
Family(r) == {p \in table : \A S \in SUBSET table :
               r \in S /\ (\A c \in table : ppid[c] \in S => c \in S) => p \in S}

\* A process_kill that returns to its caller has put the process and all of its
\* descendants into the grave.
KillComplete ==
  [][killstack # << >> /\ killstack' = << >> /\ current' = current
       => Family(killstack[1].dead) \subseteq Range(queue'["grave"])]_vars

-----------------------------------------------------------------------------
(***************************************************************************)
(* Fairness.  The timer keeps interrupting, the idle loop looks at the     *)
(* ready list after every interrupt, and a process that is inside the      *)
(* kernel goes on.  Nothing makes a program give up the processor:         *)
(* allow_preempt is 0.  That programs do is therefore a hypothesis of the  *)
(* liveness property, not part of the fairness.                            *)
(***************************************************************************)
KernelStep == \/ LoadFail \/ LoadDone \/ KillChild \/ KillSelf
              \/ WaitScan \/ WaitCheck \/ SleepCheck
Fairness == WF_vars(IdleLoop) /\ WF_vars(ClockInterrupt) /\ WF_vars(KernelStep)
FairSpec == Spec /\ Fairness

\* No program keeps the processor for ever.
Cooperative == \A p \in Pid : []<>~(current = p /\ AtUser)

\* While programs cooperate, clock_wait returns: the deadline passes, the clock
\* wakes the sleeper and the ready list gets to it, unless it is killed first.
SleepEnds == Cooperative =>
  \A p \in Pid : frame[p].at = "sleep" ~>
     frame[p].at # "sleep" \/ p \in Range(queue["grave"]) \/ fault # "none"
=============================================================================
