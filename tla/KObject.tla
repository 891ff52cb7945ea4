------------------------------ MODULE KObject ------------------------------
(***************************************************************************)
(* Kernel objects and descriptor tables: kernel/kobject.c, the object      *)
(* calls of kernel/syscall_handler.c, and the reference counts of windows, *)
(* consoles, pipes and directory entries.  An object lives in a slot of a  *)
(* process's ktable and refers to a resource, which objects, consoles and  *)
(* child windows share.  Of the calls that change a table only a lookup,   *)
(* which reads the disk, can sleep.  A process that sleeps in a read or a  *)
(* write is one that does nothing here, and may be killed.                 *)
(***************************************************************************)
EXTENDS Integers, Sequences, FiniteSets, SequencesExt

CONSTANTS
  Proc, Shell,     \* process slots; the one that runs first
  MaxFd,           \* PROCESS_MAX_OBJECTS
  MaxObj, MaxRes,  \* bounds: objects and resources alive at a time
  MaxCalls         \* bound: calls that create, copy or inherit

ObjectAssumption ==
  /\ MaxFd \in Nat \ {0} /\ MaxObj \in Nat /\ MaxRes \in Nat /\ MaxRes >= 2
  /\ MaxCalls \in Nat
  /\ Shell \in Proc

Fd == 0..(MaxFd - 1)
Obj == 1..MaxObj
Res == 1..MaxRes
Kind == {"window", "console", "pipe", "dirent"}

VARIABLES
  state,    \* of the process: "free", "live" or "dead" (in the grave)
  ktable,   \* the descriptor tables; 0 is an empty slot
  obj,      \* objects: resource and refcount; refcount 0 is freed memory
  res,      \* resources: kind, refcount and the window behind it, if any
  call,     \* whether a process is in a lookup, and the slot it has chosen
  fault,    \* a null object was copied, or a slot behind the table written
  calls     \* number of calls, see MaxCalls

vars == <<state, ktable, obj, res, call, fault, calls>>

RootWindow == 1
RootConsole == 2
Roots == {RootWindow, RootConsole}
NoObj == [res |-> 0, refs |-> 0]
NoRes == [kind |-> "none", refs |-> 0, window |-> 0]
User == [at |-> "user", fd |-> 0]

TypeOK ==
  /\ state \in [Proc -> {"free", "live", "dead"}]
  /\ ktable \in [Proc -> [Fd -> {0} \cup Obj]]
  /\ obj \in [Obj -> [res : {0} \cup Res, refs : Nat]]
  /\ res \in [Res -> [kind : Kind \cup {"none"}, refs : Nat, window : {0} \cup Res]]
  /\ call \in [Proc -> [at : {"user", "lookup"}, fd : Fd]]
  /\ fault \in BOOLEAN /\ calls \in 0..MaxCalls

\* kernel_main gives the shell the root console and the root window.
Init ==
  /\ state = [p \in Proc |-> IF p = Shell THEN "live" ELSE "free"]
  /\ ktable = [p \in Proc |-> [fd \in Fd |-> IF p = Shell /\ fd < 2 THEN fd + 1 ELSE 0]]
  /\ obj = [k \in Obj |-> CASE k = 1 -> [res |-> RootConsole, refs |-> 1]
                            [] k = 2 -> [res |-> RootWindow, refs |-> 1]
                            [] OTHER -> NoObj]
  /\ res = [r \in Res |-> CASE r = RootWindow -> [kind |-> "window", refs |-> 1, window |-> 0]
                            [] r = RootConsole -> [kind |-> "console", refs |-> 1, window |-> 1]
                            [] OTHER -> NoRes]
  /\ call = [p \in Proc |-> User]
  /\ fault = FALSE /\ calls = 0

-----------------------------------------------------------------------------
(* Reference counts.  Steps work on a record s of obj and res. *)

Now == [obj |-> obj, res |-> res]
Commit(s) == obj' = s.obj /\ res' = s.res
FreeObj(s) == {k \in Obj : s.obj[k].refs = 0}
FreeRes(s) == {r \in Res : s.res[r].refs = 0}

\* kobject_create_...: an object with the only reference to a new resource.  A window
\* counts in its parent, a console in its window.
NewRes(s, kind, w) ==
  [s EXCEPT !.res = [r \in Res |-> CASE r = Min(FreeRes(s)) ->
                                          [kind |-> kind, refs |-> 1, window |-> w]
                                     [] r = w -> [@[r] EXCEPT !.refs = @ + 1]
                                     [] OTHER -> @[r]]]
NewObj(s, r) == [s EXCEPT !.obj[Min(FreeObj(s))] = [res |-> r, refs |-> 1]]

\* kobject_copy, with window_addref, console_addref, pipe_addref, fs_dirent_addref.
\* Mutant: pipes are left out.
kobject_copy_NoPipe(s, k) ==
  LET r == s.obj[k].res
      t == NewObj(s, r)
  IN  IF s.res[r].kind = "pipe" THEN t ELSE [t EXCEPT !.res[r].refs = @ + 1]
kobject_copy(s, k) ==
  LET r == s.obj[k].res IN [NewObj(s, r) EXCEPT !.res[r].refs = @ + 1]

\* window_delete, console_delete, pipe_delete, fs_dirent_close: with the last reference
\* to a console or window goes one to the window behind it, and so on.  The root window
\* and the root console are left alone.
Behind(s, r) == s.res[r].window
Dropped(s, r) ==
  LET path[n \in 0..MaxRes] ==
        IF n = 0 THEN r
        ELSE IF path[n - 1] \notin Roots \cup {0} /\ s.res[path[n - 1]].refs = 1
        THEN Behind(s, path[n - 1]) ELSE 0
      hit == {path[n] : n \in 0..MaxRes} \ (Roots \cup {0})
  IN  [s EXCEPT !.res = [x \in Res |->
         IF x \notin hit THEN @[x]
         ELSE IF @[x].refs = 1 THEN NoRes ELSE [@[x] EXCEPT !.refs = @ - 1]]]

\* kobject_close.  (pipe_flush is for an object with references left.)
kobject_close(s, k) ==
  IF s.obj[k].refs = 1 THEN [Dropped(s, s.obj[k].res) EXCEPT !.obj[k] = NoObj]
  ELSE [s EXCEPT !.obj[k].refs = @ - 1]

-----------------------------------------------------------------------------
(* System calls *)

Counted == calls < MaxCalls /\ calls' = calls + 1
Ready(p) == state[p] = "live" /\ call[p].at = "user" /\ ~fault
is_valid_object(p, fd) == fd \in Fd /\ ktable[p][fd] # 0
KindOf(p, fd) == res[obj[ktable[p][fd]].res].kind

process_available_fd(p) == {fd \in Fd : ktable[p][fd] = 0}
HaveRoom == FreeObj(Now) # {} /\ FreeRes(Now) # {}

Install(p, fd, s) ==
  /\ ktable' = [ktable EXCEPT ![p][fd] = Min(FreeObj(Now))]
  /\ Commit(s)

\* sys_open_pipe, sys_open_window and sys_open_console.
Open(p, kind, wd) ==
  /\ Counted
  /\ Ready(p) /\ HaveRoom /\ process_available_fd(p) # {}
  /\ kind \in {"window", "console"} => is_valid_object(p, wd) /\ KindOf(p, wd) = "window"
  /\ kind = "pipe" => wd = 0
  /\ LET w == IF kind = "pipe" THEN 0 ELSE obj[ktable[p][wd]].res
     IN  Install(p, Min(process_available_fd(p)),
                 NewObj(NewRes(Now, kind, w), Min(FreeRes(Now))))
  /\ UNCHANGED <<state, call, fault>>

\* sys_open_file and sys_open_dir: the slot is chosen, then the lookup sleeps.
OpenFile(p) ==
  /\ Counted
  /\ Ready(p) /\ process_available_fd(p) # {}
  /\ call' = [call EXCEPT ![p] = [at |-> "lookup", fd |-> Min(process_available_fd(p))]]
  /\ UNCHANGED <<state, ktable, obj, res, fault>>

OpenFileDone(p, found) ==
  /\ call[p].at = "lookup" /\ state[p] = "live" /\ ~fault
  /\ call' = [call EXCEPT ![p] = User]
  /\ \/ /\ found /\ HaveRoom
        /\ Install(p, call[p].fd, NewObj(NewRes(Now, "dirent", 0), Min(FreeRes(Now))))
     \/ ~found /\ UNCHANGED <<ktable, obj, res>>
  /\ UNCHANGED <<state, fault, calls>>

\* sys_object_close.  Mutant: the slot is not cleared.
Close_SlotKept(p, fd) ==
  /\ Ready(p) /\ is_valid_object(p, fd)
  /\ Commit(kobject_close(Now, ktable[p][fd]))
  /\ UNCHANGED <<state, ktable, call, fault, calls>>
Close(p, fd) ==
  /\ Ready(p) /\ is_valid_object(p, fd)
  /\ Commit(kobject_close(Now, ktable[p][fd]))
  /\ ktable' = [ktable EXCEPT ![p][fd] = 0]
  /\ UNCHANGED <<state, call, fault, calls>>

\* sys_object_copy: a used slot dst is closed first.  A copy to the slot it comes from
\* finds it empty then; MaxFd itself is taken for a slot.
Vacated(p, dst) == IF is_valid_object(p, dst) THEN kobject_close(Now, ktable[p][dst]) ELSE Now
Copy(p, src, dst) ==
  /\ Counted
  /\ Ready(p) /\ is_valid_object(p, src)
  /\ IF dst = src \/ dst = MaxFd
     THEN fault' = TRUE /\ UNCHANGED <<ktable, obj, res>>
     ELSE LET s == Vacated(p, dst)
          IN  /\ FreeObj(s) # {}
              /\ Commit(kobject_copy(s, ktable[p][src]))
              /\ ktable' = [ktable EXCEPT ![p][dst] = Min(FreeObj(s))]
              /\ UNCHANGED fault
  /\ UNCHANGED <<state, call>>

-----------------------------------------------------------------------------
(* Processes *)

\* process_selective_inherit: slot i of the child is a copy of slot fds[i], or empty.
Inherited(p, fds) ==
  LET used == SelectSeq([i \in 1..MaxFd |-> i - 1], LAMBDA i : fds[i] >= 0)
      copy(a, i) == [s |-> kobject_copy(a.s, ktable[p][fds[i]]),
                     t |-> [a.t EXCEPT ![i] = Min(FreeObj(a.s))]]
  IN  FoldLeft(copy, [s |-> Now, t |-> [i \in Fd |-> 0]], used)

\* sys_process_run and sys_process_fork (process_inherit) and sys_process_wrun: the
\* latter does not look whether the slots it is given are used.
Everything(p) == [fd \in Fd |-> IF ktable[p][fd] # 0 THEN fd ELSE -1]
Spawn(p, c, fds) ==
  /\ Counted
  /\ Ready(p) /\ state[c] = "free"
  /\ Cardinality({i \in Fd : fds[i] >= 0}) <= Cardinality(FreeObj(Now))
  /\ IF \E i \in Fd : fds[i] >= 0 /\ ktable[p][fds[i]] = 0
     THEN fault' = TRUE /\ UNCHANGED <<state, ktable, obj, res>>
     ELSE /\ Commit(Inherited(p, fds).s)
          /\ ktable' = [ktable EXCEPT ![c] = Inherited(p, fds).t]
          /\ state' = [state EXCEPT ![c] = "live"]
          /\ UNCHANGED fault
  /\ UNCHANGED call

\* process_exit, and process_kill of a process that may be asleep in a call.
Die(p) ==
  /\ state[p] = "live" /\ p # Shell /\ ~fault
  /\ state' = [state EXCEPT ![p] = "dead"]
  /\ UNCHANGED <<ktable, obj, res, call, fault, calls>>

\* process_reap, process_delete.
Reap(p) ==
  /\ state[p] = "dead" /\ ~fault
  /\ Commit(FoldLeft(LAMBDA s, fd : IF ktable[p][fd] = 0 THEN s
                                    ELSE kobject_close(s, ktable[p][fd]),
                     Now, [i \in 1..MaxFd |-> i - 1]))
  /\ state' = [state EXCEPT ![p] = "free"]
  /\ ktable' = [ktable EXCEPT ![p] = [fd \in Fd |-> 0]]
  /\ call' = [call EXCEPT ![p] = User]
  /\ UNCHANGED <<fault, calls>>

Next ==
  \E p \in Proc :
    \/ \E kind \in {"pipe", "window", "console"}, wd \in Fd : Open(p, kind, wd)
    \/ OpenFile(p) \/ \E found \in BOOLEAN : OpenFileDone(p, found)
    \/ \E fd \in Fd : Close(p, fd)
    \/ \E src \in Fd, dst \in Fd \cup {MaxFd} : Copy(p, src, dst)
    \/ Die(p) \/ Reap(p)
    \/ \E c \in Proc \ {p} :
         \/ Spawn(p, c, Everything(p))
         \/ \E i, j \in Fd : Spawn(p, c, [fd \in Fd |-> IF fd = i THEN j ELSE -1])

Spec == Init /\ [][Next]_vars

-----------------------------------------------------------------------------
(* Properties *)

\* An object is in one slot of one table: nobody else can close the object a process
\* is using, none is forgotten, and no object has a second reference, so that the
\* branch of kobject_close that flushes a shared pipe is never taken.
Slots == {<<p, fd>> \in Proc \X Fd : ktable[p][fd] # 0}
Private ==
  /\ \A k \in Obj : obj[k].refs <= 1
  /\ \A k \in Obj : obj[k].refs > 0 =>
       Cardinality({x \in Slots : ktable[x[1]][x[2]] = k}) = 1

\* Reference counts are exact: a resource is alive as long as an object, a console or a
\* child window refers to it, and no longer.  (The roots are never freed.)
Users(r) == Cardinality({k \in Obj : obj[k].res = r}) + Cardinality({x \in Res : res[x].window = r})
RefsExact == \A r \in Res \ Roots : res[r].refs = Users(r)

\* No slot, not even one that a sleeping or dead process left behind, leads to freed
\* memory, and neither does a window or console behind it.
NoDangling ==
  /\ \A x \in Slots : obj[ktable[x[1]][x[2]]].refs > 0
  /\ \A k \in Obj : obj[k].refs > 0 => res[obj[k].res].refs > 0
  /\ \A r \in Res : res[r].window # 0 => res[res[r].window].refs > 0
=============================================================================
