------------------------------ MODULE FSLayer -------------------------------
(***************************************************************************)
(* The file system layer: kernel/fs.c, the reference counts of             *)
(* kernel/device.c, the commands of kernel/kshell.c and the system calls   *)
(* that walk paths.  A directory entry holds a reference to its volume, a  *)
(* volume one to its device.  fs_dirent_traverse may lose the processor in *)
(* every lookup, and it cuts its path with strtok, whose position is one   *)
(* static variable for the whole kernel.                                   *)
(*                                                                         *)
(* The tree is fixed: a directory "a" and a file "f" in the root, a file   *)
(* "f" in "a".  What creating and removing does to the disk is in DiskFS.  *)
(***************************************************************************)
EXTENDS Integers, Sequences, FiniteSets, SequencesExt

CONSTANTS
  Proc, Shell,                          \* the processes; the one that runs kshell
  Kinds,                                \* the commands considered
  MaxFd,                                \* PROCESS_MAX_OBJECTS
  MaxDirents, MaxVolumes, MaxDevices,   \* bounds: objects alive at a time
  MaxCalls                              \* bound: calls made

FSAssumption ==
  /\ Shell \in Proc /\ {MaxFd, MaxDirents, MaxVolumes, MaxDevices} \subseteq Nat \ {0}
  /\ MaxCalls \in Nat
  /\ Kinds \subseteq {"open", "list", "mkdir", "remove", "format", "install"}

Fd == 0..(MaxFd - 1)                    \* 0 is KNO_STDDIR
Dirent == 1..MaxDirents
Volume == 1..MaxVolumes
Device == 1..MaxDevices
Under == [root |-> [a |-> "dir", f |-> "file"], dir |-> [f |-> "file"], file |-> <<>>]
Child(node, name) == IF name \in DOMAIN Under[node] THEN Under[node][name] ELSE "none"
Path == {<<>>, <<".">>, <<"a">>, <<"f">>, <<"a", "f">>, <<".", "f">>, <<"a", ".">>, <<"x">>}

VARIABLES
  heap,      \* the devices, volumes and directory entries in memory, with reference counts
  ktable,    \* the open directories and files of each process
  walk,      \* the path each process is walking
  oldword,   \* the static variable of strtok: whose path, what is left of it
  lost,      \* history: references that nobody will give back
  answer,    \* history: the last path that was walked, and where it led
  calls,     \* number of calls made
  hurt       \* history: "empty" when an empty path was walked

vars == <<heap, ktable, walk, oldword, lost, answer, calls, hurt>>

\* A walk: its path, where it came from and is, the part it looks up; whether it holds a
\* reference, and whether its parts may be those of another path.
NoWalk == [kind |-> "none", path |-> <<>>, from |-> 0, d |-> 0, part |-> "end",
           held |-> FALSE, mixed |-> FALSE]
Busy(p) == walk[p].kind # "none"

TypeOK ==
  /\ heap.device \in [Device -> Nat]
  /\ heap.volume \in [Volume -> [ref : Nat, dev : Device]]
  /\ heap.dirent \in [Dirent -> [ref : Nat, vol : Volume, node : DOMAIN Under]]
  /\ ktable \in [Proc -> [Fd -> Dirent \cup {0}]]
  /\ \A p \in Proc : walk[p].path \in Path /\ walk[p].d \in Dirent \cup {0}
  /\ oldword.own \in Proc /\ Len(oldword.rest) <= 1
  /\ calls \in 0..MaxCalls /\ hurt \subseteq {"empty"}

Init ==
  /\ heap = [device |-> [x \in Device |-> 0],
             volume |-> [v \in Volume |-> [ref |-> 0, dev |-> 1]],
             dirent |-> [d \in Dirent |-> [ref |-> 0, vol |-> 1, node |-> "root"]]]
  /\ ktable = [p \in Proc |-> [f \in Fd |-> 0]]
  /\ walk = [p \in Proc |-> NoWalk]
  /\ oldword = [own |-> Shell, rest |-> <<>>]
  /\ lost = [device |-> [x \in Device |-> 0], volume |-> [v \in Volume |-> 0],
             dirent |-> [d \in Dirent |-> 0]]
  /\ answer = [path |-> <<>>, from |-> "root", node |-> "root", mixed |-> FALSE]
  /\ calls = 0 /\ hurt = {}

-----------------------------------------------------------------------------
(* References, as operations on the heap *)

FreeDevices == {x \in Device : heap.device[x] = 0}
FreeVolumes == {v \in Volume : heap.volume[v].ref = 0}
FreeDirents == {d \in Dirent : heap.dirent[d].ref = 0}
device_close(h, x) == [h EXCEPT !.device[x] = @ - 1]
fs_volume_addref(h, v) == [h EXCEPT !.volume[v].ref = @ + 1]
fs_dirent_addref(h, d) == [h EXCEPT !.dirent[d].ref = @ + 1]

\* The last reference to a volume gives back the device.
fs_volume_close(h, v) ==
  LET g == [h EXCEPT !.volume[v].ref = @ - 1]
  IN  IF g.volume[v].ref = 0 THEN device_close(g, g.volume[v].dev) ELSE g

\* The last reference to a directory entry gives back the volume.
fs_dirent_close(h, d) ==
  LET g == [h EXCEPT !.dirent[d].ref = @ - 1]
  IN  IF g.dirent[d].ref = 0 THEN fs_volume_close(g, g.dirent[d].vol) ELSE g

\* fs_volume_open: the volume, with a reference to its device.
fs_volume_open(h, v, x) == [h EXCEPT !.volume[v] = [ref |-> 1, dev |-> x], !.device[x] = @ + 1]
\* A new directory entry; the reference to the volume is taken by fs_volume_root,
\* fs_dirent_lookup, fs_dirent_mkdir and fs_dirent_mkfile.
NewDirent(h, d, v, node) ==
  fs_volume_addref([h EXCEPT !.dirent[d] = [ref |-> 1, vol |-> v, node |-> node]], v)

\* An entry that was freed is still used: what follows depends on what the memory is used for.
Dangling ==
  \/ \E p \in Proc, f \in Fd : ktable[p][f] # 0 /\ heap.dirent[ktable[p][f]].ref = 0
  \/ \E p \in Proc : Busy(p) /\ heap.dirent[walk[p].d].ref = 0

Call(p) == ~Busy(p) /\ calls < MaxCalls /\ ~Dangling /\ calls' = calls + 1

-----------------------------------------------------------------------------
(* Commands of the kernel shell *)

\* kshell_mount; automount is a loop of it.  It returns before it closes the volume and
\* the device it opened, also when something fails.
Mount ==
  /\ Call(Shell) /\ ktable[Shell][0] = 0
  /\ \/ FreeDevices # {} /\ FreeVolumes # {} /\ FreeDirents # {}
        /\ LET x == Min(FreeDevices)
               v == Min(FreeVolumes)
               d == Min(FreeDirents)
               opened == fs_volume_open([heap EXCEPT !.device[x] = 1], v, x)
           IN  /\ heap' = NewDirent(opened, d, v, "root")
               /\ ktable' = [ktable EXCEPT ![Shell][0] = d]
               /\ lost' = [lost EXCEPT !.device[x] = 1, !.volume[v] = 1]
     \/ FreeDevices # {}
        /\ heap' = [heap EXCEPT !.device[Min(FreeDevices)] = 1]
        /\ lost' = [lost EXCEPT !.device[Min(FreeDevices)] = 1]
        /\ UNCHANGED ktable
  /\ UNCHANGED <<walk, oldword, answer, hurt>>

\* fs_volume_format: the device is not closed.
Format ==
  /\ "format" \in Kinds /\ Call(Shell) /\ FreeDevices # {}
  /\ heap' = [heap EXCEPT !.device[Min(FreeDevices)] = 1]
  /\ lost' = [lost EXCEPT !.device[Min(FreeDevices)] = 1]
  /\ UNCHANGED <<ktable, walk, oldword, answer, hurt>>

\* kshell_install: two volumes are opened, copied and closed.  fs_dirent_copy gives up in
\* a directory that cannot be listed or that is empty, without closing it in its parent.
\* Mutant: the destination volume is not closed.
Closing_One(h, s, t, v, w) == fs_volume_close(fs_dirent_close(fs_dirent_close(h, t), s), v)
Closing(h, s, t, v, w) ==
  fs_volume_close(fs_volume_close(fs_dirent_close(fs_dirent_close(h, t), s), v), w)
Install ==
  /\ "install" \in Kinds /\ Call(Shell)
  /\ \E x, y \in FreeDevices, v, w \in FreeVolumes, s, t, c \in FreeDirents :
       /\ x < y /\ v < w /\ s < t /\ t < c
       /\ LET opened == fs_volume_open(fs_volume_open(
                          [heap EXCEPT !.device[x] = 1, !.device[y] = 1], v, x), w, y)
              roots == NewDirent(NewDirent(opened, s, v, "root"), t, w, "root")
              closed(h) == device_close(device_close(Closing(h, s, t, v, w), x), y)
          IN  \/ heap' = [heap EXCEPT !.device[x] = 1] /\ lost' = [lost EXCEPT !.device[x] = 1]
              \/ /\ heap' = fs_volume_open([heap EXCEPT !.device[x] = 1, !.device[y] = 1], v, x)
                 /\ lost' = [lost EXCEPT !.device[x] = 1, !.device[y] = 1, !.volume[v] = 1]
              \/ heap' = closed(roots) /\ UNCHANGED lost
              \/ /\ heap' = closed(NewDirent(roots, c, v, "dir"))
                 /\ lost' = [lost EXCEPT !.dirent[c] = 1]
  /\ UNCHANGED <<ktable, walk, oldword, answer, hurt>>

-----------------------------------------------------------------------------
(* Walking a path *)

\* strtok(0): the next part of whatever path was cut last, and who else is concerned.
\* When that path has been freed, anything may be found there.
Rest(p) == IF Busy(oldword.own) THEN {oldword.rest} ELSE {<<>>, <<"a">>, <<"f">>}
Mixed(p) == IF oldword.own = p THEN {} ELSE {p, oldword.own}

\* fs_dirent_lookup of a part: the entry it gives and the heap with it.
lookup(d, part, new) ==
  IF part = "." THEN [n |-> d, h |-> fs_dirent_addref(heap, d)]
  ELSE [n |-> new, h |-> NewDirent(heap, new, heap.dirent[d].vol, Child(heap.dirent[d].node, part))]

\* fs_dirent_traverse begins, with the first part of the path.  Opening starts from any
\* open directory, the commands of kshell from its standard directory (fs_resolve).
\* sys_open_file and sys_open_dir have looked for a free descriptor before.
Cut(seq) == IF seq = <<>> THEN "end" ELSE Head(seq)
\* Mutant: the rest of the path is forgotten.
Left_None(seq) == <<>>
Left(seq) == IF seq = <<>> THEN <<>> ELSE Tail(seq)
Walk(p, kind, fd, path) ==
  LET d == ktable[p][fd]
  IN  /\ Call(p) /\ kind \in Kinds /\ d # 0
      /\ \/ /\ kind = "open" /\ heap.dirent[d].node # "file"
            /\ \E f \in Fd : ktable[p][f] = 0
         \/ kind \in {"list", "mkdir", "remove"} /\ p = Shell /\ fd = 0
      /\ walk' = [walk EXCEPT ![p] = [NoWalk EXCEPT !.kind = kind, !.path = path, !.from = d,
                                                    !.d = d, !.part = Cut(path)]]
      /\ oldword' = [own |-> p, rest |-> Left(path)]
      /\ UNCHANGED <<heap, ktable, lost, answer, hurt>>

\* Whether fs_dirent_traverse closes the entry it leaves behind.
Leaves(w) == w.d # w.from
NotFound(p) == Child(heap.dirent[walk[p].d].node, walk[p].part) = "none" /\ walk[p].part # "."

\* One part is looked up, the entry before it closed, and the next part cut.  An entry
\* that "." gave is the one the path came from: it is not closed although it is held.
Step(p) ==
  LET w == walk[p]
      new == Min(FreeDirents)
      l == lookup(w.d, w.part, new)
  IN  /\ ~Dangling /\ Busy(p) /\ w.part # "end" /\ ~NotFound(p) /\ FreeDirents # {}
      /\ heap' = IF Leaves(w) THEN fs_dirent_close(l.h, w.d) ELSE l.h
      /\ lost' = IF w.held /\ ~Leaves(w) THEN [lost EXCEPT !.dirent[w.d] = @ + 1] ELSE lost
      /\ \E rest \in Rest(p) :
           /\ walk' = [q \in Proc |->
                         IF q = p THEN [w EXCEPT !.d = l.n, !.part = Cut(rest), !.held = TRUE,
                                                 !.mixed = @ \/ p \in Mixed(p)]
                         ELSE [walk[q] EXCEPT !.mixed = @ \/ (Busy(q) /\ q \in Mixed(p))]]
           /\ oldword' = [oldword EXCEPT !.rest = Left(rest)]
      /\ UNCHANGED <<ktable, calls, answer, hurt>>

Answer(p, node) ==
  /\ walk' = [walk EXCEPT ![p] = NoWalk]
  /\ answer' = [path |-> walk[p].path, from |-> heap.dirent[walk[p].from].node, node |-> node,
                mixed |-> walk[p].mixed]
  /\ UNCHANGED <<oldword, calls>>
Fail(p) ==
  LET w == walk[p]
  IN  /\ ~Dangling /\ Busy(p) /\ w.part # "end" /\ NotFound(p)
      /\ heap' = IF Leaves(w) THEN fs_dirent_close(heap, w.d) ELSE heap
      /\ lost' = IF w.held /\ ~Leaves(w) THEN [lost EXCEPT !.dirent[w.d] = @ + 1] ELSE lost
      /\ Answer(p, "none")
      /\ UNCHANGED <<ktable, hurt>>

\* The entry is kept open (kobject_lookup), forgotten (kshell_listdir), or used and closed.
\* That of an empty path is taken for a new reference and is none.
Done(p) ==
  LET w == walk[p]
      newfd == Min({f \in Fd : ktable[p][f] = 0})
  IN  /\ ~Dangling /\ Busy(p) /\ w.part = "end"
      /\ heap' = IF w.kind \in {"mkdir", "remove"} THEN fs_dirent_close(heap, w.d) ELSE heap
      /\ ktable' = IF w.kind = "open" THEN [ktable EXCEPT ![p][newfd] = w.d] ELSE ktable
      /\ lost' = IF w.kind = "list" /\ w.held THEN [lost EXCEPT !.dirent[w.d] = @ + 1] ELSE lost
      /\ hurt' = IF w.held THEN hurt ELSE hurt \cup {"empty"}
      /\ Answer(p, heap.dirent[w.d].node)

-----------------------------------------------------------------------------
(* Descriptors *)

\* fs_dirent_close by kobject_close: sys_object_close, and umount for descriptor 0.
Close(p, fd) ==
  /\ Call(p) /\ ktable[p][fd] # 0
  /\ heap' = fs_dirent_close(heap, ktable[p][fd])
  /\ ktable' = [ktable EXCEPT ![p][fd] = 0]
  /\ UNCHANGED <<walk, oldword, lost, answer, hurt>>

\* sys_open_dir with KERNEL_FLAGS_CREATE: the name is not walked.
Create(p, fd) ==
  LET d == ktable[p][fd]
  IN  /\ Call(p) /\ d # 0 /\ heap.dirent[d].node # "file" /\ FreeDirents # {}
      /\ \E f \in Fd : ktable[p][f] = 0
      /\ heap' = NewDirent(heap, Min(FreeDirents), heap.dirent[d].vol, "file")
      /\ ktable' = [ktable EXCEPT ![p][Min({f \in Fd : ktable[p][f] = 0})] = Min(FreeDirents)]
      /\ UNCHANGED <<walk, oldword, lost, answer, hurt>>

\* process_inherit: a new process gets the standard directory of the shell.
Inherit(p) ==
  /\ Call(Shell) /\ p # Shell /\ ~Busy(p) /\ ktable[p] = [f \in Fd |-> 0] /\ ktable[Shell][0] # 0
  /\ heap' = fs_dirent_addref(heap, ktable[Shell][0])
  /\ ktable' = [ktable EXCEPT ![p][0] = ktable[Shell][0]]
  /\ UNCHANGED <<walk, oldword, lost, answer, hurt>>

\* A process is killed while it walks a path: nobody will close the entry it has reached.
Kill(p) ==
  LET w == walk[p]
      slots == {f \in Fd : ktable[p][f] # 0}
  IN  /\ ~Dangling /\ p # Shell /\ Busy(p)
      /\ heap' = FoldSet(LAMBDA f, h : fs_dirent_close(h, ktable[p][f]), heap, slots)
      /\ ktable' = [ktable EXCEPT ![p] = [f \in Fd |-> 0]]
      /\ lost' = IF w.held THEN [lost EXCEPT !.dirent[w.d] = @ + 1] ELSE lost
      /\ walk' = [walk EXCEPT ![p] = NoWalk]
      /\ UNCHANGED <<oldword, calls, answer, hurt>>

Next ==
  \/ Mount \/ Format \/ Install
  \/ \E p \in Proc : \/ Step(p) \/ Fail(p) \/ Done(p) \/ Kill(p) \/ Inherit(p)
                     \/ \E fd \in Fd : Close(p, fd) \/ Create(p, fd)
                     \/ \E kind \in Kinds, fd \in Fd, path \in Path : Walk(p, kind, fd, path)

Spec == Init /\ [][Next]_vars

-----------------------------------------------------------------------------
(* Properties *)

SumOf(S, f(_)) == FoldSet(LAMBDA x, n : n + f(x), 0, S)
Holders(d) ==
  Cardinality({<<p, f>> \in Proc \X Fd : ktable[p][f] = d})
  + Cardinality({p \in Proc : Busy(p) /\ walk[p].held /\ walk[p].d = d})

\* Every reference is somebody's: a directory entry has as many as descriptors and walks
\* hold, a volume as many as it has entries, a device as many as it has volumes, plus the
\* ones that were lost.  So with no loss everything is closed, and the volume flushed,
\* when the last descriptor is closed.
RefsExact ==
  "empty" \notin hurt =>
    /\ \A d \in Dirent : heap.dirent[d].ref = Holders(d) + lost.dirent[d]
    /\ \A v \in Volume : heap.volume[v].ref = lost.volume[v] +
         Cardinality({d \in Dirent : heap.dirent[d].ref > 0 /\ heap.dirent[d].vol = v})
    /\ \A x \in Device : heap.device[x] = lost.device[x] +
         Cardinality({v \in Volume : heap.volume[v].ref > 0 /\ heap.volume[v].dev = x})

\* No entry is freed while it is used, if no path was empty.
NoDangling == Dangling => "empty" \in hurt

\* A path leads where it says, if no other process walked one at the same time.
Resolve(node, path) ==
  FoldLeft(LAMBDA n, part : IF n = "none" \/ part = "." THEN n ELSE Child(n, part), node, path)
PathRight == ~answer.mixed => answer.node = Resolve(answer.from, answer.path)
=============================================================================
