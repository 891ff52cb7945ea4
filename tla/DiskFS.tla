------------------------------- MODULE DiskFS -------------------------------
(***************************************************************************)
(* The disk file system, kernel/diskfs.c.  Directory entries in memory     *)
(* (struct fs_dirent) hold a copy of their inode.  The buffer cache may    *)
(* switch when a block is read that was not read just before, so a step    *)
(* begins with such a read (or with a write to a block that was not read)  *)
(* and goes on to the next; to read a block, change it and write it back   *)
(* is one step.  All directories and files are reached from one directory  *)
(* entry for the root, which processes share as their current directory.   *)
(*                                                                         *)
(* The size of a directory is counted in items, the size of a file in      *)
(* blocks.  What is in the blocks of a file is not modelled.               *)
(***************************************************************************)
EXTENDS Integers, Sequences, FiniteSets, SequencesExt

CONSTANTS
  Proc, Name,
  NBlocks, NInodes,      \* data blocks and inodes on the disk
  Direct, PerBlock,      \* direct pointers; pointers per indirect block
  Items,                 \* directory items per block
  MaxHandles, MaxOps,    \* bounds: directory entries in memory, operations
  Ops                    \* the operations considered

DiskAssumption ==
  /\ {NBlocks, NInodes, Direct, PerBlock, Items} \subseteq Nat \ {0}
  /\ "none" \notin Name
  /\ NBlocks > 1 /\ MaxHandles \in Nat \ {0} /\ MaxOps \in Nat
  /\ Ops \subseteq {"mkfile", "mkdir", "open", "write", "remove", "close"}

Block == 0..(NBlocks - 1)
Inum == 0..(NInodes - 1)
Slot == 0..(Direct + PerBlock - 1)     \* blocks of a file
Handle == 1..MaxHandles
Root == 1

VARIABLES
  bitmap,     \* the data blocks in use
  inode,      \* the inodes on the disk
  items,      \* the blocks as directory blocks
  pointers,   \* the blocks as indirect blocks
  dirent,     \* the directory entries in memory
  op,         \* what each process is doing
  ops,        \* number of operations begun
  hurt        \* history: what went wrong, see Race

vars == <<bitmap, inode, items, pointers, dirent, op, ops, hurt>>

\* "removed": the removal of an entry that was found began; "twice": two processes were adding one
\* name at the same time; "overlap": two processes were placing blocks of one inode;
\* "alias": two directory entries were made for one inode; "full": no block was left.
Race == {"removed", "twice", "overlap", "alias", "full"}

Blank == [name |-> "none", inum |-> 0, dir |-> FALSE]
BlankBlock == [j \in 1..Items |-> Blank]
NoPointers == [k \in 0..(PerBlock - 1) |-> 0]
FreshInode == [inuse |-> TRUE, size |-> 0, direct |-> [k \in 0..(Direct - 1) |-> 0], indirect |-> 0]
NoInode == [FreshInode EXCEPT !.inuse = FALSE]
NoDirent == [live |-> FALSE, inum |-> 0, dir |-> FALSE, disk |-> NoInode]
\* An operation: its directory entry and name, the block it is at and the number of
\* blocks, the inode it is about; the pointer to set ("direct", "indirect", "pointer",
\* or "final" when the size is all there is to save), the block, and the buffers.
NoOp == [at |-> "user", kind |-> "none", h |-> 0, name |-> "none", i |-> 0, n |-> 0,
         inum |-> 0, slot |-> "none", b |-> 0, size |-> 0, buf |-> BlankBlock,
         ptr |-> NoPointers]
Inode == [inuse : BOOLEAN, size : Nat, direct : [0..(Direct - 1) -> Block], indirect : Block]

TypeOK ==
  /\ bitmap \subseteq Block /\ inode \in [Inum -> Inode]
  /\ items \in [Block -> [1..Items -> [name : Name \cup {"none", "."}, inum : Inum, dir : BOOLEAN]]]
  /\ pointers \in [Block -> [0..(PerBlock - 1) -> Block]]
  /\ dirent \in [Handle -> [live : BOOLEAN, inum : Inum, dir : BOOLEAN, disk : Inode]]
  /\ \A p \in Proc : op[p].h \in Handle \cup {0} /\ op[p].b \in Block /\ op[p].inum \in Inum
  /\ ops \in 0..MaxOps /\ hurt \subseteq Race

\* A new volume (diskfs_volume_format, diskfs_volume_open, diskfs_volume_root).
RootInode == [FreshInode EXCEPT !.size = 1, !.direct[0] = 1]
Init ==
  /\ bitmap = {0, 1}
  /\ inode = [n \in Inum |-> IF n = 0 THEN RootInode ELSE NoInode]
  /\ items = [b \in Block |-> IF b = 1 THEN [BlankBlock EXCEPT ![1] = [name |-> ".", inum |-> 0, dir |-> TRUE]]
                              ELSE BlankBlock]
  /\ pointers = [b \in Block |-> NoPointers]
  /\ dirent = [h \in Handle |-> IF h = Root THEN [live |-> TRUE, inum |-> 0, dir |-> TRUE, disk |-> RootInode]
                                ELSE NoDirent]
  /\ op = [p \in Proc |-> NoOp] /\ ops = 0 /\ hurt = {}

-----------------------------------------------------------------------------
(* Blocks, inodes and names *)

\* The number of blocks of a directory.
Blocks(size) == (size + Items - 1) \div Items
Note(what, cond) == hurt' = IF cond THEN hurt \cup {what} ELSE hurt
Goto(p, o) == op' = [op EXCEPT ![p] = o]
Creates(o) == o.kind \in {"mkfile", "mkdir"}
DirOf(o) == dirent[o.h].disk

\* diskfs_inode_read: where the k-th block of an inode is.  A missing block is block 0.
BlockOf(d, k) == IF k < Direct THEN d.direct[k] ELSE pointers[d.indirect][k - Direct]

\* diskfs_data_block_alloc: the first block whose bit is not set; never block 0.
\* Mutant: the bit is not set.
Marked_Not(b) == bitmap
Marked(b) == bitmap \cup {b}
FreeBlocks == Block \ (bitmap \cup {0})

\* diskfs_inode_write begins to place block o.i of its inode: which step is next.
Place(o, disk) ==
  CASE o.i < Direct /\ disk.direct[o.i] = 0 -> [o EXCEPT !.at = "alloc", !.slot = "direct"]
    [] o.i < Direct /\ disk.direct[o.i] # 0 -> [o EXCEPT !.at = "data", !.b = disk.direct[o.i]]
    [] o.i >= Direct /\ disk.indirect = 0   -> [o EXCEPT !.at = "alloc", !.slot = "indirect"]
    [] o.i >= Direct /\ disk.indirect # 0   -> [o EXCEPT !.at = "getptr"]
Placing(q, inum) ==
  /\ op[q].at \in {"alloc", "save", "zero", "getptr", "putptr", "data"}
  /\ dirent[op[q].h].inum = inum
Overlaps(p, h) == \E q \in Proc \ {p} : Placing(q, dirent[h].inum)

\* Another process is adding the same name to the same directory.
Rival(p, o) ==
  \E q \in Proc \ {p} : Creates(op[q]) /\ op[q].name = o.name
                        /\ dirent[op[q].h].inum = dirent[o.h].inum
TheItem(o) == [name |-> o.name, inum |-> o.inum, dir |-> o.kind = "mkdir"]

-----------------------------------------------------------------------------
(* Operations begin *)

Begin(p, kind, h) ==
  /\ op[p].at = "user" /\ ops < MaxOps /\ kind \in Ops /\ dirent[h].live
  /\ ops' = ops + 1

\* The name was not found by diskfs_dirent_lookup or diskfs_dirent_remove.
NotFound(p, o) ==
  IF Creates(o) THEN Goto(p, [o EXCEPT !.at = "ialloc"]) /\ Note("twice", Rival(p, o))
  ELSE Goto(p, NoOp) /\ UNCHANGED hurt

\* diskfs_dirent_lookup, diskfs_dirent_create_file_or_dir and diskfs_dirent_remove start
\* to read the directory.
BeginScan(p, kind, h, name) ==
  /\ Begin(p, kind, h) /\ dirent[h].dir /\ kind \in {"mkfile", "mkdir", "open", "remove"}
  /\ LET o == [NoOp EXCEPT !.at = "scan", !.kind = kind, !.h = h, !.name = name,
                           !.n = Blocks(dirent[h].disk.size)]
     IN  IF o.n = 0 THEN NotFound(p, o) ELSE Goto(p, o) /\ UNCHANGED hurt
  /\ UNCHANGED <<bitmap, inode, items, pointers, dirent>>

\* fs_dirent_write of block k: the entry is resized first.
BeginWrite(p, h, k) ==
  /\ Begin(p, "write", h) /\ ~dirent[h].dir /\ k <= dirent[h].disk.size
  /\ dirent' = [dirent EXCEPT ![h].disk.size = IF k + 1 > @ THEN k + 1 ELSE @]
  /\ Goto(p, Place([NoOp EXCEPT !.kind = "write", !.h = h, !.i = k], dirent[h].disk))
  /\ Note("overlap", Overlaps(p, h))
  /\ UNCHANGED <<bitmap, inode, items, pointers>>

\* fs_dirent_close of the last reference: the inode is saved, changed or not.
Close(p, h) ==
  /\ Begin(p, "close", h) /\ h # Root /\ \A q \in Proc : op[q].h # h
  /\ inode' = [inode EXCEPT ![dirent[h].inum] = dirent[h].disk]
  /\ dirent' = [dirent EXCEPT ![h] = NoDirent]
  /\ UNCHANGED <<bitmap, items, pointers, op, hurt>>

-----------------------------------------------------------------------------
(* The steps of lookup, create and remove *)

\* diskfs_name_equals: the items of a block that have a name.
Matches(b, name) == {j \in 1..Items : items[b][j].name = name}

\* A block of the directory is read.  The entry of a file is blanked at once; for
\* a directory its inode is read in between.
Scan(p) ==
  LET o == op[p]
      b == BlockOf(DirOf(o), o.i)
      J == Matches(b, o.name)
      hit == items[b][Min(J)]
      blanked == [items[b] EXCEPT ![Min(J)] = Blank]
  IN  /\ o.at = "scan"
      /\ \/ /\ J # {} /\ Creates(o)
            /\ Goto(p, NoOp) /\ UNCHANGED <<items, hurt>>
         \/ /\ J # {} /\ o.kind = "open"
            /\ Goto(p, [o EXCEPT !.at = "load", !.inum = hit.inum,
                                 !.kind = IF hit.dir THEN "opendir" ELSE "open"])
            /\ UNCHANGED <<items, hurt>>
         \/ /\ J # {} /\ o.kind = "remove" /\ (hit.dir \/ o.i >= Direct)
            /\ LET c == [o EXCEPT !.inum = hit.inum, !.buf = blanked]
               IN  Goto(p, IF hit.dir THEN [c EXCEPT !.at = "rmdir"] ELSE Place(c, DirOf(o)))
            /\ Note("removed", ~hit.dir) /\ UNCHANGED items
         \/ /\ J # {} /\ o.kind = "remove" /\ ~hit.dir /\ o.i < Direct
            /\ items' = [items EXCEPT ![b] = blanked]
            /\ Goto(p, [o EXCEPT !.at = "free", !.inum = hit.inum, !.i = 0])
            /\ Note("removed", TRUE)
         \/ /\ J = {} /\ o.i + 1 < o.n
            /\ Goto(p, [o EXCEPT !.i = @ + 1]) /\ UNCHANGED <<items, hurt>>
         \/ /\ J = {} /\ o.i + 1 >= o.n
            /\ NotFound(p, o) /\ UNCHANGED items
      /\ UNCHANGED <<bitmap, inode, pointers, dirent, ops>>

\* diskfs_dirent_add: every block is full, another one is placed.  Bound: a directory stays
\* within the blocks an inode has; a formatted volume has fewer inodes than those hold items.
Grow(p, o) ==
  /\ o.n \in Slot /\ DirOf(o).size < (Direct + PerBlock) * Items
  /\ dirent' = [dirent EXCEPT ![o.h].disk.size = @ + 1]
  /\ Goto(p, Place([o EXCEPT !.buf = [BlankBlock EXCEPT ![1] = TheItem(o)], !.size = -1,
                             !.i = o.n], DirOf(o)))
  /\ Note("overlap", Overlaps(p, o.h))

\* diskfs_inumber_alloc and the diskfs_inode_save after it, which finds the block.
\* Mutant: the inode that is saved is not marked as used.
Taken_Unused(n) == [inode EXCEPT ![n] = NoInode]
Taken(n) == [inode EXCEPT ![n] = FreshInode]
InodeAlloc(p) ==
  LET free == {n \in Inum : ~inode[n].inuse}
      o == [op[p] EXCEPT !.at = "add", !.inum = Min(free), !.i = 0,
                         !.n = Blocks(DirOf(op[p]).size)]
  IN  /\ op[p].at = "ialloc"
      /\ \/ free = {} /\ Goto(p, NoOp) /\ UNCHANGED <<inode, dirent, hurt>>
         \/ /\ free # {}
            /\ inode' = Taken(Min(free))
            /\ IF o.n = 0 THEN Grow(p, o) ELSE Goto(p, o) /\ UNCHANGED <<dirent, hurt>>
      /\ UNCHANGED <<bitmap, items, pointers, ops>>

\* diskfs_dirent_add looks for a blank item and fills it.
Add(p) ==
  LET o == op[p]
      b == BlockOf(DirOf(o), o.i)
      J == {j \in 1..Items : items[b][j] = Blank}
      c == [o EXCEPT !.buf = [items[b] EXCEPT ![Min(J)] = TheItem(o)],
                     !.size = o.i * Items + Min(J)]
      grows == c.size > DirOf(o).size
  IN  /\ o.at = "add"
      /\ \/ /\ J # {} /\ o.i < Direct /\ b # 0
            /\ items' = [items EXCEPT ![b] = c.buf]
            /\ dirent' = [dirent EXCEPT ![o.h].disk.size = IF grows THEN c.size ELSE @]
            /\ Goto(p, IF grows THEN [c EXCEPT !.at = "save", !.slot = "final"]
                       ELSE [c EXCEPT !.at = "load"])
            /\ Note("twice", Rival(p, o))
         \/ /\ J # {} /\ (o.i >= Direct \/ b = 0)
            /\ Goto(p, Place(c, DirOf(o)))
            /\ Note("overlap", Overlaps(p, o.h)) /\ UNCHANGED <<items, dirent>>
         \/ /\ J = {} /\ o.i + 1 < o.n
            /\ Goto(p, [o EXCEPT !.i = @ + 1]) /\ UNCHANGED <<items, dirent, hurt>>
         \/ /\ J = {} /\ o.i + 1 >= o.n
            /\ Grow(p, o) /\ UNCHANGED items
      /\ UNCHANGED <<bitmap, inode, pointers, ops>>

\* diskfs_dirent_create: a directory entry with a copy of the inode.  One that is beyond
\* MaxHandles is closed at once.
Load(p) ==
  LET free == {h \in Handle : ~dirent[h].live}
      n == op[p].inum
  IN  /\ op[p].at = "load"
      /\ dirent' = IF free = {} THEN dirent
                   ELSE [dirent EXCEPT ![Min(free)] =
                           [live |-> TRUE, inum |-> n, dir |-> op[p].kind \in {"mkdir", "opendir"},
                            disk |-> inode[n]]]
      /\ Goto(p, NoOp)
      /\ Note("alias", \E h \in Handle : dirent[h].live /\ dirent[h].inum = n)
      /\ UNCHANGED <<bitmap, inode, items, pointers, ops>>

\* diskfs_dirent_remove of a directory: it must have been empty forever.
RemoveDir(p) ==
  /\ op[p].at = "rmdir"
  /\ Goto(p, IF inode[op[p].inum].size > 0 THEN NoOp ELSE Place(op[p], DirOf(op[p])))
  /\ Note("removed", inode[op[p].inum].size = 0)
  /\ UNCHANGED <<bitmap, inode, items, pointers, dirent, ops>>

\* diskfs_inode_delete.  It is called with the inode of the directory, so it frees the
\* blocks of the directory, and saves that inode in place of the one removed.
Condemned(o) == DirOf(o)
Free(p) ==
  LET o == op[p]
      d == Condemned(o)
      freed(k) == IF k < Direct THEN {d.direct[k]} ELSE {pointers[d.indirect][j] : j \in
                    {x \in 0..(PerBlock - 1) : Direct + x < Blocks(d.size)}}
  IN  /\ o.at = "free"
      /\ bitmap' = bitmap \ freed(o.i)
      /\ Goto(p, IF o.i + 1 >= Blocks(d.size) \/ o.i = Direct THEN [o EXCEPT !.at = "wipe"]
                 ELSE [o EXCEPT !.i = @ + 1])
      /\ UNCHANGED <<inode, items, pointers, dirent, ops, hurt>>
Wipe(p) ==
  /\ op[p].at = "wipe"
  /\ inode' = [inode EXCEPT ![op[p].inum] = [Condemned(op[p]) EXCEPT !.inuse = FALSE]]
  /\ Goto(p, NoOp)
  /\ UNCHANGED <<bitmap, items, pointers, dirent, ops, hurt>>

-----------------------------------------------------------------------------
(* The steps of diskfs_inode_write *)

\* diskfs_data_block_alloc, and where the new block is entered.  When there is none a
\* write fails, but diskfs_dirent_add goes on.
Alloc(p) ==
  LET o == op[p]
      b == Min(FreeBlocks)
  IN  /\ o.at = "alloc"
      /\ \/ /\ FreeBlocks = {}
            /\ Goto(p, IF Creates(o) THEN [o EXCEPT !.at = "save", !.slot = "final"] ELSE NoOp)
            /\ hurt' = hurt \cup {"full"}
            /\ UNCHANGED <<bitmap, dirent>>
         \/ /\ FreeBlocks # {}
            /\ bitmap' = Marked(b)
            /\ dirent' = CASE o.slot = "direct" -> [dirent EXCEPT ![o.h].disk.direct[o.i] = b]
                           [] o.slot = "indirect" -> [dirent EXCEPT ![o.h].disk.indirect = b]
                           [] o.slot = "pointer" -> dirent
            /\ Goto(p, IF o.slot = "pointer"
                       THEN [o EXCEPT !.at = "putptr", !.b = b, !.ptr[o.i - Direct] = b]
                       ELSE [o EXCEPT !.at = "save", !.b = b])
            /\ UNCHANGED hurt
      /\ UNCHANGED <<inode, items, pointers, ops>>

\* diskfs_inode_save.
Saved(o) == [inode EXCEPT ![dirent[o.h].inum] = DirOf(o)]
Save(p) ==
  LET o == op[p]
      next == [direct |-> "data", indirect |-> "zero", final |-> "load"]
  IN  /\ o.at = "save"
      /\ inode' = Saved(o)
      /\ Goto(p, [o EXCEPT !.at = next[o.slot]])
      /\ UNCHANGED <<bitmap, items, pointers, dirent, ops, hurt>>

\* The indirect block is cleared, read, and written back with one more pointer.
Zero(p) ==
  /\ op[p].at = "zero"
  /\ pointers' = [pointers EXCEPT ![op[p].b] = NoPointers]
  /\ Goto(p, [op[p] EXCEPT !.at = "getptr"])
  /\ UNCHANGED <<bitmap, inode, items, dirent, ops, hurt>>
GetPointer(p) ==
  LET o == op[p]
      P == pointers[DirOf(o).indirect]
  IN  /\ o.at = "getptr"
      /\ Goto(p, IF P[o.i - Direct] = 0 THEN [o EXCEPT !.at = "alloc", !.slot = "pointer", !.ptr = P]
                 ELSE [o EXCEPT !.at = "data", !.b = P[o.i - Direct]])
      /\ UNCHANGED <<bitmap, inode, items, pointers, dirent, ops, hurt>>
\* Mutant: the indirect block is not written back.
Pointed_Not(o) == pointers
Pointed(o) == [pointers EXCEPT ![DirOf(o).indirect] = o.ptr]
PutPointer(p) ==
  /\ op[p].at = "putptr"
  /\ pointers' = Pointed(op[p])
  /\ Goto(p, [op[p] EXCEPT !.at = "data"])
  /\ UNCHANGED <<bitmap, inode, items, dirent, ops, hurt>>

\* The block itself is written, and the caller goes on.
Data(p) ==
  LET o == op[p]
      size == DirOf(o).size
  IN  /\ o.at = "data"
      /\ items' = IF o.kind = "write" THEN items ELSE [items EXCEPT ![o.b] = o.buf]
      /\ dirent' = IF Creates(o) /\ o.size > size THEN [dirent EXCEPT ![o.h].disk.size = o.size]
                   ELSE dirent
      /\ Goto(p, CASE o.kind = "write" -> NoOp
                   [] o.kind = "remove" -> [o EXCEPT !.at = "free", !.i = 0]
                   [] Creates(o) /\ (o.size = -1 \/ o.size > size) ->
                        [o EXCEPT !.at = "save", !.slot = "final"]
                   [] OTHER -> [o EXCEPT !.at = "load"])
      /\ Note("twice", Creates(o) /\ Rival(p, o))
      /\ UNCHANGED <<bitmap, inode, pointers, ops>>

Next ==
  \E p \in Proc :
    \/ \E kind \in Ops, h \in Handle, name \in Name : BeginScan(p, kind, h, name)
    \/ \E h \in Handle : Close(p, h) \/ \E k \in Slot : BeginWrite(p, h, k)
    \/ Scan(p) \/ InodeAlloc(p) \/ Add(p) \/ Load(p)
    \/ RemoveDir(p) \/ Free(p) \/ Wipe(p)
    \/ Alloc(p) \/ Save(p) \/ Zero(p) \/ GetPointer(p) \/ PutPointer(p) \/ Data(p)

Spec == Init /\ [][Next]_vars

-----------------------------------------------------------------------------
(* Properties *)

\* The blocks of an inode, with the place each has in it.
Of(n, d) ==
  {<<n, k, d.direct[k]>> : k \in 0..(Direct - 1)} \cup {<<n, -1, d.indirect>>}
  \cup (IF d.indirect = 0 THEN {}
        ELSE {<<n, k, pointers[d.indirect][k - Direct]>> : k \in Direct..(Direct + PerBlock - 1)})
OnDisk == {x \in UNION {Of(n, inode[n]) : n \in {m \in Inum : inode[m].inuse}} : x[3] # 0}
InMemory == {x \in UNION {Of(dirent[h].inum, dirent[h].disk) : h \in {g \in Handle : dirent[g].live}} : x[3] # 0}

\* A block has one place: no two files, directories or pointer blocks share one, on the
\* disk or in the copies of inodes in memory, and all are marked in the bitmap.  This
\* survives every interleaving, stale copies of inodes and a full disk, but no removal.
OneOwner ==
  "removed" \notin hurt =>
    LET all == OnDisk \cup InMemory
    IN  /\ \A x, y \in all : x[3] = y[3] => x[1] = y[1] /\ x[2] = y[2]
        /\ \A x \in all : x[3] \in bitmap

\* A name is in a directory once, if no two processes were adding it or placing blocks of
\* the directory at the same time and the directory was not open twice.
Entries(n) ==
  {e \in (0..(Direct + PerBlock - 1)) \X (1..Items) :
     LET b == BlockOf(inode[n], e[1]) IN b # 0 /\ items[b][e[2]] # Blank}
ItemAt(n, e) == items[BlockOf(inode[n], e[1])][e[2]]
DirInums == {0} \cup {dirent[h].inum : h \in {g \in Handle : dirent[g].live /\ dirent[g].dir}}
NamesUnique ==
  hurt \subseteq {"full"} =>
    \A n \in DirInums : \A e, f \in Entries(n) :
      ItemAt(n, e).name = ItemAt(n, f).name => e = f

\* An entry leads to an inode in use: it is added after the inode was taken and saved.
EntriesLive ==
  "removed" \notin hurt => \A n \in DirInums : \A e \in Entries(n) : inode[ItemAt(n, e).inum].inuse

\* No block is lost: what the bitmap says is used has a place on the disk, or is on its
\* way there.  Unsaved copies are on their way: diskfs_dirent_close saves them.
NoLeak ==
  hurt \subseteq {"full", "twice"} =>
    bitmap \ {0} \subseteq {x[3] : x \in OnDisk \cup InMemory} \cup {op[p].b : p \in Proc}
=============================================================================
