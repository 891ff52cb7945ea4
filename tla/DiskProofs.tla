----------------------------- MODULE DiskProofs -----------------------------
(***************************************************************************)
(* Theorems about DiskFS, for volumes, directories and inodes of any size  *)
(* and any finite number of processes: the disk file system keeps its      *)
(* types, its ownership of blocks, its accounting of blocks and its names. *)
(***************************************************************************)
EXTENDS DiskFS, BasicLemmas


Item == {r \in [name : Name \cup {"none", "."}, inum : Inum, dir : BOOLEAN] : r.name = "none" => r = Blank}
ItemBlock == [1..Items -> Item]
Capacity == (Direct + PerBlock) * Items
InodeRecord == [inuse : BOOLEAN, size : 0..Capacity, direct : [0..(Direct - 1) -> Block], indirect : Block]
Direntry == [live : BOOLEAN, inum : Inum, dir : BOOLEAN, disk : InodeRecord]
Operation ==
  [at : {"user", "scan", "rmdir", "ialloc", "add", "load", "free", "wipe", "alloc", "save", "zero",
         "getptr", "putptr", "data"},
   kind : {"none", "mkfile", "mkdir", "open", "opendir", "write", "remove"},
   h : Handle \cup {0}, name : Name \cup {"none"}, i : Slot, n : 0..(Direct + PerBlock),
   inum : Inum, slot : {"none", "direct", "indirect", "pointer", "final"}, b : Block,
   size : (0..Capacity) \cup {-1}, buf : ItemBlock, ptr : [0..(PerBlock - 1) -> Block]]

\* What the position of an operation says of its fields.
Shaped(o) ==
  /\ o.at # "user" => o.h \in Handle
  /\ o.at = "scan" => o.i < o.n /\ o.kind \in {"mkfile", "mkdir", "open", "remove"}
  /\ o.at \in {"ialloc", "add"} => Creates(o)
  /\ o.at = "add" => o.i < o.n
  /\ o.at = "rmdir" => o.kind = "remove"
  /\ o.at \in {"alloc", "save", "zero", "getptr", "putptr", "data"} =>
       o.kind \in {"mkfile", "mkdir", "write", "remove"}
  /\ o.at = "alloc" => o.slot \in {"direct", "indirect", "pointer"}
  /\ o.at = "save" => o.slot \in {"direct", "indirect", "final"}
  /\ o.at = "save" /\ o.slot = "final" => Creates(o)
  /\ o.at \in {"alloc", "save"} /\ o.slot = "direct" => o.i < Direct
  /\ o.at \in {"alloc", "save"} /\ o.slot \in {"indirect", "pointer"} => o.i >= Direct
  /\ o.at \in {"zero", "getptr", "putptr"} => o.i >= Direct
  /\ Creates(o) => o.name \in Name
OpsTyped(f, D) ==
  /\ f \in [Proc -> Operation]
  /\ \A p \in Proc : Shaped(f[p]) /\ (f[p].at # "user" => D[f[p].h].live)
Typed ==
  /\ bitmap \subseteq Block /\ inode \in [Inum -> InodeRecord]
  /\ items \in [Block -> ItemBlock] /\ pointers \in [Block -> [0..(PerBlock - 1) -> Block]]
  /\ dirent \in [Handle -> Direntry] /\ OpsTyped(op, dirent)
  /\ ops \in 0..MaxOps /\ hurt \subseteq Race

Strict(o) == o.at \in {"alloc", "zero", "getptr", "putptr", "data"} \/ (o.at = "save" /\ o.slot # "final")

\* The k-th block of inode d when the indirect blocks are P, and its j-th item when the
\* directory blocks are I.
Where(P, d, k) == IF k < Direct THEN d.direct[k] ELSE P[d.indirect][k - Direct]
Entry(P, I, d, k, j) == I[Where(P, d, k)][j]

\* Unless an entry was removed:
InUse ==
  /\ inode[0].inuse
  /\ \A h \in Handle : inode[dirent[h].inum].inuse /\ (dirent[h].live => dirent[h].disk.inuse)
  /\ \A b \in Block, j \in 1..Items : inode[items[b][j].inum].inuse
  /\ \A p \in Proc : /\ inode[op[p].inum].inuse
                     /\ \A j \in 1..Items : inode[op[p].buf[j].inum].inuse
                     /\ op[p].at \notin {"free", "wipe"}
                     /\ op[p].kind = "remove" => op[p].at \in {"scan", "rmdir"}
NewBlocks ==
  /\ 0 \in bitmap
  /\ \A b \in Block : b \notin bitmap \/ b = 0 => items[b] = BlankBlock

\* w: the place that was given to a block; B: the blocks in use.
Conforms(w, B, d, n) ==
  /\ \A k \in 0..(Direct - 1) : d.direct[k] # 0 => d.direct[k] \in B /\ w[d.direct[k]] = <<n, k>>
  /\ d.indirect # 0 => d.indirect \in B /\ w[d.indirect] = <<n, -1>>
PointersAt(w, B, P, n) ==
  \A j \in 0..(PerBlock - 1) : P[j] # 0 => P[j] \in B /\ w[P[j]] = <<n, Direct + j>>
OpAt(w, B, o, d, n) ==
  /\ o.at \in {"zero", "putptr", "data"} \/ (o.at = "save" /\ o.slot # "final") => o.b \in B \ {0}
  /\ o.at = "data" \/ o.at = "putptr" \/ (o.at = "save" /\ o.slot = "direct") => w[o.b] = <<n, o.i>>
  /\ o.at = "zero" \/ (o.at = "save" /\ o.slot = "indirect") => w[o.b] = <<n, -1>>
  /\ o.at \in {"zero", "getptr", "putptr"} \/ (o.at = "save" /\ o.slot = "indirect")
       \/ (o.at = "alloc" /\ o.slot = "pointer") => d.indirect # 0
  /\ o.at = "putptr" \/ (o.at = "alloc" /\ o.slot = "pointer") => PointersAt(w, B, o.ptr, n)
Placed(w) ==
  /\ \A n \in Inum : Conforms(w, bitmap, inode[n], n)
  /\ \A h \in Handle : Conforms(w, bitmap, dirent[h].disk, dirent[h].inum)
  /\ \A b \in Block : pointers[b] # NoPointers =>
       b \in bitmap \ {0} /\ \E n \in Inum : w[b] = <<n, -1>> /\ PointersAt(w, bitmap, pointers[b], n)
  /\ \A p \in Proc :
       op[p].at # "user" => OpAt(w, bitmap, op[p], dirent[op[p].h].disk, dirent[op[p].h].inum)

\* Unless it was opened twice or placements overlapped:
OneHandle ==
  \A g, h \in Handle : dirent[g].live /\ dirent[h].live /\ dirent[g].inum = dirent[h].inum => g = h
OnePlacer ==
  \A p, q \in Proc : Strict(op[p]) /\ Strict(op[q]) /\ op[p].h = op[q].h => p = q
Behind(c, d) ==
  /\ \A k \in 0..(Direct - 1) : c.direct[k] \in {0, d.direct[k]}
  /\ c.indirect \in {0, d.indirect}
Ahead == \A h \in Handle : dirent[h].live => Behind(inode[dirent[h].inum], dirent[h].disk)
Phase(P, I, o, d) ==
  /\ o.at = "alloc" /\ o.slot = "direct" => d.direct[o.i] = 0
  /\ o.at = "alloc" /\ o.slot = "indirect" => d.indirect = 0
  /\ o.at = "save" /\ o.slot = "direct" => o.b = d.direct[o.i]
  /\ o.at = "zero" \/ (o.at = "save" /\ o.slot = "indirect") =>
       o.b = d.indirect /\ P[o.b] = NoPointers
  /\ o.at = "alloc" /\ o.slot = "pointer" => o.ptr = P[d.indirect] /\ o.ptr[o.i - Direct] = 0
  /\ o.at = "putptr" => /\ o.ptr = [P[d.indirect] EXCEPT ![o.i - Direct] = o.b]
                        /\ P[d.indirect][o.i - Direct] = 0
                        /\ I[o.b] = BlankBlock
  /\ o.at = "data" => o.b = Where(P, d, o.i)
Phases == \A p \in Proc : op[p].at # "user" => Phase(pointers, items, op[p], dirent[op[p].h].disk)
Has(P, d, b) ==
  \/ \E k \in 0..(Direct - 1) : d.direct[k] = b
  \/ d.indirect = b
  \/ \E j \in 0..(PerBlock - 1) : P[d.indirect][j] = b
Kept ==
  \A b \in bitmap \ {0} :
    \/ \E h \in Handle : dirent[h].live /\ Has(pointers, dirent[h].disk, b)
    \/ \E n \in Inum : inode[n].inuse /\ Has(pointers, inode[n], b)
    \/ \E p \in Proc : op[p].at = "putptr" /\ op[p].b = b
Calm == OneHandle /\ OnePlacer /\ Ahead /\ Phases /\ Kept

\* Unless one name was added by two:
Sized(P, I, d) ==
  \A k \in Slot, j \in 1..Items : Entry(P, I, d, k, j).name # "none" => k * Items + j <= d.size
Unique(P, I, d) ==
  \A k, l \in Slot, j, m \in 1..Items :
    Entry(P, I, d, k, j).name = Entry(P, I, d, l, m).name /\ Entry(P, I, d, k, j).name # "none" =>
      k = l /\ j = m
Absent(P, I, d, name) == \A k \in Slot, j \in 1..Items : Entry(P, I, d, k, j).name # name
Directories ==
  /\ \A h \in Handle : dirent[h].live => /\ Sized(pointers, items, dirent[h].disk)
                                        /\ Unique(pointers, items, dirent[h].disk)
  /\ \A n \in Inum : (\A h \in Handle : dirent[h].live => dirent[h].inum # n) =>
                       Sized(pointers, items, inode[n]) /\ Unique(pointers, items, inode[n])
\* The buffer has the new item, and otherwise what is in the block; and the size it needs.
Carries(P, I, o, d) ==
  \E t \in 1..Items :
    /\ o.buf[t] = TheItem(o)
    /\ \A j \in 1..Items \ {t} : o.buf[j] \in {Blank, Entry(P, I, d, o.i, j)}
    /\ o.size = -1 => t = 1 /\ o.i * Items + 1 <= d.size
    /\ o.size # -1 => o.size = o.i * Items + t
Adding(P, I, o, d) ==
  /\ o.at = "scan" => \A k \in Slot, j \in 1..Items :
                         k < o.i \/ k >= o.n => Entry(P, I, d, k, j).name # o.name
  /\ o.at \in {"ialloc", "add"} \/ Strict(o) => Absent(P, I, d, o.name)
  /\ Strict(o) => Carries(P, I, o, d)
AllAdding ==
  \A p \in Proc : op[p].at # "user" /\ Creates(op[p]) =>
                   Adding(pointers, items, op[p], dirent[op[p].h].disk)

-----------------------------------------------------------------------------
(* Facts about the operators *)

\* Multiplication by the number of items respects the order.
LEMMA TimesMonotone ==
  ASSUME NEW a \in Int, NEW b \in Int, NEW c \in Nat, a <= b
  PROVE  a * c <= b * c
<1>1. (b - a) * c >= 0
  <2>1. b - a \in Nat
    OBVIOUS
  <2>2. \A x, y \in Nat : x * y >= 0
    OBVIOUS
  <2> QED BY <2>1, <2>2
<1> QED BY <1>1

\* A directory of size items has the blocks that begin below it.
LEMMA BlocksFacts ==
  ASSUME DiskAssumption, NEW size \in 0..Capacity
  PROVE  /\ Blocks(size) \in 0..(Direct + PerBlock)
         /\ \A k \in Nat : k < Blocks(size) <=> k * Items < size
<1> USE DEF DiskAssumption, Capacity
<1> DEFINE n == Blocks(size)
<1>1. n \in Int /\ n * Items <= size + Items - 1 /\ size + Items - 1 < n * Items + Items
  <2>1. \A x \in Nat, y \in Nat \ {0} : LET q == x \div y IN q \in Int /\ q * y <= x /\ x < q * y + y
    BY Z3
  <2>2. size + Items - 1 \in Nat /\ Items \in Nat \ {0}
    OBVIOUS
  <2> QED BY <2>1, <2>2 DEF Blocks
<1> HIDE DEF n
<1>2. (Direct + PerBlock) \in Nat /\ Items \in Nat /\ Items > 0 /\ size <= (Direct + PerBlock) * Items
  OBVIOUS
<1>3. n >= 0
  <2>1. n <= -1 => n * Items <= (-1) * Items
    BY <1>1, <1>2, TimesMonotone
  <2> QED BY <2>1, <1>1, <1>2
<1>4. n <= Direct + PerBlock
  <2>1. n >= Direct + PerBlock + 1 => n * Items >= (Direct + PerBlock + 1) * Items
    BY <1>1, <1>2, TimesMonotone
  <2>2. (Direct + PerBlock + 1) * Items = (Direct + PerBlock) * Items + Items
    BY <1>2
  <2> QED BY <2>1, <2>2, <1>1, <1>2
<1>5. ASSUME NEW k \in Nat PROVE k < n <=> k * Items < size
  <2>1. k + 1 <= n => (k + 1) * Items <= n * Items
    BY <1>1, <1>2, TimesMonotone
  <2>2. n <= k => n * Items <= k * Items
    BY <1>1, <1>2, TimesMonotone
  <2>3. (k + 1) * Items = k * Items + Items
    BY <1>2
  <2> QED BY <2>1, <2>2, <2>3, <1>1, <1>2
<1> QED BY <1>3, <1>4, <1>5, <1>1 DEF n

\* What diskfs_inode_write does next: it only chooses a step, a pointer to set and a block.
LEMMA PlaceFacts ==
  ASSUME DiskAssumption, NEW o \in Operation, o.h \in Handle, NEW d \in InodeRecord,
         o.kind \in {"mkfile", "mkdir", "write", "remove"}, Creates(o) => o.name \in Name
  PROVE  LET r == Place(o, d)
         IN  /\ r \in Operation /\ Shaped(r) /\ Strict(r) /\ r.at \notin {"user", "save", "zero", "putptr"}
             /\ r.kind = o.kind /\ r.h = o.h /\ r.name = o.name /\ r.i = o.i /\ r.n = o.n
             /\ r.inum = o.inum /\ r.size = o.size /\ r.buf = o.buf
             /\ r.at = "alloc" => \/ r.slot = "direct" /\ o.i < Direct /\ d.direct[o.i] = 0
                                  \/ r.slot = "indirect" /\ o.i >= Direct /\ d.indirect = 0
             /\ r.at = "data" => o.i < Direct /\ d.direct[o.i] # 0 /\ r.b = d.direct[o.i]
             /\ r.at = "getptr" => o.i >= Direct /\ d.indirect # 0
<1> USE DEF DiskAssumption
<1> DEFINE r == Place(o, d)
           Kin == /\ r \in Operation /\ r.kind = o.kind /\ r.h = o.h /\ r.name = o.name
                  /\ r.i = o.i /\ r.n = o.n /\ r.inum = o.inum /\ r.size = o.size /\ r.buf = o.buf
<1>0. o.i \in Nat /\ Direct \in Nat /\ (o.i < Direct => o.i \in 0..(Direct - 1))
  BY DEF Operation, Slot
<1>1. CASE o.i < Direct /\ d.direct[o.i] = 0
  <2>1. r = [o EXCEPT !.at = "alloc", !.slot = "direct"]
    BY <1>1, <1>0 DEF Place
  <2>2. Kin /\ r.at = "alloc" /\ r.slot = "direct"
    BY <2>1, ZenonT(40) DEF Operation
  <2> QED BY <2>2, <1>1, <1>0 DEF Shaped, Strict, Creates
<1>2. CASE o.i < Direct /\ d.direct[o.i] # 0
  <2>1. r = [o EXCEPT !.at = "data", !.b = d.direct[o.i]]
    BY <1>2, <1>0 DEF Place
  <2>2. d.direct[o.i] \in Block
    BY <1>2, <1>0 DEF InodeRecord
  <2>3. Kin /\ r.at = "data" /\ r.b = d.direct[o.i]
    BY <2>1, <2>2 DEF Operation
  <2> QED BY <2>3, <1>2, <1>0 DEF Shaped, Strict, Creates
<1>3. CASE o.i >= Direct /\ d.indirect = 0
  <2>1. r = [o EXCEPT !.at = "alloc", !.slot = "indirect"]
    BY <1>3, <1>0 DEF Place
  <2>2. Kin /\ r.at = "alloc" /\ r.slot = "indirect"
    BY <2>1, ZenonT(40) DEF Operation
  <2> QED BY <2>2, <1>3, <1>0 DEF Shaped, Strict, Creates
<1>4. CASE o.i >= Direct /\ d.indirect # 0
  <2>1. r = [o EXCEPT !.at = "getptr"]
    BY <1>4, <1>0 DEF Place
  <2>2. Kin /\ r.at = "getptr"
    BY <2>1 DEF Operation
  <2> QED BY <2>2, <1>4, <1>0 DEF Shaped, Strict, Creates
<1> QED BY <1>1, <1>2, <1>3, <1>4, <1>0

\* The initial values have their types.
LEMMA Constants ==
  ASSUME DiskAssumption
  PROVE  /\ 0 \in Block /\ 1 \in Block /\ 0 \in Inum /\ 0 \in Slot /\ Root \in Handle
         /\ Direct \in Nat \ {0} /\ PerBlock \in Nat \ {0} /\ Items \in Nat \ {0} /\ Capacity \in Nat \ {0}
         /\ Blank \in Item /\ BlankBlock \in ItemBlock /\ NoPointers \in [0..(PerBlock - 1) -> Block]
         /\ FreshInode \in InodeRecord /\ NoInode \in InodeRecord /\ RootInode \in InodeRecord
         /\ NoDirent \in Direntry /\ NoOp \in Operation /\ Shaped(NoOp) /\ NoOp.at = "user"
<1> USE DEF DiskAssumption
<1>1. Direct \in Nat \ {0} /\ PerBlock \in Nat \ {0} /\ Items \in Nat \ {0} /\ NBlocks \in Nat /\ NBlocks > 1
      /\ NInodes \in Nat \ {0} /\ MaxHandles \in Nat \ {0}
  OBVIOUS
<1>2. 0 \in Block /\ 1 \in Block /\ 0 \in Inum /\ 0 \in Slot /\ Root \in Handle
  BY <1>1 DEF Block, Inum, Slot, Root, Handle
<1>3. Capacity \in Nat \ {0}
  <2>1. \A x, y \in Nat \ {0} : x * y \in Nat \ {0}
    OBVIOUS
  <2> QED BY <2>1, <1>1 DEF Capacity
<1>4. Blank \in Item /\ BlankBlock \in ItemBlock /\ NoPointers \in [0..(PerBlock - 1) -> Block]
  BY <1>2 DEF Blank, Item, BlankBlock, ItemBlock, NoPointers
<1>5. FreshInode \in InodeRecord /\ NoInode \in InodeRecord /\ RootInode \in InodeRecord
  <2>1. FreshInode \in InodeRecord
    BY <1>1, <1>2, <1>3 DEF FreshInode, InodeRecord
  <2>2. NoInode \in InodeRecord
    BY <2>1 DEF NoInode, InodeRecord
  <2>3. 0 \in 0..(Direct - 1) /\ 1 \in 0..Capacity
    BY <1>1, <1>3
  <2>4. [FreshInode.direct EXCEPT ![0] = 1] \in [0..(Direct - 1) -> Block]
    BY <2>1, <2>3, <1>2 DEF InodeRecord
  <2>5. RootInode = [FreshInode EXCEPT !.size = 1, !.direct = [FreshInode.direct EXCEPT ![0] = 1]]
    BY DEF RootInode
  <2>6. RootInode \in InodeRecord
    BY <2>1, <2>3, <2>4, <2>5 DEF InodeRecord
  <2> QED BY <2>1, <2>2, <2>6
<1>6. NoDirent \in Direntry
  BY <1>2, <1>5 DEF NoDirent, Direntry
<1>7. NoOp \in Operation
  BY <1>1, <1>2, <1>3, <1>4 DEF NoOp, Operation
<1>8. Shaped(NoOp) /\ NoOp.at = "user"
  BY DEF NoOp, Shaped, Creates
<1> QED BY <1>1, <1>2, <1>3, <1>4, <1>5, <1>6, <1>7, <1>8

\* A block of an inode is a block of the disk.
LEMMA BlockOfIn ==
  ASSUME DiskAssumption, Typed, NEW d \in InodeRecord, NEW k \in Slot
  PROVE  BlockOf(d, k) \in Block /\ BlockOf(d, k) = Where(pointers, d, k)
<1>1. BlockOf(d, k) = Where(pointers, d, k)
  BY DEF BlockOf, Where
<1>2. CASE k < Direct
  BY <1>1, <1>2 DEF Where, InodeRecord, Slot, DiskAssumption
<1>3. CASE ~(k < Direct)
  <2>1. d.indirect \in Block /\ k - Direct \in 0..(PerBlock - 1)
    BY <1>3 DEF InodeRecord, Slot, DiskAssumption
  <2> QED BY <1>1, <1>3, <2>1 DEF Where, Typed
<1> QED BY <1>2, <1>3

\* Where the operation of a process is.
LEMMA OpFacts ==
  ASSUME DiskAssumption, Typed, NEW p \in Proc, op[p].at # "user"
  PROVE  /\ op[p] \in Operation /\ Shaped(op[p]) /\ op[p].h \in Handle /\ dirent[op[p].h].live
         /\ DirOf(op[p]) \in InodeRecord /\ dirent[op[p].h].inum \in Inum
         /\ BlockOf(DirOf(op[p]), op[p].i) \in Block
         /\ BlockOf(DirOf(op[p]), op[p].i) = Where(pointers, DirOf(op[p]), op[p].i)
<1>1. op[p] \in Operation /\ Shaped(op[p]) /\ op[p].h \in Handle /\ dirent[op[p].h].live
  BY DEF Typed, OpsTyped, Shaped
<1>2. DirOf(op[p]) \in InodeRecord /\ dirent[op[p].h].inum \in Inum
  BY <1>1 DEF Typed, DirOf, Direntry
<1>3. op[p].i \in Slot
  BY <1>1 DEF Operation
<1> QED BY <1>1, <1>2, <1>3, BlockOfIn

\* An operation goes on, and the others stay where they are.
LEMMA GotoFacts ==
  ASSUME Typed, NEW p \in Proc, NEW o \in Operation, Goto(p, o), Shaped(o)
  PROVE  /\ op' \in [Proc -> Operation] /\ op'[p] = o /\ \A q \in Proc \ {p} : op'[q] = op[q]
         /\ \A q \in Proc : Shaped(op'[q])
<1>1. op' = [op EXCEPT ![p] = o] /\ op \in [Proc -> Operation] /\ \A q \in Proc : Shaped(op[q])
  BY DEF Goto, Typed, OpsTyped
<1>2. op' \in [Proc -> Operation] /\ op'[p] = o /\ \A q \in Proc \ {p} : op'[q] = op[q]
  BY <1>1
<1> QED BY <1>1, <1>2

\* A process goes on, and every directory entry in use stays so.
LEMMA GotoTyped ==
  ASSUME Typed, NEW p \in Proc, NEW o \in Operation, Goto(p, o), Shaped(o),
         o.at # "user" => dirent'[o.h].live,
         \A h \in Handle : dirent[h].live => dirent'[h].live
  PROVE  OpsTyped(op', dirent') /\ op'[p] = o /\ \A q \in Proc \ {p} : op'[q] = op[q]
<1>1. /\ op' \in [Proc -> Operation] /\ op'[p] = o /\ \A q \in Proc \ {p} : op'[q] = op[q]
      /\ \A q \in Proc : Shaped(op'[q])
  BY GotoFacts
<1>2. ASSUME NEW q \in Proc, op'[q].at # "user" PROVE dirent'[op'[q].h].live
  <2>1. CASE q = p
    BY <1>1, <1>2, <2>1
  <2>2. CASE q # p
    BY <1>1, <1>2, <2>2 DEF Typed, OpsTyped, Shaped
  <2> QED BY <2>1, <2>2
<1> QED BY <1>1, <1>2 DEF OpsTyped

\* What is recorded stays recorded.
LEMMA NoteFacts ==
  ASSUME hurt \subseteq Race, NEW what \in Race, NEW c \in BOOLEAN, Note(what, c)
  PROVE  hurt' \subseteq Race /\ hurt \subseteq hurt' /\ (c => what \in hurt')
BY DEF Note

\* The new item is an item.
LEMMA ItemFacts ==
  ASSUME DiskAssumption, NEW o \in Operation, Creates(o), o.name \in Name
  PROVE  TheItem(o) \in Item /\ TheItem(o).name = o.name /\ TheItem(o).inum = o.inum /\ TheItem(o) # Blank
BY DEF TheItem, Item, Operation, DiskAssumption, Blank

\* A name that was not found: a creation takes an inode, everything else ends.
LEMMA NotFoundFacts ==
  ASSUME DiskAssumption, Typed, NEW p \in Proc, NEW o \in Operation, o.h \in Handle, dirent[o.h].live,
         Creates(o) => o.name \in Name, NotFound(p, o), dirent' = dirent
  PROVE  /\ OpsTyped(op', dirent') /\ \A q \in Proc \ {p} : op'[q] = op[q]
         /\ hurt' \subseteq Race /\ hurt \subseteq hurt'
         /\ \/ Creates(o) /\ op'[p] = [o EXCEPT !.at = "ialloc"] /\ (Rival(p, o) => "twice" \in hurt')
            \/ ~Creates(o) /\ op'[p] = NoOp /\ hurt' = hurt
<1>0. hurt \subseteq Race
  BY DEF Typed
<1>1. CASE Creates(o)
  <2> DEFINE c == [o EXCEPT !.at = "ialloc"]
  <2>1. c \in Operation /\ c.at = "ialloc" /\ c.kind = o.kind /\ c.name = o.name /\ c.h = o.h
    BY DEF Operation
  <2>2. Shaped(c)
    BY <2>1, <1>1 DEF Shaped, Creates
  <2>3. Goto(p, c) /\ Note("twice", Rival(p, o))
    BY <1>1 DEF NotFound
  <2> HIDE DEF c
  <2>4. OpsTyped(op', dirent') /\ op'[p] = c /\ \A q \in Proc \ {p} : op'[q] = op[q]
    BY <2>1, <2>2, <2>3, GotoTyped
  <2>5. hurt' \subseteq Race /\ hurt \subseteq hurt' /\ (Rival(p, o) => "twice" \in hurt')
    BY <2>3, <1>0 DEF Note, Race
  <2> QED BY <2>4, <2>5, <1>1 DEF c
<1>2. CASE ~Creates(o)
  <2>1. Goto(p, NoOp) /\ hurt' = hurt
    BY <1>2 DEF NotFound
  <2>2. OpsTyped(op', dirent') /\ op'[p] = NoOp /\ \A q \in Proc \ {p} : op'[q] = op[q]
    BY <2>1, GotoTyped, Constants
  <2> QED BY <2>1, <2>2, <1>2, <1>0
<1> QED BY <1>1, <1>2

\* A process begins to place a block of the file or directory of its operation.
LEMMA PlaceTyped ==
  ASSUME DiskAssumption, Typed, NEW p \in Proc, NEW o \in Operation, o.h \in Handle, dirent[o.h].live,
         o.kind \in {"mkfile", "mkdir", "write", "remove"}, Creates(o) => o.name \in Name,
         \A h \in Handle : dirent[h].live => dirent'[h].live,
         Goto(p, Place(o, DirOf(o)))
  PROVE  /\ OpsTyped(op', dirent') /\ op'[p] = Place(o, DirOf(o))
         /\ \A q \in Proc \ {p} : op'[q] = op[q]
<1>1. DirOf(o) \in InodeRecord
  BY DEF Typed, DirOf, Direntry
<1>2. Place(o, DirOf(o)) \in Operation /\ Shaped(Place(o, DirOf(o))) /\ Place(o, DirOf(o)).h = o.h
  BY <1>1, PlaceFacts
<1> HIDE DEF DirOf
<1> QED BY <1>2, GotoTyped

\* Directory entries in memory keep what they are and where their blocks are, and do not shrink.
SameDirents ==
  /\ dirent' \in [Handle -> Direntry]
  /\ \A g \in Handle : /\ dirent'[g].live = dirent[g].live /\ dirent'[g].inum = dirent[g].inum
                       /\ dirent'[g].dir = dirent[g].dir
                       /\ dirent'[g].disk.direct = dirent[g].disk.direct
                       /\ dirent'[g].disk.indirect = dirent[g].disk.indirect
                       /\ dirent'[g].disk.inuse = dirent[g].disk.inuse
                       /\ dirent'[g].disk.size >= dirent[g].disk.size
Goes(p, o) == OpsTyped(op', dirent') /\ op'[p] = o /\ \A q \in Proc \ {p} : op'[q] = op[q]
Noted(what, c) == hurt \subseteq hurt' /\ hurt' \subseteq Race /\ (c => what \in hurt')

Resized(h, s) == dirent' = [dirent EXCEPT ![h].disk.size = s]
\* A new size leaves the directory entries otherwise the same.
LEMMA SizeFacts ==
  ASSUME Typed, NEW h \in Handle, NEW s \in 0..Capacity, s >= dirent[h].disk.size, Resized(h, s)
  PROVE  /\ SameDirents
         /\ dirent'[h] = [dirent[h] EXCEPT !.disk = [dirent[h].disk EXCEPT !.size = s]]
         /\ dirent'[h].disk.size = s
         /\ \A g \in Handle \ {h} : dirent'[g] = dirent[g]
<1>1. dirent \in [Handle -> Direntry] /\ dirent[h] \in Direntry /\ dirent[h].disk \in InodeRecord
      /\ \A g \in Handle : dirent[g].disk.size \in Nat
  BY DEF Typed, Direntry, InodeRecord
<1> DEFINE k == [dirent[h].disk EXCEPT !.size = s]
           d == [dirent[h] EXCEPT !.disk = k]
<1>2. k \in InodeRecord /\ k.size = s /\ k.direct = dirent[h].disk.direct
      /\ k.indirect = dirent[h].disk.indirect /\ k.inuse = dirent[h].disk.inuse
  BY <1>1 DEF InodeRecord
<1>3. dirent' = [dirent EXCEPT ![h] = d]
  BY DEF Resized
<1> HIDE DEF k
<1>4. d \in Direntry /\ d.disk = k /\ d.live = dirent[h].live /\ d.inum = dirent[h].inum
      /\ d.dir = dirent[h].dir
  BY <1>1, <1>2 DEF Direntry
<1> HIDE DEF d
<1>5. dirent' \in [Handle -> Direntry] /\ dirent'[h] = d /\ \A g \in Handle \ {h} : dirent'[g] = dirent[g]
  BY <1>1, <1>3, <1>4
<1>6. ASSUME NEW g \in Handle
      PROVE  /\ dirent'[g].live = dirent[g].live /\ dirent'[g].inum = dirent[g].inum
             /\ dirent'[g].dir = dirent[g].dir
             /\ dirent'[g].disk.direct = dirent[g].disk.direct
             /\ dirent'[g].disk.indirect = dirent[g].disk.indirect
             /\ dirent'[g].disk.inuse = dirent[g].disk.inuse
             /\ dirent'[g].disk.size >= dirent[g].disk.size
  <2>1. CASE g = h
    BY <2>1, <1>1, <1>2, <1>4, <1>5
  <2>2. CASE g # h
    BY <2>2, <1>1, <1>5
  <2> QED BY <2>1, <2>2
<1>7. SameDirents
  BY <1>5, <1>6 DEF SameDirents
<1> QED BY <1>5, <1>7, <1>4, <1>2 DEF d, k

\* Directory entries that do not change are the same.
LEMMA SameDirentsKept ==
  ASSUME Typed, dirent' = dirent
  PROVE  SameDirents
BY DEF Typed, SameDirents, Direntry, InodeRecord, Capacity

\* The operation when the directory grows: its item is the first of a new block.
Grown(o) == [o EXCEPT !.buf = [BlankBlock EXCEPT ![1] = TheItem(o)], !.size = -1, !.i = o.n]
\* diskfs_dirent_add places one more block, with the new item in front.
LEMMA GrowFacts ==
  ASSUME DiskAssumption, Typed, NEW p \in Proc, NEW o \in Operation, o.h \in Handle, dirent[o.h].live,
         Creates(o), o.name \in Name, Grow(p, o)
  PROVE  /\ SameDirents /\ Goes(p, Place(Grown(o), DirOf(o)))
         /\ dirent'[o.h].disk.size = DirOf(o).size + 1
         /\ Noted("overlap", Overlaps(p, o.h))
         /\ o.n \in Slot
         /\ Grown(o) \in Operation /\ Grown(o).kind = o.kind /\ Grown(o).h = o.h
         /\ Grown(o).name = o.name /\ Grown(o).inum = o.inum /\ Grown(o).i = o.n /\ Grown(o).size = -1
         /\ Grown(o).buf = [BlankBlock EXCEPT ![1] = TheItem(o)]
<1> DEFINE x == [o EXCEPT !.buf = [BlankBlock EXCEPT ![1] = TheItem(o)], !.size = -1, !.i = o.n]
           s == DirOf(o).size + 1
<1>1. /\ o.n \in Slot /\ DirOf(o).size < Capacity
      /\ dirent' = [dirent EXCEPT ![o.h].disk.size = s]
      /\ Goto(p, Place(x, DirOf(o))) /\ Note("overlap", Overlaps(p, o.h))
  BY DEF Grow, Capacity, DirOf
<1>2. [BlankBlock EXCEPT ![1] = TheItem(o)] \in ItemBlock
  BY ItemFacts, Constants DEF ItemBlock
<1>3. /\ x \in Operation /\ x.h = o.h /\ x.kind = o.kind /\ x.name = o.name /\ x.inum = o.inum
      /\ x.i = o.n /\ x.size = -1 /\ x.buf = [BlankBlock EXCEPT ![1] = TheItem(o)]
  BY <1>1, <1>2 DEF Operation
<1>4. s \in 0..Capacity /\ s >= dirent[o.h].disk.size
  <2>1. dirent[o.h] \in Direntry /\ Capacity \in Nat
    BY Constants DEF Typed
  <2>2. dirent[o.h].disk.size \in 0..Capacity
    BY <2>1 DEF Direntry, InodeRecord
  <2> QED BY <2>1, <2>2, <1>1 DEF DirOf
<1>5. SameDirents /\ dirent'[o.h].disk.size = s
  <2>1. Resized(o.h, s)
    BY <1>1 DEF Resized
  <2> HIDE DEF s
  <2> QED BY <2>1, <1>4, SizeFacts
<1>6. Goes(p, Place(x, DirOf(o)))
  <2>1. x.kind \in {"mkfile", "mkdir", "write", "remove"} /\ Creates(x) /\ DirOf(x) = DirOf(o)
    BY <1>3 DEF Creates, DirOf
  <2>2. \A h \in Handle : dirent[h].live => dirent'[h].live
    BY <1>5 DEF SameDirents
  <2> HIDE DEF x
  <2> QED BY <2>1, <2>2, <1>1, <1>3, PlaceTyped, ZenonT(40) DEF Goes
<1>7. Noted("overlap", Overlaps(p, o.h))
  BY <1>1 DEF Note, Noted, Typed, Race
<1>8. x = Grown(o)
  BY DEF Grown
<1> HIDE DEF x
<1> QED BY <1>1, <1>3, <1>5, <1>6, <1>7, <1>8

\* The items of a block that have a name, and those that are blank.
LEMMA HitFacts ==
  ASSUME DiskAssumption, Typed, NEW b \in Block, NEW J \in SUBSET (1..Items), J # {}
  PROVE  Min(J) \in J /\ \A j \in J : Min(J) <= j
<1>1. J \in SUBSET Nat
  BY DEF DiskAssumption
<1> QED BY <1>1, MinIn

ScanOp(kind, h, name) ==
  [NoOp EXCEPT !.at = "scan", !.kind = kind, !.h = h, !.name = name, !.n = Blocks(dirent[h].disk.size)]
\* Lookup, creation and removal begin to read the directory, or find it without blocks.
LEMMA BeginScanFacts ==
  ASSUME DiskAssumption, Typed, NEW p \in Proc, NEW kind \in Ops, NEW h \in Handle, NEW name \in Name,
         BeginScan(p, kind, h, name)
  PROVE  LET o == ScanOp(kind, h, name)
         IN  /\ Typed' /\ dirent' = dirent
             /\ o \in Operation /\ o.i = 0 /\ dirent[h].live /\ o.at = "scan" /\ o.kind = kind
             /\ o.h = h /\ o.name = name /\ o.n = Blocks(dirent[h].disk.size) /\ o.inum = 0
             /\ o.buf = BlankBlock /\ kind \in {"mkfile", "mkdir", "open", "remove"}
             /\ UNCHANGED <<bitmap, inode, items, pointers, dirent>>
             /\ \/ o.n > 0 /\ Goes(p, o) /\ hurt' = hurt
                \/ /\ o.n = 0 /\ Creates(o) /\ Goes(p, [o EXCEPT !.at = "ialloc"])
                   /\ Noted("twice", Rival(p, o))
                \/ o.n = 0 /\ ~Creates(o) /\ Goes(p, NoOp) /\ hurt' = hurt
<1> DEFINE o == ScanOp(kind, h, name)
<1>1. /\ dirent[h].live /\ kind \in {"mkfile", "mkdir", "open", "remove"} /\ ops < MaxOps /\ ops' = ops + 1
      /\ UNCHANGED <<bitmap, inode, items, pointers, dirent>>
      /\ IF o.n = 0 THEN NotFound(p, o) ELSE Goto(p, o) /\ UNCHANGED hurt
  BY DEF BeginScan, Begin, ScanOp
<1>2. Blocks(dirent[h].disk.size) \in 0..(Direct + PerBlock)
  BY BlocksFacts DEF Typed, Direntry, InodeRecord
<1>3. o \in Operation /\ o.at = "scan" /\ o.kind = kind /\ o.h = h /\ o.name = name /\ o.i = 0
      /\ o.n \in 0..(Direct + PerBlock) /\ o.n = Blocks(dirent[h].disk.size) /\ o.inum = 0
      /\ o.buf = BlankBlock
  BY <1>1, <1>2, Constants DEF Operation, NoOp, ScanOp
<1> HIDE DEF o
<1>4. ops' \in 0..MaxOps
  BY <1>1 DEF Typed, DiskAssumption
<1>5. CASE o.n = 0
  <2>1. /\ OpsTyped(op', dirent') /\ \A q \in Proc \ {p} : op'[q] = op[q]
        /\ hurt' \subseteq Race /\ hurt \subseteq hurt'
        /\ \/ Creates(o) /\ op'[p] = [o EXCEPT !.at = "ialloc"] /\ (Rival(p, o) => "twice" \in hurt')
           \/ ~Creates(o) /\ op'[p] = NoOp /\ hurt' = hurt
    BY <1>1, <1>3, <1>5, NotFoundFacts
  <2>2. Typed'
    BY <2>1, <1>1, <1>4 DEF Typed
  <2> QED BY <2>1, <2>2, <1>1, <1>3, <1>5 DEF Goes, Noted, o
<1>6. CASE o.n # 0
  <2>1. o.n > 0 /\ Goto(p, o) /\ hurt' = hurt
    BY <1>1, <1>3, <1>6, Constants
  <2>2. Shaped(o)
    BY <1>1, <1>3, <2>1, Constants DEF Shaped, Creates
  <2>3. Goes(p, o)
    BY <1>1, <1>3, <2>1, <2>2, GotoTyped DEF Goes
  <2>4. Typed'
    BY <2>1, <2>3, <1>1, <1>4 DEF Typed, Goes
  <2> QED BY <2>1, <2>3, <2>4, <1>1, <1>3 DEF o
<1> QED BY <1>5, <1>6

WriteOp(h, k) == [NoOp EXCEPT !.kind = "write", !.h = h, !.i = k]
\* fs_dirent_write resizes the file and begins to place a block.
LEMMA BeginWriteFacts ==
  ASSUME DiskAssumption, Typed, NEW p \in Proc, NEW h \in Handle, NEW k \in Slot, BeginWrite(p, h, k)
  PROVE  LET o == WriteOp(h, k)
         IN  /\ Typed' /\ SameDirents /\ UNCHANGED <<bitmap, inode, items, pointers>>
             /\ o \in Operation /\ dirent[h].live /\ ~dirent[h].dir
             /\ o.kind = "write" /\ o.h = h /\ o.inum = 0 /\ o.buf = BlankBlock /\ ~Creates(o) /\ o.i = k
             /\ Goes(p, Place(o, dirent[h].disk)) /\ Noted("overlap", Overlaps(p, h))
<1> DEFINE o == WriteOp(h, k)
           s == IF k + 1 > dirent[h].disk.size THEN k + 1 ELSE dirent[h].disk.size
<1>1. /\ dirent[h].live /\ ~dirent[h].dir /\ ops < MaxOps /\ ops' = ops + 1
      /\ dirent' = [dirent EXCEPT ![h].disk.size = s]
      /\ Goto(p, Place(o, dirent[h].disk)) /\ Note("overlap", Overlaps(p, h))
      /\ UNCHANGED <<bitmap, inode, items, pointers>>
  BY DEF BeginWrite, Begin, WriteOp
<1>2. o \in Operation /\ o.h = h /\ o.kind = "write" /\ ~Creates(o) /\ o.inum = 0 /\ o.buf = BlankBlock
      /\ o.i = k
  BY Constants DEF Operation, NoOp, Creates, WriteOp
<1>3. s \in 0..Capacity /\ s >= dirent[h].disk.size
  <2>1. dirent[h].disk.size \in 0..Capacity
    BY DEF Typed, Direntry, InodeRecord
  <2>2. k + 1 <= Direct + PerBlock /\ k \in Nat
    BY Constants DEF Slot
  <2>3. (Direct + PerBlock) * 1 <= (Direct + PerBlock) * Items
    <3>1. 1 * (Direct + PerBlock) <= Items * (Direct + PerBlock)
      BY Constants, TimesMonotone
    <3> QED BY <3>1, Constants
  <2>4. k + 1 <= Capacity
    BY <2>2, <2>3, Constants DEF Capacity
  <2> QED BY <2>1, <2>2, <2>4, Constants
<1>4. SameDirents
  <2>1. Resized(h, s)
    BY <1>1 DEF Resized
  <2> HIDE DEF s
  <2> QED BY <2>1, <1>3, SizeFacts
<1>5. Goes(p, Place(o, dirent[h].disk))
  <2>1. DirOf(o) = dirent[h].disk /\ \A g \in Handle : dirent[g].live => dirent'[g].live
    BY <1>2, <1>4 DEF DirOf, SameDirents
  <2> HIDE DEF o
  <2> QED BY <1>1, <1>2, <2>1, PlaceTyped DEF Goes
<1>6. Noted("overlap", Overlaps(p, h))
  BY <1>1 DEF Note, Noted, Typed, Race
<1>7. ops' \in 0..MaxOps
  BY <1>1 DEF Typed, DiskAssumption
<1>8. Typed'
  BY <1>1, <1>4, <1>5, <1>6, <1>7 DEF Typed, SameDirents, Goes, Noted
<1> QED BY <1>1, <1>2, <1>4, <1>5, <1>6, <1>8

\* fs_dirent_close saves the inode and gives up the directory entry.
LEMMA CloseFacts ==
  ASSUME DiskAssumption, Typed, NEW p \in Proc, NEW h \in Handle, Close(p, h)
  PROVE  /\ Typed' /\ dirent[h].live
         /\ inode' = [inode EXCEPT ![dirent[h].inum] = dirent[h].disk]
         /\ dirent' = [dirent EXCEPT ![h] = NoDirent]
         /\ \A q \in Proc : op[q].h # h
         /\ UNCHANGED <<bitmap, items, pointers, op, hurt>>
<1>1. /\ dirent[h].live /\ ops < MaxOps /\ ops' = ops + 1 /\ \A q \in Proc : op[q].h # h
      /\ inode' = [inode EXCEPT ![dirent[h].inum] = dirent[h].disk]
      /\ dirent' = [dirent EXCEPT ![h] = NoDirent]
      /\ UNCHANGED <<bitmap, items, pointers, op, hurt>>
  BY DEF Close, Begin
<1>2. ops' \in 0..MaxOps
  BY <1>1 DEF Typed, DiskAssumption
<1>3. inode' \in [Inum -> InodeRecord] /\ dirent' \in [Handle -> Direntry]
  BY <1>1, Constants DEF Typed, Direntry
<1>4. OpsTyped(op', dirent')
  BY <1>1 DEF Typed, OpsTyped, Shaped
<1>5. Typed'
  BY <1>1, <1>2, <1>3, <1>4 DEF Typed
<1> QED BY <1>1, <1>5

\* What follows when a block of the directory was read.
LEMMA ScanFacts ==
  ASSUME DiskAssumption, Typed, NEW p \in Proc, Scan(p)
  PROVE  LET o == op[p]
             b == Where(pointers, DirOf(o), o.i)
         IN  /\ Typed' /\ UNCHANGED <<bitmap, inode, pointers, dirent>> /\ o.at = "scan"
             /\ \/ "removed" \in hurt'
                \/ items' = items /\ hurt' = hurt /\ Goes(p, NoOp)
                \/ /\ items' = items /\ hurt' = hurt
                   /\ \E j \in 1..Items, kind \in {"open", "opendir"} :
                        Goes(p, [o EXCEPT !.at = "load", !.inum = items[b][j].inum, !.kind = kind])
                \/ /\ items' = items /\ hurt' = hurt /\ o.kind = "remove"
                   /\ \E j \in 1..Items :
                        Goes(p, [o EXCEPT !.at = "rmdir", !.inum = items[b][j].inum,
                                          !.buf = [items[b] EXCEPT ![j] = Blank]])
                \/ /\ items' = items /\ \A j \in 1..Items : items[b][j].name # o.name
                   /\ \/ hurt' = hurt /\ o.i + 1 < o.n /\ Goes(p, [o EXCEPT !.i = o.i + 1])
                      \/ /\ o.i + 1 >= o.n /\ Creates(o) /\ Goes(p, [o EXCEPT !.at = "ialloc"])
                         /\ Noted("twice", Rival(p, o))
<1> DEFINE o == op[p]
           b == BlockOf(DirOf(o), o.i)
           J == Matches(b, o.name)
           m == Min(J)
           hit == items[b][m]
           blanked == [items[b] EXCEPT ![m] = Blank]
<1>0. o.at = "scan" /\ UNCHANGED <<bitmap, inode, pointers, dirent, ops>> /\ o = op[p]
  BY DEF Scan
<1>1. /\ o \in Operation /\ Shaped(o) /\ o.h \in Handle /\ dirent[o.h].live
      /\ b \in Block /\ b = Where(pointers, DirOf(o), o.i)
      /\ o.kind \in {"mkfile", "mkdir", "open", "remove"} /\ o.i < o.n /\ (Creates(o) => o.name \in Name)
      /\ o.i \in Nat /\ o.n \in 0..(Direct + PerBlock)
  BY <1>0, OpFacts DEF Shaped, Operation, Slot
<1>2. \/ J # {} /\ Goto(p, NoOp) /\ UNCHANGED <<items, hurt>>
      \/ J # {} /\ Goto(p, [o EXCEPT !.at = "load", !.inum = hit.inum,
                                     !.kind = IF hit.dir THEN "opendir" ELSE "open"])
         /\ UNCHANGED <<items, hurt>>
      \/ J # {} /\ o.kind = "remove" /\ hit.dir
         /\ Goto(p, [[o EXCEPT !.inum = hit.inum, !.buf = blanked] EXCEPT !.at = "rmdir"])
         /\ Note("removed", ~hit.dir) /\ UNCHANGED items
      \/ J # {} /\ o.kind = "remove" /\ ~hit.dir
         /\ Goto(p, Place([o EXCEPT !.inum = hit.inum, !.buf = blanked], DirOf(o)))
         /\ Note("removed", ~hit.dir) /\ UNCHANGED items
      \/ J # {} /\ o.kind = "remove" /\ items' = [items EXCEPT ![b] = blanked]
         /\ Goto(p, [o EXCEPT !.at = "free", !.inum = hit.inum, !.i = 0])
         /\ Note("removed", TRUE)
      \/ J = {} /\ o.i + 1 < o.n /\ Goto(p, [o EXCEPT !.i = @ + 1]) /\ UNCHANGED <<items, hurt>>
      \/ J = {} /\ o.i + 1 >= o.n /\ NotFound(p, o) /\ UNCHANGED items
  BY Zenon DEF Scan
<1> HIDE DEF o, b
<1>3. items[b] \in ItemBlock /\ items \in [Block -> ItemBlock] /\ hurt \subseteq Race /\ J \subseteq 1..Items
  BY <1>1 DEF Typed, Matches
<1>4. J # {} => m \in 1..Items /\ hit \in Item /\ blanked \in ItemBlock
  <2>1. J # {} => m \in 1..Items
    <3> HIDE DEF J
    <3> QED BY <1>1, <1>3, HitFacts
  <2> HIDE DEF m
  <2> QED BY <2>1, <1>3, Constants DEF ItemBlock
<1>5. \A h \in Handle : dirent[h].live => dirent'[h].live
  BY <1>0
<1>6. J = {} => \A j \in 1..Items : items[b][j].name # o.name
  BY DEF Matches
<1> HIDE DEF J, m
<1>7. CASE J # {} /\ Goto(p, NoOp) /\ UNCHANGED <<items, hurt>>
  <2>1. Goes(p, NoOp)
    BY <1>5, <1>7, Constants, GotoTyped DEF Goes
  <2>2. Typed'
    BY <2>1, <1>0, <1>7 DEF Typed, Goes
  <2> QED BY <2>1, <2>2, <1>0, <1>7
<1>8. CASE J # {} /\ Goto(p, [o EXCEPT !.at = "load", !.inum = hit.inum,
                                       !.kind = IF hit.dir THEN "opendir" ELSE "open"])
           /\ UNCHANGED <<items, hurt>>
  <2> DEFINE kind == IF hit.dir THEN "opendir" ELSE "open"
             x == [o EXCEPT !.at = "load", !.inum = hit.inum, !.kind = kind]
  <2>1. x \in Operation /\ x.at = "load" /\ x.kind \in {"open", "opendir"} /\ x.h = o.h
        /\ kind \in {"open", "opendir"}
    BY <1>1, <1>4, <1>8, ZenonT(40) DEF Operation, Item
  <2>2. Shaped(x)
    BY <2>1, <1>1 DEF Shaped, Creates
  <2>3. Goto(p, x)
    BY <1>8
  <2>4. Goes(p, x)
    <3> HIDE DEF x
    <3> QED BY <2>1, <2>2, <2>3, <1>0, <1>1, GotoTyped DEF Goes
  <2>5. Typed'
    BY <2>4, <1>0, <1>8 DEF Typed, Goes
  <2> HIDE DEF kind
  <2> QED BY <2>1, <2>4, <2>5, <1>0, <1>1, <1>4, <1>8, Zenon
<1>9. CASE J # {} /\ o.kind = "remove" /\ hit.dir
           /\ Goto(p, [[o EXCEPT !.inum = hit.inum, !.buf = blanked] EXCEPT !.at = "rmdir"])
           /\ Note("removed", ~hit.dir) /\ UNCHANGED items
  <2> DEFINE x == [o EXCEPT !.at = "rmdir", !.inum = hit.inum, !.buf = blanked]
  <2>1. x \in Operation /\ x.at = "rmdir" /\ x.kind = "remove" /\ x.h = o.h
    BY <1>1, <1>4, <1>9 DEF Operation, Item
  <2>2. Shaped(x)
    BY <2>1, <1>1 DEF Shaped, Creates
  <2>3. Goto(p, x)
    <3>1. [[o EXCEPT !.inum = hit.inum, !.buf = blanked] EXCEPT !.at = "rmdir"] = x
      BY <1>1 DEF Operation
    <3> QED BY <3>1, <1>9
  <2>4. Goes(p, x)
    <3> HIDE DEF x
    <3> QED BY <2>1, <2>2, <2>3, <1>0, <1>1, GotoTyped DEF Goes
  <2>5. hurt' = hurt
    BY <1>9 DEF Note
  <2>6. Typed'
    BY <2>4, <2>5, <1>0, <1>9 DEF Typed, Goes
  <2> QED BY <2>4, <2>5, <2>6, <1>0, <1>1, <1>4, <1>9, Zenon
<1>10. CASE J # {} /\ o.kind = "remove" /\ ~hit.dir
            /\ Goto(p, Place([o EXCEPT !.inum = hit.inum, !.buf = blanked], DirOf(o)))
            /\ Note("removed", ~hit.dir) /\ UNCHANGED items
  <2> DEFINE x == [o EXCEPT !.inum = hit.inum, !.buf = blanked]
  <2>1. x \in Operation /\ x.kind = "remove" /\ x.h = o.h /\ x.name = o.name
    BY <1>1, <1>4, <1>10 DEF Operation, Item
  <2>2. Goto(p, Place(x, DirOf(x)))
    BY <2>1, <1>10 DEF DirOf
  <2>3. OpsTyped(op', dirent')
    <3> HIDE DEF x
    <3> QED BY <2>1, <2>2, <1>1, <1>5, PlaceTyped DEF Creates
  <2>4. "removed" \in hurt' /\ hurt' \subseteq Race
    BY <1>3, <1>10 DEF Note, Race
  <2>5. Typed'
    BY <2>3, <2>4, <1>0, <1>10 DEF Typed
  <2> QED BY <2>4, <2>5, <1>0, Zenon
<1>11. CASE J # {} /\ o.kind = "remove" /\ items' = [items EXCEPT ![b] = blanked]
            /\ Goto(p, [o EXCEPT !.at = "free", !.inum = hit.inum, !.i = 0])
            /\ Note("removed", TRUE)
  <2> DEFINE x == [o EXCEPT !.at = "free", !.inum = hit.inum, !.i = 0]
  <2>1. x \in Operation /\ x.kind = "remove" /\ x.h = o.h /\ x.at = "free"
    BY <1>1, <1>4, <1>11, Constants, ZenonT(40) DEF Operation, Item
  <2>2. Shaped(x)
    BY <2>1, <1>1 DEF Shaped, Creates
  <2>3. OpsTyped(op', dirent')
    <3> HIDE DEF x
    <3> QED BY <2>1, <2>2, <1>0, <1>1, <1>11, GotoTyped DEF x
  <2>4. "removed" \in hurt' /\ hurt' \subseteq Race
    BY <1>3, <1>11 DEF Note, Race
  <2>5. items' \in [Block -> ItemBlock]
    BY <1>3, <1>4, <1>11
  <2>6. Typed'
    BY <2>3, <2>4, <2>5, <1>0 DEF Typed
  <2> QED BY <2>4, <2>6, <1>0
<1>12. CASE J = {} /\ o.i + 1 < o.n /\ Goto(p, [o EXCEPT !.i = @ + 1]) /\ UNCHANGED <<items, hurt>>
  <2> DEFINE x == [o EXCEPT !.i = o.i + 1]
  <2>1. o.i + 1 \in Slot
    BY <1>1, <1>12, Constants DEF Slot
  <2>2. x \in Operation /\ x.kind = o.kind /\ x.h = o.h /\ x.at = "scan" /\ x.i = o.i + 1 /\ x.n = o.n
        /\ x.name = o.name
    BY <1>0, <1>1, <2>1 DEF Operation
  <2>3. Shaped(x)
    BY <2>2, <1>1, <1>12 DEF Shaped, Creates
  <2>4. Goes(p, x)
    <3> HIDE DEF x
    <3> QED BY <2>2, <2>3, <1>0, <1>1, <1>12, GotoTyped DEF Goes, x
  <2>5. Typed'
    BY <2>4, <1>0, <1>12 DEF Typed, Goes
  <2> QED BY <2>4, <2>5, <1>0, <1>1, <1>6, <1>12, Zenon
<1>13. CASE J = {} /\ o.i + 1 >= o.n /\ NotFound(p, o) /\ UNCHANGED items
  <2>1. /\ OpsTyped(op', dirent') /\ \A q \in Proc \ {p} : op'[q] = op[q]
        /\ hurt' \subseteq Race /\ hurt \subseteq hurt'
        /\ \/ Creates(o) /\ op'[p] = [o EXCEPT !.at = "ialloc"] /\ (Rival(p, o) => "twice" \in hurt')
           \/ ~Creates(o) /\ op'[p] = NoOp /\ hurt' = hurt
    BY <1>0, <1>1, <1>13, NotFoundFacts
  <2>2. Typed'
    BY <2>1, <1>0, <1>13 DEF Typed
  <2> QED BY <2>1, <2>2, <1>0, <1>1, <1>6, <1>13, Zenon DEF Goes, Noted
<1> QED BY <1>2, <1>7, <1>8, <1>9, <1>10, <1>11, <1>12, <1>13, Zenon

\* diskfs_inumber_alloc takes an inode that is not in use, or there is none.
LEMMA InodeAllocFacts ==
  ASSUME DiskAssumption, Typed, NEW p \in Proc, InodeAlloc(p)
  PROVE  /\ Typed' /\ SameDirents /\ UNCHANGED <<bitmap, items, pointers>>
         /\ op[p].at = "ialloc"
         /\ \/ UNCHANGED <<inode, dirent, hurt>> /\ Goes(p, NoOp)
            \/ \E n \in Inum :
                 LET o == [op[p] EXCEPT !.at = "add", !.inum = n, !.i = 0, !.n = Blocks(DirOf(op[p]).size)]
                 IN  /\ ~inode[n].inuse /\ inode' = [inode EXCEPT ![n] = FreshInode] /\ o \in Operation
                     /\ \/ o.n # 0 /\ Goes(p, o) /\ UNCHANGED <<dirent, hurt>>
                        \/ o.n = 0 /\ Grow(p, o)
<1> DEFINE free == {n \in Inum : ~inode[n].inuse}
           n == Min(free)
           o == [op[p] EXCEPT !.at = "add", !.inum = n, !.i = 0, !.n = Blocks(DirOf(op[p]).size)]
<1>1. /\ op[p].at = "ialloc" /\ UNCHANGED <<bitmap, items, pointers, ops>>
      /\ \/ free = {} /\ Goto(p, NoOp) /\ UNCHANGED <<inode, dirent, hurt>>
         \/ /\ free # {} /\ inode' = [inode EXCEPT ![n] = FreshInode]
            /\ IF o.n = 0 THEN Grow(p, o) ELSE Goto(p, o) /\ UNCHANGED <<dirent, hurt>>
  BY DEF InodeAlloc, Taken
<1>2. op[p] \in Operation /\ Shaped(op[p]) /\ op[p].h \in Handle /\ dirent[op[p].h].live
      /\ DirOf(op[p]) \in InodeRecord
  BY <1>1, OpFacts
<1>3. CASE free = {} /\ Goto(p, NoOp) /\ UNCHANGED <<inode, dirent, hurt>>
  <2>1. Goes(p, NoOp) /\ SameDirents
    BY <1>3, Constants, GotoTyped, SameDirentsKept DEF Goes
  <2>2. Typed'
    BY <2>1, <1>1, <1>3 DEF Typed, Goes
  <2> QED BY <2>1, <2>2, <1>1, <1>3
<1>4. CASE free # {} /\ inode' = [inode EXCEPT ![n] = FreshInode]
           /\ IF o.n = 0 THEN Grow(p, o) ELSE Goto(p, o) /\ UNCHANGED <<dirent, hurt>>
  <2>1. n \in Inum /\ ~inode[n].inuse
    <3>1. free \in SUBSET Nat
      BY DEF Inum, DiskAssumption
    <3>2. n \in free
      BY <3>1, <1>4, MinIn
    <3> QED BY <3>2
  <2>2. inode' \in [Inum -> InodeRecord]
    BY <2>1, <1>4, Constants DEF Typed
  <2> HIDE DEF n
  <2>3. Blocks(DirOf(op[p]).size) \in 0..(Direct + PerBlock)
    BY <1>2, BlocksFacts DEF InodeRecord
  <2>4. o \in Operation /\ o.at = "add" /\ o.kind = op[p].kind /\ o.h = op[p].h /\ o.name = op[p].name
        /\ o.i = 0 /\ o.n \in 0..(Direct + PerBlock)
    BY <1>2, <2>1, <2>3, Constants DEF Operation
  <2>5. Creates(o) /\ o.name \in Name
    BY <2>4, <1>1, <1>2 DEF Shaped, Creates
  <2> HIDE DEF o
  <2>6. CASE o.n = 0
    <3>1. Grow(p, o)
      BY <1>4, <2>6
    <3>2. SameDirents /\ OpsTyped(op', dirent') /\ hurt' \subseteq Race
      BY <3>1, <2>4, <2>5, <1>2, GrowFacts DEF Goes, Noted
    <3>3. Typed'
      BY <3>2, <2>2, <1>1 DEF Typed, SameDirents
    <3> QED BY <3>1, <3>2, <3>3, <2>1, <2>4, <2>6, <1>1, <1>4, Zenon DEF o
  <2>7. CASE o.n # 0
    <3>1. Goto(p, o) /\ UNCHANGED <<dirent, hurt>>
      BY <1>4, <2>7
    <3>2. Shaped(o)
      BY <2>4, <2>5, <2>7, <1>2 DEF Shaped
    <3>3. Goes(p, o) /\ SameDirents
      BY <3>1, <3>2, <2>4, <1>2, GotoTyped, SameDirentsKept DEF Goes
    <3>4. Typed'
      BY <3>1, <3>3, <2>2, <1>1 DEF Typed, Goes
    <3> QED BY <3>1, <3>3, <3>4, <2>1, <2>4, <2>7, <1>1, <1>4, Zenon DEF o
  <2> QED BY <2>6, <2>7, Zenon
<1> QED BY <1>1, <1>3, <1>4, Zenon

\* A blank item of the block is filled: in place, or when the block is placed.
Filled(o, P, I, j) ==
  [o EXCEPT !.buf = [I[Where(P, DirOf(o), o.i)] EXCEPT ![j] = TheItem(o)], !.size = o.i * Items + j]

\* The operation with the block that has the new item.
LEMMA FilledFacts ==
  ASSUME DiskAssumption, Typed, NEW p \in Proc, op[p].at = "add", NEW j \in 1..Items
  PROVE  LET o == op[p]
             c == Filled(o, pointers, items, j)
         IN  /\ c \in Operation /\ c.at = "add" /\ c.kind = o.kind /\ c.h = o.h /\ c.name = o.name /\ c.i = o.i
             /\ c.n = o.n /\ c.inum = o.inum /\ c.slot = o.slot
             /\ c.buf = [items[Where(pointers, DirOf(o), o.i)] EXCEPT ![j] = TheItem(o)]
             /\ c.size = o.i * Items + j /\ c.size \in 1..Capacity
<1> DEFINE o == op[p]
           b == Where(pointers, DirOf(o), o.i)
<1>1. /\ o \in Operation /\ Shaped(o) /\ b \in Block
      /\ o.i \in Nat /\ o.i + 1 <= Direct + PerBlock
  <2>1. o \in Operation /\ Shaped(o) /\ b \in Block
    BY OpFacts
  <2> QED BY <2>1, Constants DEF Operation, Slot
<1>2. [items[b] EXCEPT ![j] = TheItem(o)] \in ItemBlock
  <2>1. TheItem(o) \in Item
    BY <1>1, ItemFacts DEF Shaped
  <2>2. items[b] \in ItemBlock
    BY <1>1 DEF Typed
  <2> HIDE DEF b, o
  <2> QED BY <2>1, <2>2 DEF ItemBlock
<1> HIDE DEF b, o
<1>3. o.i * Items + j \in 1..Capacity
  <2>1. (o.i + 1) * Items <= (Direct + PerBlock) * Items
    <3>1. \A a \in Int : a <= Direct + PerBlock => a * Items <= (Direct + PerBlock) * Items
      BY Constants, TimesMonotone, SMTT(20)
    <3> QED BY <3>1, <1>1
  <2>2. (o.i + 1) * Items = o.i * Items + Items
    BY <1>1, Constants
  <2>3. o.i * Items >= 0
    <3>1. \A x, y \in Nat : x * y >= 0
      OBVIOUS
    <3> QED BY <3>1, <1>1, Constants
  <2>4. o.i * Items \in Int /\ Capacity \in Int
    BY <1>1, Constants
  <2> QED BY <2>1, <2>2, <2>3, <2>4, Constants DEF Capacity
<1> DEFINE u == [items[b] EXCEPT ![j] = TheItem(o)]
           v == o.i * Items + j
           c == [o EXCEPT !.buf = u, !.size = v]
<1>4. u \in ItemBlock /\ v \in 1..Capacity /\ v \in 0..Capacity
  BY <1>2, <1>3, Constants
<1> HIDE DEF u, v
<1>5. /\ c \in Operation /\ c.at = o.at /\ c.kind = o.kind /\ c.h = o.h /\ c.name = o.name /\ c.i = o.i
      /\ c.n = o.n /\ c.inum = o.inum /\ c.slot = o.slot /\ c.buf = u /\ c.size = v
  BY <1>1, <1>4 DEF Operation
<1> QED BY <1>4, <1>5 DEF Filled, o, b, u, v

\* An operation ends with the inode saved, or with its directory entry made.
Finally(y) == [y EXCEPT !.at = "save", !.slot = "final"]
Loading(y) == [y EXCEPT !.at = "load"]
\* An operation that ends keeps its name and its buffer.
LEMMA EndFacts ==
  ASSUME NEW y \in Operation
  PROVE  /\ Finally(y) \in Operation /\ Finally(y).inum = y.inum /\ Finally(y).buf = y.buf
         /\ Finally(y).kind = y.kind /\ Finally(y).at = "save" /\ Finally(y).slot = "final"
         /\ Finally(y).h = y.h /\ Finally(y).name = y.name
         /\ Loading(y) \in Operation /\ Loading(y).inum = y.inum /\ Loading(y).buf = y.buf
         /\ Loading(y).kind = y.kind /\ Loading(y).at = "load"
         /\ Loading(y).h = y.h /\ Loading(y).name = y.name
<1>1. ASSUME NEW x, x = [y EXCEPT !.at = "save", !.slot = "final"]
      PROVE  x \in Operation /\ x.inum = y.inum /\ x.buf = y.buf /\ x.kind = y.kind /\ x.h = y.h
             /\ x.name = y.name /\ x.at = "save" /\ x.slot = "final"
  BY <1>1 DEF Operation
<1>2. ASSUME NEW x, x = [y EXCEPT !.at = "load"]
      PROVE  x \in Operation /\ x.inum = y.inum /\ x.buf = y.buf /\ x.kind = y.kind /\ x.h = y.h
             /\ x.name = y.name /\ x.at = "load"
  BY <1>2 DEF Operation
<1> QED BY <1>1, <1>2 DEF Finally, Loading

\* The ways diskfs_dirent_add goes on: it fills an item; it places the block again; it looks
\* at the next block.  (Or the directory grows.)
AddFill(p, j) ==
  LET o == op[p]
      b == Where(pointers, DirOf(o), o.i)
      c == Filled(o, pointers, items, j)
  IN  /\ items[b][j] = Blank /\ b # 0 /\ o.i < Direct
      /\ items' = [items EXCEPT ![b] = c.buf]
      /\ o.i * Items + j <= dirent'[o.h].disk.size
      /\ Goes(p, Finally(c)) \/ Goes(p, Loading(c))
      /\ Noted("twice", Rival(p, o))
AddPlace(p, j) ==
  LET o == op[p]
      b == Where(pointers, DirOf(o), o.i)
  IN  /\ items[b][j] = Blank /\ dirent' = dirent
      /\ items' = items
      /\ Goes(p, Place(Filled(o, pointers, items, j), DirOf(o)))
      /\ Noted("overlap", Overlaps(p, o.h))
      /\ o.i >= Direct \/ b = 0
ToNextBlock(p) ==
  LET o == op[p]
  IN  o.i + 1 < o.n /\ UNCHANGED <<items, dirent, hurt>> /\ Goes(p, [o EXCEPT !.i = o.i + 1])
AllFull(p) ==
  LET o == op[p]
      b == Where(pointers, DirOf(o), o.i)
  IN  o.i + 1 >= o.n /\ (\A j \in 1..Items : items[b][j] # Blank) /\ items' = items /\ Grow(p, o)
\* diskfs_dirent_add goes on in one of these ways, and everything keeps its type.
LEMMA AddFacts ==
  ASSUME DiskAssumption, Typed, NEW p \in Proc, Add(p)
  PROVE  /\ Typed' /\ UNCHANGED <<bitmap, inode, pointers>> /\ SameDirents /\ op[p].at = "add"
         /\ \/ \E j \in 1..Items : AddFill(p, j)
            \/ \E j \in 1..Items : AddPlace(p, j)
            \/ ToNextBlock(p)
            \/ AllFull(p)
<1> DEFINE o == op[p]
           b == BlockOf(DirOf(o), o.i)
           J == {j \in 1..Items : items[b][j] = Blank}
           m == Min(J)
           c == [o EXCEPT !.buf = [items[b] EXCEPT ![m] = TheItem(o)], !.size = o.i * Items + m]
           size == DirOf(o).size
<1>0. o.at = "add" /\ UNCHANGED <<bitmap, inode, pointers, ops>> /\ o = op[p]
  BY Zenon DEF Add
<1>1. /\ o \in Operation /\ Shaped(o) /\ o.h \in Handle /\ dirent[o.h].live
      /\ DirOf(o) \in InodeRecord
      /\ b \in Block /\ b = Where(pointers, DirOf(o), o.i)
  BY <1>0, OpFacts
<1>2. /\ Creates(o) /\ o.name \in Name /\ o.i < o.n /\ o.i \in Nat /\ o.i + 1 <= Direct + PerBlock
      /\ o.n \in 0..(Direct + PerBlock) /\ size \in 0..Capacity
  <2>1. Creates(o) /\ o.name \in Name /\ o.i < o.n
    BY <1>0, <1>1 DEF Shaped
  <2>2. o.i \in Nat /\ o.i + 1 <= Direct + PerBlock /\ o.n \in 0..(Direct + PerBlock)
    BY <1>1, Constants DEF Operation, Slot
  <2>3. size \in 0..Capacity
    BY <1>1 DEF InodeRecord
  <2> QED BY <2>1, <2>2, <2>3
<1>3. \/ /\ J # {} /\ o.i < Direct /\ b # 0
         /\ items' = [items EXCEPT ![b] = c.buf]
         /\ dirent' = [dirent EXCEPT ![o.h].disk.size = IF c.size > size THEN c.size ELSE @]
         /\ Goto(p, IF c.size > size THEN [c EXCEPT !.at = "save", !.slot = "final"]
                    ELSE [c EXCEPT !.at = "load"])
         /\ Note("twice", Rival(p, o))
      \/ /\ J # {} /\ (o.i >= Direct \/ b = 0)
         /\ Goto(p, Place(c, DirOf(o)))
         /\ Note("overlap", Overlaps(p, o.h)) /\ UNCHANGED <<items, dirent>>
      \/ /\ J = {} /\ o.i + 1 < o.n
         /\ Goto(p, [o EXCEPT !.i = @ + 1]) /\ UNCHANGED <<items, dirent, hurt>>
      \/ /\ J = {} /\ o.i + 1 >= o.n /\ Grow(p, o) /\ UNCHANGED items
  BY Zenon DEF Add
<1>4. J # {} => m \in 1..Items /\ items[b][m] = Blank /\ c = Filled(o, pointers, items, m)
  <2>1. J # {} => m \in J
    <3>1. J \subseteq 1..Items
      OBVIOUS
    <3> HIDE DEF J, o, b
    <3> QED BY <1>1, <3>1, HitFacts
  <2> HIDE DEF m
  <2> QED BY <2>1, <1>1 DEF Filled
<1>5. J = {} => \A j \in 1..Items : items[b][j] # Blank
  OBVIOUS
<1>6. J # {} => /\ c \in Operation /\ c.kind = o.kind /\ c.h = o.h /\ c.name = o.name /\ c.i = o.i
                /\ c.size = o.i * Items + m /\ c.size \in 1..Capacity /\ c.buf \in ItemBlock
  <2>1. ASSUME J # {}
        PROVE  /\ c \in Operation /\ c.kind = o.kind /\ c.h = o.h /\ c.name = o.name /\ c.i = o.i
               /\ c.size = o.i * Items + m /\ c.size \in 1..Capacity
    <3>1. m \in 1..Items /\ c = Filled(op[p], pointers, items, m)
      BY <2>1, <1>4
    <3> HIDE DEF m, c, b
    <3> QED BY <3>1, <1>0, FilledFacts
  <2> HIDE DEF m, c, J, o
  <2> QED BY <2>1 DEF Operation
<1> HIDE DEF o, b, J, m, c
<1>7. hurt \subseteq Race
  BY DEF Typed
<1>8. CASE /\ J # {} /\ o.i < Direct /\ b # 0
           /\ items' = [items EXCEPT ![b] = c.buf]
           /\ dirent' = [dirent EXCEPT ![o.h].disk.size = IF c.size > size THEN c.size ELSE @]
           /\ Goto(p, IF c.size > size THEN [c EXCEPT !.at = "save", !.slot = "final"]
                      ELSE [c EXCEPT !.at = "load"])
           /\ Note("twice", Rival(p, o))
  <2> DEFINE s == IF c.size > size THEN c.size ELSE size
             x == IF c.size > size THEN [c EXCEPT !.at = "save", !.slot = "final"]
                      ELSE [c EXCEPT !.at = "load"]
  <2>1. s \in 0..Capacity /\ s >= dirent[o.h].disk.size /\ c.size <= s
    BY <1>2, <1>6, <1>8, Constants DEF DirOf
  <2>2. SameDirents /\ dirent'[o.h].disk.size = s
    <3>1. Resized(o.h, s)
      BY <1>8 DEF Resized, DirOf
    <3> HIDE DEF s
    <3> QED BY <3>1, <2>1, <1>1, SizeFacts
  <2>3. x \in Operation /\ x.at \in {"save", "load"} /\ (x.at = "save" => x.slot = "final") /\ x.kind = o.kind
        /\ x.h = o.h /\ x.name = o.name
    <3>1. x = Finally(c) \/ x = Loading(c)
      BY DEF Finally, Loading
    <3> HIDE DEF x
    <3> QED BY <3>1, <1>6, <1>8, EndFacts
  <2>4. Shaped(x)
    <3> HIDE DEF x
    <3> QED BY <2>3, <1>1, <1>2 DEF Shaped, Creates
  <2>5. Goto(p, x)
    BY <1>8
  <2>6. Goes(p, x)
    <3> HIDE DEF x
    <3>1. \A h \in Handle : dirent[h].live => dirent'[h].live
      BY <2>2 DEF SameDirents
    <3> QED BY <2>3, <2>4, <2>5, <3>1, <1>1, GotoTyped DEF Goes
  <2>7. Noted("twice", Rival(p, o))
    BY <1>7, <1>8 DEF Note, Noted, Race
  <2>8. items' \in [Block -> ItemBlock]
    BY <1>1, <1>6, <1>8 DEF Typed
  <2>9. Typed'
    BY <2>2, <2>6, <2>7, <2>8, <1>0 DEF Typed, SameDirents, Goes, Noted
  <2>10. Goes(p, Finally(c)) \/ Goes(p, Loading(c))
    BY <2>6 DEF Finally, Loading
  <2>11. o.i * Items + m <= dirent'[o.h].disk.size
    BY <2>1, <2>2, <1>6, <1>8
  <2> HIDE DEF s, x
  <2>12. AddFill(p, m)
    BY <2>2, <2>7, <2>10, <2>11, <1>0, <1>1, <1>4, <1>8 DEF o, AddFill
  <2> QED BY <2>2, <2>9, <2>12, <1>0, <1>4, <1>8 DEF o
<1>9. CASE /\ J # {} /\ (o.i >= Direct \/ b = 0)
           /\ Goto(p, Place(c, DirOf(o)))
           /\ Note("overlap", Overlaps(p, o.h)) /\ UNCHANGED <<items, dirent>>
  <2>1. Goes(p, Place(c, DirOf(o)))
    <3>1. c.kind \in {"mkfile", "mkdir", "write", "remove"} /\ Creates(c) /\ DirOf(c) = DirOf(o)
      BY <1>2, <1>6, <1>9 DEF Creates, DirOf
    <3> QED BY <3>1, <1>1, <1>2, <1>6, <1>9, PlaceTyped DEF Goes
  <2>2. Noted("overlap", Overlaps(p, o.h))
    BY <1>7, <1>9 DEF Note, Noted, Race
  <2>3. SameDirents
    BY <1>9, SameDirentsKept
  <2>4. Typed'
    BY <2>1, <2>2, <1>0, <1>9 DEF Typed, Goes, Noted
  <2>5. AddPlace(p, m)
    BY <2>1, <2>2, <2>3, <1>0, <1>1, <1>4, <1>9 DEF o, AddPlace
  <2> QED BY <2>3, <2>4, <2>5, <1>0, <1>4, <1>9 DEF o
<1>10. CASE /\ J = {} /\ o.i + 1 < o.n
            /\ Goto(p, [o EXCEPT !.i = @ + 1]) /\ UNCHANGED <<items, dirent, hurt>>
  <2> DEFINE x == [o EXCEPT !.i = o.i + 1]
  <2>1. o.i + 1 \in Slot
    BY <1>2, <1>10, Constants DEF Slot
  <2>2. x \in Operation /\ x.kind = o.kind /\ x.h = o.h /\ x.at = "add" /\ x.i = o.i + 1 /\ x.n = o.n
        /\ x.name = o.name
    BY <1>0, <1>1, <2>1 DEF Operation
  <2>3. Shaped(x)
    BY <2>2, <1>1, <1>2, <1>10 DEF Shaped, Creates
  <2>4. Goes(p, x)
    <3> HIDE DEF x
    <3> QED BY <2>2, <2>3, <1>0, <1>1, <1>10, GotoTyped DEF Goes, x
  <2>5. Typed' /\ SameDirents
    BY <2>4, <1>0, <1>10, SameDirentsKept DEF Typed, Goes
  <2>6. ToNextBlock(p)
    BY <2>4, <1>0, <1>10 DEF o, ToNextBlock
  <2> QED BY <2>5, <2>6, <1>0 DEF o
<1>11. CASE J = {} /\ o.i + 1 >= o.n /\ Grow(p, o) /\ UNCHANGED items
  <2>1. SameDirents /\ OpsTyped(op', dirent') /\ hurt' \subseteq Race
    BY <1>1, <1>2, <1>11, GrowFacts DEF Goes, Noted
  <2>2. Typed'
    BY <2>1, <1>0, <1>11 DEF Typed, SameDirents
  <2>3. AllFull(p)
    BY <1>0, <1>1, <1>5, <1>11 DEF o, AllFull
  <2> QED BY <2>1, <2>2, <2>3, <1>0 DEF o
<1> QED BY <1>3, <1>8, <1>9, <1>10, <1>11

\* diskfs_dirent_create takes a directory entry that is free, if there is one.
LEMMA LoadFacts ==
  ASSUME DiskAssumption, Typed, NEW p \in Proc, Load(p)
  PROVE  LET n == op[p].inum
         IN  /\ Typed' /\ UNCHANGED <<bitmap, inode, items, pointers>> /\ Goes(p, NoOp) /\ op[p].at = "load"
             /\ Noted("alias", \E h \in Handle : dirent[h].live /\ dirent[h].inum = n)
             /\ \/ dirent' = dirent
                \/ \E h \in Handle, dir \in BOOLEAN :
                     /\ ~dirent[h].live
                     /\ dirent' = [dirent EXCEPT ![h] = [live |-> TRUE, inum |-> n, dir |-> dir, disk |-> inode[n]]]
<1> DEFINE free == {h \in Handle : ~dirent[h].live}
           g == Min(free)
           n == op[p].inum
           dir == op[p].kind \in {"mkdir", "opendir"}
           e == [live |-> TRUE, inum |-> n, dir |-> dir, disk |-> inode[n]]
<1>1. /\ op[p].at = "load" /\ Goto(p, NoOp) /\ UNCHANGED <<bitmap, inode, items, pointers, ops>>
      /\ dirent' = IF free = {} THEN dirent ELSE [dirent EXCEPT ![g] = e]
      /\ Note("alias", \E h \in Handle : dirent[h].live /\ dirent[h].inum = n)
  BY DEF Load
<1>2. n \in Inum /\ inode[n] \in InodeRecord
  BY <1>1, OpFacts DEF Operation, Typed
<1>3. free # {} => g \in Handle /\ ~dirent[g].live
  <2>1. free \in SUBSET Nat
    BY DEF Handle, DiskAssumption
  <2>2. free # {} => g \in free
    BY <2>1, MinIn
  <2> QED BY <2>2
<1>4. e \in Direntry /\ e.live
  BY <1>2 DEF Direntry
<1>5. Noted("alias", \E h \in Handle : dirent[h].live /\ dirent[h].inum = n)
  BY <1>1 DEF Note, Noted, Typed, Race
<1>6. dir \in BOOLEAN
  OBVIOUS
<1> HIDE DEF free, g, dir, e, n
<1>7. dirent' \in [Handle -> Direntry] /\ \A h \in Handle : dirent[h].live => dirent'[h].live
  BY <1>1, <1>3, <1>4 DEF Typed
<1>8. Goes(p, NoOp)
  BY <1>1, <1>7, Constants, GotoTyped DEF Goes
<1>9. Typed'
  BY <1>1, <1>5, <1>7, <1>8 DEF Typed, Goes, Noted
<1>10. \/ dirent' = dirent
       \/ g \in Handle /\ ~dirent[g].live /\ dirent' = [dirent EXCEPT ![g] = e]
  BY <1>1, <1>3
<1> QED BY <1>1, <1>5, <1>6, <1>8, <1>9, <1>10 DEF e, n

\* diskfs_dirent_remove gives up, or goes on with the directory, which is noted.
LEMMA RemoveDirFacts ==
  ASSUME DiskAssumption, Typed, NEW p \in Proc, RemoveDir(p)
  PROVE  /\ Typed' /\ UNCHANGED <<bitmap, inode, items, pointers, dirent>>
         /\ "removed" \in hurt' \/ (hurt' = hurt /\ Goes(p, NoOp))
<1>1. /\ op[p].at = "rmdir" /\ UNCHANGED <<bitmap, inode, items, pointers, dirent, ops>>
      /\ Goto(p, IF inode[op[p].inum].size > 0 THEN NoOp ELSE Place(op[p], DirOf(op[p])))
      /\ Note("removed", inode[op[p].inum].size = 0)
  BY DEF RemoveDir
<1>2. /\ op[p] \in Operation /\ Shaped(op[p]) /\ op[p].h \in Handle /\ dirent[op[p].h].live
      /\ inode[op[p].inum].size \in Nat
  <2>1. /\ op[p] \in Operation /\ Shaped(op[p]) /\ op[p].h \in Handle /\ dirent[op[p].h].live
    BY <1>1, OpFacts
  <2>2. op[p].inum \in Inum
    BY <2>1 DEF Operation
  <2>3. inode[op[p].inum] \in InodeRecord
    BY <2>2 DEF Typed
  <2>4. inode[op[p].inum].size \in 0..Capacity /\ Capacity \in Nat
    BY <2>3, Constants DEF InodeRecord
  <2> QED BY <2>1, <2>4
<1>3. hurt' \subseteq Race
  BY <1>1 DEF Note, Typed, Race
<1>4. CASE inode[op[p].inum].size > 0
  <2>1. Goes(p, NoOp)
    BY <1>1, <1>4, Constants, GotoTyped DEF Goes
  <2>2. hurt' = hurt
    BY <1>1, <1>4, <1>2 DEF Note
  <2>3. Typed'
    BY <1>1, <2>1, <2>2 DEF Typed, Goes
  <2> QED BY <1>1, <2>1, <2>2, <2>3
<1>5. CASE ~(inode[op[p].inum].size > 0)
  <2>1. OpsTyped(op', dirent')
    <3>1. Goto(p, Place(op[p], DirOf(op[p]))) /\ op[p].kind = "remove" /\ ~Creates(op[p])
      BY <1>1, <1>2, <1>5 DEF Shaped, Creates
    <3> QED BY <3>1, <1>1, <1>2, PlaceTyped
  <2>2. "removed" \in hurt'
    BY <1>1, <1>2, <1>5 DEF Note
  <2>3. Typed'
    BY <1>1, <1>3, <2>1 DEF Typed
  <2> QED BY <1>1, <2>2, <2>3
<1> QED BY <1>4, <1>5

\* The steps of diskfs_inode_delete keep the types.
LEMMA FreeFacts ==
  ASSUME DiskAssumption, Typed, NEW p \in Proc, Free(p) \/ Wipe(p)
  PROVE  Typed' /\ op[p].at \in {"free", "wipe"} /\ hurt' = hurt
<1>1. CASE Free(p)
  <2> DEFINE o == op[p]
             d == Condemned(o)
             x == IF o.i + 1 >= Blocks(d.size) \/ o.i = Direct THEN [o EXCEPT !.at = "wipe"]
                  ELSE [o EXCEPT !.i = o.i + 1]
  <2>1. /\ o.at = "free" /\ bitmap' \subseteq bitmap /\ Goto(p, x)
        /\ UNCHANGED <<inode, items, pointers, dirent, ops, hurt>>
    BY <1>1 DEF Free
  <2>2. o \in Operation /\ Shaped(o) /\ o.h \in Handle /\ dirent[o.h].live /\ d \in InodeRecord
    BY <2>1, OpFacts DEF Condemned
  <2>3. Blocks(d.size) \in 0..(Direct + PerBlock) /\ o.i \in Nat
    <3>1. d.size \in 0..Capacity
      BY <2>2 DEF InodeRecord
    <3>2. o.i \in Nat
      BY <2>2 DEF Operation, Slot
    <3> HIDE DEF d
    <3> QED BY <3>1, <3>2, BlocksFacts
  <2>4. x \in Operation /\ x.at \in {"free", "wipe"} /\ x.h = o.h /\ x.kind = o.kind /\ x.name = o.name
    <3>1. CASE o.i + 1 >= Blocks(d.size) \/ o.i = Direct
      BY <3>1, <2>1, <2>2 DEF Operation
    <3>2. CASE ~(o.i + 1 >= Blocks(d.size) \/ o.i = Direct)
      <4>1. o.i + 1 \in Slot
        BY <3>2, <2>3, Constants, SMTT(20) DEF Slot
      <4> QED BY <3>2, <4>1, <2>1, <2>2 DEF Operation
    <3> QED BY <3>1, <3>2
  <2> HIDE DEF x, d
  <2>5. Shaped(x)
    BY <2>2, <2>4 DEF Shaped, Creates
  <2>6. OpsTyped(op', dirent')
    BY <2>1, <2>2, <2>4, <2>5, GotoTyped
  <2>7. Typed'
    BY <2>1, <2>6 DEF Typed
  <2> QED BY <2>1, <2>7
<1>2. CASE Wipe(p)
  <2> DEFINE c == [Condemned(op[p]) EXCEPT !.inuse = FALSE]
  <2>1. /\ op[p].at = "wipe" /\ inode' = [inode EXCEPT ![op[p].inum] = c]
        /\ Goto(p, NoOp) /\ UNCHANGED <<bitmap, items, pointers, dirent, ops, hurt>>
    BY <1>2 DEF Wipe
  <2>2. op[p] \in Operation /\ Condemned(op[p]) \in InodeRecord
    BY <2>1, OpFacts DEF Condemned
  <2>3. c \in InodeRecord /\ op[p].inum \in Inum
    BY <2>2 DEF InodeRecord, Operation
  <2> HIDE DEF c
  <2>4. inode' \in [Inum -> InodeRecord]
    BY <2>1, <2>3 DEF Typed
  <2>5. OpsTyped(op', dirent')
    BY <2>1, Constants, GotoTyped
  <2>6. Typed'
    BY <2>1, <2>4, <2>5 DEF Typed
  <2> QED BY <2>1, <2>6
<1> QED BY <1>1, <1>2

\* An inode in memory gets another block.
Relinked(h, d) == dirent' = [dirent EXCEPT ![h].disk = d]
\* A copy of an inode gets another block.
LEMMA RelinkFacts ==
  ASSUME Typed, NEW h \in Handle, NEW d \in InodeRecord, Relinked(h, d)
  PROVE  /\ dirent' \in [Handle -> Direntry]
         /\ dirent'[h].disk = d /\ \A g \in Handle \ {h} : dirent'[g] = dirent[g]
         /\ \A g \in Handle : /\ dirent'[g].live = dirent[g].live /\ dirent'[g].inum = dirent[g].inum
                              /\ dirent'[g].dir = dirent[g].dir
<1>1. dirent \in [Handle -> Direntry] /\ dirent[h] \in Direntry
  BY DEF Typed
<1> DEFINE e == [dirent[h] EXCEPT !.disk = d]
<1>2. e \in Direntry /\ e.disk = d /\ e.live = dirent[h].live /\ e.inum = dirent[h].inum
      /\ e.dir = dirent[h].dir
  BY <1>1 DEF Direntry
<1>3. dirent' = [dirent EXCEPT ![h] = e]
  BY DEF Relinked
<1> HIDE DEF e
<1>4. dirent' \in [Handle -> Direntry] /\ dirent'[h] = e /\ \A g \in Handle \ {h} : dirent'[g] = dirent[g]
  BY <1>1, <1>2, <1>3
<1> QED BY <1>2, <1>4

\* No block is left: a creation goes on without one, a write ends.
LEMMA FullFacts ==
  ASSUME DiskAssumption, Typed, NEW p \in Proc, op[p].at = "alloc", dirent' = dirent,
         LET o == op[p]
         IN  Goto(p, IF Creates(o) THEN [o EXCEPT !.at = "save", !.slot = "final"] ELSE NoOp)
  PROVE  LET o == op[p]
         IN  \/ Creates(o) /\ Goes(p, [o EXCEPT !.at = "save", !.slot = "final"])
             \/ Goes(p, NoOp)
<1> DEFINE o == op[p]
           x == [o EXCEPT !.at = "save", !.slot = "final"]
<1>1. o \in Operation /\ Shaped(o) /\ o.h \in Handle /\ dirent[o.h].live
  BY OpFacts
<1>2. CASE Creates(o)
  <2>1. x \in Operation /\ x.at = "save" /\ x.slot = "final" /\ x.kind = o.kind /\ x.h = o.h
        /\ x.name = o.name
    BY <1>1 DEF Operation
  <2>2. Shaped(x)
    BY <2>1, <1>1, <1>2 DEF Shaped, Creates
  <2>3. Goto(p, x)
    BY <1>2
  <2>4. Goes(p, x)
    <3> HIDE DEF x
    <3> QED BY <2>1, <2>2, <2>3, <1>1, GotoTyped DEF Goes
  <2> QED BY <2>4, <1>2
<1>3. CASE ~Creates(o)
  <2>1. Goto(p, NoOp)
    BY <1>3
  <2> QED BY <2>1, Constants, GotoTyped DEF Goes
<1> QED BY <1>2, <1>3

\* diskfs_data_block_alloc takes a block that is not in use, and it is entered where it belongs.
LEMMA AllocFacts ==
  ASSUME DiskAssumption, Typed, NEW p \in Proc, Alloc(p)
  PROVE  LET o == op[p]
             d == dirent[o.h].disk
         IN  /\ Typed' /\ UNCHANGED <<inode, items, pointers>> /\ o.at = "alloc"
             /\ \/ /\ bitmap' = bitmap /\ dirent' = dirent /\ hurt' = hurt \cup {"full"}
                   /\ \/ Creates(o) /\ Goes(p, [o EXCEPT !.at = "save", !.slot = "final"])
                      \/ Goes(p, NoOp)
                \/ \E b \in Block \ (bitmap \cup {0}) :
                     /\ bitmap' = bitmap \cup {b} /\ hurt' = hurt
                     /\ \/ /\ o.slot = "direct" /\ o.i \in 0..(Direct - 1)
                           /\ Relinked(o.h, [d EXCEPT !.direct = [d.direct EXCEPT ![o.i] = b]])
                           /\ Goes(p, [o EXCEPT !.at = "save", !.b = b])
                        \/ /\ o.slot = "indirect" /\ Relinked(o.h, [d EXCEPT !.indirect = b])
                           /\ Goes(p, [o EXCEPT !.at = "save", !.b = b])
                        \/ /\ o.slot = "pointer" /\ dirent' = dirent /\ o.i - Direct \in 0..(PerBlock - 1)
                           /\ Goes(p, [o EXCEPT !.at = "putptr", !.b = b,
                                                !.ptr = [o.ptr EXCEPT ![o.i - Direct] = b]])
<1> DEFINE o == op[p]
           d == dirent[o.h].disk
           b == Min(FreeBlocks)
<1>1. /\ o.at = "alloc" /\ UNCHANGED <<inode, items, pointers, ops>>
      /\ \/ /\ FreeBlocks = {}
            /\ Goto(p, IF Creates(o) THEN [o EXCEPT !.at = "save", !.slot = "final"] ELSE NoOp)
            /\ hurt' = hurt \cup {"full"}
            /\ UNCHANGED <<bitmap, dirent>>
         \/ /\ FreeBlocks # {}
            /\ bitmap' = bitmap \cup {b}
            /\ dirent' = CASE o.slot = "direct" -> [dirent EXCEPT ![o.h].disk.direct[o.i] = b]
                           [] o.slot = "indirect" -> [dirent EXCEPT ![o.h].disk.indirect = b]
                           [] o.slot = "pointer" -> dirent
            /\ Goto(p, IF o.slot = "pointer"
                       THEN [o EXCEPT !.at = "putptr", !.b = b, !.ptr[o.i - Direct] = b]
                       ELSE [o EXCEPT !.at = "save", !.b = b])
            /\ UNCHANGED hurt
  BY DEF Alloc, Marked
<1>2. o \in Operation /\ Shaped(o) /\ o.h \in Handle /\ dirent[o.h].live /\ d \in InodeRecord
  BY <1>1, OpFacts DEF DirOf
<1>3. o.slot \in {"direct", "indirect", "pointer"} /\ (o.slot = "direct" => o.i \in 0..(Direct - 1))
      /\ (o.slot # "direct" => o.i >= Direct /\ o.i - Direct \in 0..(PerBlock - 1))
  <2>1. o.i \in Nat /\ o.i < Direct + PerBlock
    BY <1>2, Constants DEF Operation, Slot
  <2> QED BY <2>1, <1>1, <1>2, Constants, SMTT(20) DEF Shaped
<1>4. CASE /\ FreeBlocks = {}
           /\ Goto(p, IF Creates(o) THEN [o EXCEPT !.at = "save", !.slot = "final"] ELSE NoOp)
           /\ hurt' = hurt \cup {"full"}
           /\ UNCHANGED <<bitmap, dirent>>
  <2>1. \/ Creates(o) /\ Goes(p, [o EXCEPT !.at = "save", !.slot = "final"])
        \/ Goes(p, NoOp)
    BY <1>1, <1>4, FullFacts, Zenon
  <2>2. OpsTyped(op', dirent')
    BY <2>1 DEF Goes
  <2>3. Typed'
    BY <2>2, <1>1, <1>4 DEF Typed, Race
  <2> QED BY <2>1, <2>3, <1>1, <1>4, Zenon
<1>5. CASE /\ FreeBlocks # {}
           /\ bitmap' = bitmap \cup {b}
           /\ dirent' = CASE o.slot = "direct" -> [dirent EXCEPT ![o.h].disk.direct[o.i] = b]
                          [] o.slot = "indirect" -> [dirent EXCEPT ![o.h].disk.indirect = b]
                          [] o.slot = "pointer" -> dirent
           /\ Goto(p, IF o.slot = "pointer"
                      THEN [o EXCEPT !.at = "putptr", !.b = b, !.ptr[o.i - Direct] = b]
                      ELSE [o EXCEPT !.at = "save", !.b = b])
           /\ UNCHANGED hurt
  <2>1. b \in Block \ (bitmap \cup {0})
    <3>1. FreeBlocks \in SUBSET Nat
      BY DEF FreeBlocks, Block, DiskAssumption
    <3>2. b \in FreeBlocks
      BY <3>1, <1>5, MinIn
    <3> QED BY <3>2 DEF FreeBlocks
  <2> HIDE DEF b
  <2>2. bitmap' \subseteq Block
    BY <2>1, <1>5 DEF Typed
  <2>3. CASE o.slot = "direct"
    <3> DEFINE e == [d EXCEPT !.direct = [d.direct EXCEPT ![o.i] = b]]
               x == [o EXCEPT !.at = "save", !.b = b]
    <3>1. e \in InodeRecord
      BY <2>1, <1>2, <1>3, <2>3 DEF InodeRecord
    <3>2. Relinked(o.h, e)
      BY <1>5, <2>3 DEF Relinked
    <3>3. Goto(p, x)
      BY <1>5, <2>3
    <3>4. x \in Operation /\ x.at = "save" /\ x.slot = "direct" /\ x.kind = o.kind /\ x.h = o.h
          /\ x.name = o.name /\ x.i = o.i
      BY <1>2, <2>1, <2>3 DEF Operation
    <3>5. Shaped(x)
      BY <3>4, <1>1, <1>2, <2>3 DEF Shaped, Creates
    <3> HIDE DEF e, x
    <3>6. dirent' \in [Handle -> Direntry] /\ \A g \in Handle : dirent'[g].live = dirent[g].live
      BY <3>1, <3>2, <1>2, RelinkFacts
    <3>7. Goes(p, x)
      BY <3>3, <3>4, <3>5, <3>6, <1>2, GotoTyped DEF Goes
    <3>8. Typed'
      BY <3>6, <3>7, <2>2, <1>1, <1>5, Zenon DEF Typed, Goes
    <3> QED BY <3>2, <3>7, <3>8, <2>1, <2>3, <1>1, <1>3, <1>5, Zenon DEF e, x
  <2>4. CASE o.slot = "indirect"
    <3> DEFINE e == [d EXCEPT !.indirect = b]
               x == [o EXCEPT !.at = "save", !.b = b]
    <3>1. e \in InodeRecord
      BY <2>1, <1>2 DEF InodeRecord
    <3>2. Relinked(o.h, e)
      BY <1>5, <2>4 DEF Relinked
    <3>3. Goto(p, x)
      BY <1>5, <2>4
    <3>4. x \in Operation /\ x.at = "save" /\ x.slot = "indirect" /\ x.kind = o.kind /\ x.h = o.h
          /\ x.name = o.name /\ x.i = o.i
      BY <1>2, <2>1, <2>4 DEF Operation
    <3>5. Shaped(x)
      BY <3>4, <1>1, <1>2, <2>4 DEF Shaped, Creates
    <3> HIDE DEF e, x
    <3>6. dirent' \in [Handle -> Direntry] /\ \A g \in Handle : dirent'[g].live = dirent[g].live
      BY <3>1, <3>2, <1>2, RelinkFacts
    <3>7. Goes(p, x)
      BY <3>3, <3>4, <3>5, <3>6, <1>2, GotoTyped DEF Goes
    <3>8. Typed'
      BY <3>6, <3>7, <2>2, <1>1, <1>5 DEF Typed, Goes
    <3> QED BY <3>2, <3>7, <3>8, <2>1, <2>4, <1>1, <1>5, Zenon DEF e, x
  <2>5. CASE o.slot = "pointer"
    <3> DEFINE f == [o.ptr EXCEPT ![o.i - Direct] = b]
               x == [o EXCEPT !.at = "putptr", !.b = b, !.ptr = f]
    <3>1. f \in [0..(PerBlock - 1) -> Block]
      <4>1. o.ptr \in [0..(PerBlock - 1) -> Block]
        BY <1>2 DEF Operation
      <4> HIDE DEF o
      <4> QED BY <4>1, <2>1, <2>5, <1>3
    <3>2. dirent' = dirent /\ Goto(p, x)
      BY <1>5, <2>5
    <3>3. x \in Operation /\ x.at = "putptr" /\ x.slot = "pointer" /\ x.kind = o.kind /\ x.h = o.h
          /\ x.name = o.name /\ x.i = o.i
      <4> HIDE DEF f
      <4> QED BY <3>1, <1>2, <2>1, <2>5 DEF Operation
    <3>4. Shaped(x)
      BY <3>3, <1>1, <1>2, <1>3, <2>5 DEF Shaped, Creates
    <3> HIDE DEF x
    <3>5. Goes(p, x)
      BY <3>2, <3>3, <3>4, <1>2, GotoTyped DEF Goes
    <3>6. Typed'
      BY <3>2, <3>5, <2>2, <1>1, <1>5, Zenon DEF Typed, Goes
    <3> QED BY <3>2, <3>5, <3>6, <2>1, <2>5, <1>1, <1>3, <1>5, Zenon DEF x
  <2> QED BY <2>3, <2>4, <2>5, <1>3, Zenon
<1> QED BY <1>1, <1>4, <1>5, Zenon

\* A step to position at of the same operation that needs no more of its fields.
LEMMA MoveTyped ==
  ASSUME Typed, NEW p \in Proc, op[p] \in Operation, Shaped(op[p]), op[p].h \in Handle, dirent[op[p].h].live,
         NEW at \in {"data", "getptr", "load"}, op[p].at \in {"save", "zero", "getptr", "putptr", "data"},
         at = "getptr" => op[p].i >= Direct,
         \A h \in Handle : dirent[h].live => dirent'[h].live,
         Goto(p, [op[p] EXCEPT !.at = at])
  PROVE  Goes(p, [op[p] EXCEPT !.at = at])
<1> DEFINE o == op[p]
           x == [o EXCEPT !.at = at]
<1>1. x \in Operation /\ x.at = at /\ x.slot = o.slot /\ x.kind = o.kind /\ x.h = o.h /\ x.name = o.name
      /\ x.i = o.i
  BY DEF Operation
<1>2. Shaped(x)
  BY <1>1 DEF Shaped, Creates
<1> HIDE DEF x
<1>3. Goto(p, x)
  BY DEF x
<1>4. Goes(p, x)
  BY <1>1, <1>2, <1>3, GotoTyped DEF Goes
<1> QED BY <1>4 DEF x

\* diskfs_inode_save writes the copy of the inode to the disk.
LEMMA SaveFacts ==
  ASSUME DiskAssumption, Typed, NEW p \in Proc, Save(p)
  PROVE  LET o == op[p]
         IN  /\ Typed' /\ UNCHANGED <<bitmap, items, pointers, dirent, hurt>> /\ o.at = "save"
             /\ inode' = [inode EXCEPT ![dirent[o.h].inum] = dirent[o.h].disk]
             /\ \/ o.slot = "direct" /\ Goes(p, [o EXCEPT !.at = "data"])
                \/ o.slot = "indirect" /\ Goes(p, [o EXCEPT !.at = "zero"])
                \/ o.slot = "final" /\ Goes(p, [o EXCEPT !.at = "load"])
<1> DEFINE o == op[p]
           next == [direct |-> "data", indirect |-> "zero", final |-> "load"]
<1>1. /\ o.at = "save" /\ UNCHANGED <<bitmap, items, pointers, dirent, ops, hurt>>
      /\ inode' = [inode EXCEPT ![dirent[o.h].inum] = DirOf(o)]
      /\ Goto(p, [o EXCEPT !.at = next[o.slot]])
  BY DEF Save, Saved
<1>2. o \in Operation /\ Shaped(o) /\ o.h \in Handle /\ dirent[o.h].live /\ DirOf(o) \in InodeRecord
      /\ dirent[o.h].inum \in Inum
  BY <1>1, OpFacts
<1>3. o.slot \in {"direct", "indirect", "final"}
  BY <1>1, <1>2 DEF Shaped
<1>4. inode' \in [Inum -> InodeRecord]
  BY <1>1, <1>2 DEF Typed
<1>5. o.slot = "direct" => Goes(p, [o EXCEPT !.at = "data"])
  <2>1. o.slot = "direct" => Goto(p, [o EXCEPT !.at = "data"])
    BY <1>1
  <2> QED BY <2>1, <1>1, <1>2, MoveTyped
<1>6. o.slot = "final" => Goes(p, [o EXCEPT !.at = "load"])
  <2>1. o.slot = "final" => Goto(p, [o EXCEPT !.at = "load"])
    BY <1>1
  <2> QED BY <2>1, <1>1, <1>2, MoveTyped
<1>7. o.slot = "indirect" => Goes(p, [o EXCEPT !.at = "zero"])
  <2> DEFINE x == [o EXCEPT !.at = "zero"]
  <2>1. o.slot = "indirect" => Goto(p, x)
    BY <1>1
  <2>2. x \in Operation /\ x.at = "zero" /\ x.slot = o.slot /\ x.kind = o.kind /\ x.h = o.h /\ x.name = o.name
        /\ x.i = o.i
    BY <1>2 DEF Operation
  <2>3. o.slot = "indirect" => Shaped(x)
    BY <2>2, <1>1, <1>2 DEF Shaped, Creates
  <2> HIDE DEF x
  <2>4. o.slot = "indirect" => Goes(p, x)
    BY <2>1, <2>2, <2>3, <1>1, <1>2, GotoTyped DEF Goes
  <2> QED BY <2>4 DEF x
<1>8. Typed'
  <2>1. OpsTyped(op', dirent')
    BY <1>3, <1>5, <1>6, <1>7 DEF Goes
  <2> QED BY <2>1, <1>1, <1>4 DEF Typed
<1> QED BY <1>1, <1>3, <1>5, <1>6, <1>7, <1>8 DEF DirOf

\* The new indirect block is cleared.
LEMMA ZeroFacts ==
  ASSUME DiskAssumption, Typed, NEW p \in Proc, Zero(p)
  PROVE  LET o == op[p]
         IN  /\ Typed' /\ UNCHANGED <<bitmap, inode, items, dirent, hurt>> /\ o.at = "zero"
             /\ pointers' = [pointers EXCEPT ![o.b] = NoPointers]
             /\ Goes(p, [o EXCEPT !.at = "getptr"])
<1> DEFINE o == op[p]
<1>1. /\ o.at = "zero" /\ UNCHANGED <<bitmap, inode, items, dirent, ops, hurt>>
      /\ pointers' = [pointers EXCEPT ![o.b] = NoPointers]
      /\ Goto(p, [o EXCEPT !.at = "getptr"])
  BY DEF Zero
<1>2. o \in Operation /\ Shaped(o) /\ o.h \in Handle /\ dirent[o.h].live
  BY <1>1, OpFacts
<1>3. Goes(p, [o EXCEPT !.at = "getptr"])
  <2>1. o.i >= Direct
    BY <1>1, <1>2 DEF Shaped
  <2> QED BY <2>1, <1>1, <1>2, MoveTyped
<1>4. pointers' \in [Block -> [0..(PerBlock - 1) -> Block]]
  BY <1>1, Constants, Zenon DEF Typed
<1>5. Typed'
  BY <1>1, <1>3, <1>4 DEF Typed, Goes
<1> QED BY <1>1, <1>3, <1>5

\* The indirect block is read: the pointer is there, or a block is to be taken.
LEMMA GetPointerFacts ==
  ASSUME DiskAssumption, Typed, NEW p \in Proc, GetPointer(p)
  PROVE  LET o == op[p]
             P == pointers[dirent[o.h].disk.indirect]
         IN  /\ Typed' /\ UNCHANGED <<bitmap, inode, items, pointers, dirent, hurt>> /\ o.at = "getptr"
             /\ o.i >= Direct /\ o.i - Direct \in 0..(PerBlock - 1)
             /\ \/ P[o.i - Direct] = 0
                   /\ Goes(p, [o EXCEPT !.at = "alloc", !.slot = "pointer", !.ptr = P])
                \/ P[o.i - Direct] # 0
                   /\ Goes(p, [o EXCEPT !.at = "data", !.b = P[o.i - Direct]])
<1> DEFINE o == op[p]
           P == pointers[dirent[o.h].disk.indirect]
<1>1. /\ o.at = "getptr" /\ UNCHANGED <<bitmap, inode, items, pointers, dirent, ops, hurt>>
      /\ Goto(p, IF P[o.i - Direct] = 0 THEN [o EXCEPT !.at = "alloc", !.slot = "pointer", !.ptr = P]
                 ELSE [o EXCEPT !.at = "data", !.b = P[o.i - Direct]])
  BY Zenon DEF GetPointer, DirOf
<1>2. o \in Operation /\ Shaped(o) /\ o.h \in Handle /\ dirent[o.h].live /\ DirOf(o) \in InodeRecord
  BY <1>1, OpFacts, Zenon
<1>3. o.i >= Direct /\ o.i - Direct \in 0..(PerBlock - 1)
  <2>1. o.i \in Nat /\ o.i < Direct + PerBlock
    BY <1>2, Constants DEF Operation, Slot
  <2> QED BY <2>1, <1>1, <1>2, Constants, SMTT(20) DEF Shaped
<1>4. P \in [0..(PerBlock - 1) -> Block] /\ P[o.i - Direct] \in Block
  <2>1. P \in [0..(PerBlock - 1) -> Block]
    BY <1>2 DEF Typed, DirOf, InodeRecord
  <2> HIDE DEF P, o
  <2> QED BY <2>1, <1>3
<1> HIDE DEF P
<1>5. CASE P[o.i - Direct] = 0
  <2> DEFINE x == [o EXCEPT !.at = "alloc", !.slot = "pointer", !.ptr = P]
  <2>1. x \in Operation /\ x.at = "alloc" /\ x.slot = "pointer" /\ x.kind = o.kind /\ x.h = o.h
        /\ x.name = o.name /\ x.i = o.i
    BY <1>2, <1>4 DEF Operation
  <2>2. Shaped(x)
    BY <2>1, <1>1, <1>2, <1>3 DEF Shaped, Creates
  <2>3. Goto(p, x)
    BY <1>1, <1>5
  <2>4. Goes(p, x)
    <3> HIDE DEF x
    <3> QED BY <2>1, <2>2, <2>3, <1>1, <1>2, GotoTyped DEF Goes
  <2>5. Typed'
    BY <1>1, <2>4 DEF Typed, Goes
  <2> QED BY <2>4, <2>5, <1>1, <1>3, <1>5 DEF P
<1>6. CASE P[o.i - Direct] # 0
  <2> DEFINE b == P[o.i - Direct]
             x == [o EXCEPT !.at = "data", !.b = b]
  <2> HIDE DEF b
  <2>1. x \in Operation /\ x.at = "data" /\ x.slot = o.slot /\ x.kind = o.kind /\ x.h = o.h
        /\ x.name = o.name /\ x.i = o.i
    BY <1>2, <1>4 DEF Operation, b
  <2>2. Shaped(x)
    BY <2>1, <1>1, <1>2, <1>3 DEF Shaped, Creates
  <2>3. Goto(p, x)
    BY <1>1, <1>6 DEF b
  <2>4. Goes(p, x)
    <3> HIDE DEF x
    <3> QED BY <2>1, <2>2, <2>3, <1>1, <1>2, GotoTyped DEF Goes
  <2>5. Typed'
    BY <1>1, <2>4 DEF Typed, Goes
  <2> QED BY <2>4, <2>5, <1>1, <1>3, <1>6, Zenon DEF P, b
<1> QED BY <1>5, <1>6, Zenon

\* The indirect block is written with the new pointer.
LEMMA PutPointerFacts ==
  ASSUME DiskAssumption, Typed, NEW p \in Proc, PutPointer(p)
  PROVE  LET o == op[p]
         IN  /\ Typed' /\ UNCHANGED <<bitmap, inode, items, dirent, hurt>> /\ o.at = "putptr"
             /\ pointers' = [pointers EXCEPT ![dirent[o.h].disk.indirect] = o.ptr]
             /\ Goes(p, [o EXCEPT !.at = "data"])
<1> DEFINE o == op[p]
<1>1. /\ o.at = "putptr" /\ UNCHANGED <<bitmap, inode, items, dirent, ops, hurt>>
      /\ pointers' = [pointers EXCEPT ![dirent[o.h].disk.indirect] = o.ptr]
      /\ Goto(p, [o EXCEPT !.at = "data"])
  BY DEF PutPointer, Pointed, DirOf
<1>2. o \in Operation /\ Shaped(o) /\ o.h \in Handle /\ dirent[o.h].live
  BY <1>1, OpFacts
<1>3. Goes(p, [o EXCEPT !.at = "data"])
  BY <1>1, <1>2, MoveTyped
<1>4. pointers' \in [Block -> [0..(PerBlock - 1) -> Block]]
  <2>1. o.ptr \in [0..(PerBlock - 1) -> Block]
    BY <1>2 DEF Operation
  <2> QED BY <2>1, <1>1 DEF Typed
<1>5. Typed'
  BY <1>1, <1>3, <1>4 DEF Typed, Goes
<1> QED BY <1>1, <1>3, <1>5

\* The block is written, and the caller goes on.
LEMMA DataFacts ==
  ASSUME DiskAssumption, Typed, NEW p \in Proc, Data(p)
  PROVE  LET o == op[p]
         IN  /\ Typed' /\ UNCHANGED <<bitmap, inode, pointers>> /\ SameDirents
             /\ o.at = "data"
             /\ \/ o.kind = "remove"
                \/ o.kind = "write" /\ Goes(p, NoOp) /\ items' = items
                \/ /\ Creates(o) /\ items' = [items EXCEPT ![o.b] = o.buf]
                   /\ o.size <= dirent'[o.h].disk.size
                   /\ \/ Goes(p, [o EXCEPT !.at = "save", !.slot = "final"])
                      \/ Goes(p, [o EXCEPT !.at = "load"])
             /\ Noted("twice", Creates(o) /\ Rival(p, o))
<1> DEFINE o == op[p]
           size == DirOf(o).size
           x == CASE o.kind = "write" -> NoOp
                  [] o.kind = "remove" -> [o EXCEPT !.at = "free", !.i = 0]
                  [] Creates(o) /\ (o.size = -1 \/ o.size > size) ->
                       [o EXCEPT !.at = "save", !.slot = "final"]
                  [] OTHER -> [o EXCEPT !.at = "load"]
<1>1. /\ o.at = "data" /\ UNCHANGED <<bitmap, inode, pointers, ops>>
      /\ items' = IF o.kind = "write" THEN items ELSE [items EXCEPT ![o.b] = o.buf]
      /\ dirent' = IF Creates(o) /\ o.size > size THEN [dirent EXCEPT ![o.h].disk.size = o.size]
                   ELSE dirent
      /\ Goto(p, x)
      /\ Note("twice", Creates(o) /\ Rival(p, o))
  BY DEF Data
<1>2. o \in Operation /\ Shaped(o) /\ o.h \in Handle /\ dirent[o.h].live /\ DirOf(o) \in InodeRecord
  BY <1>1, OpFacts
<1>3. size \in 0..Capacity /\ o.size \in (0..Capacity) \cup {-1} /\ Capacity \in Nat
      /\ o.kind \in {"mkfile", "mkdir", "write", "remove"}
      /\ (Creates(o) <=> o.kind \in {"mkfile", "mkdir"}) /\ size = dirent[o.h].disk.size
  BY <1>1, <1>2, Constants DEF InodeRecord, Operation, Shaped, Creates, DirOf
<1>4. SameDirents /\ (Creates(o) => o.size <= dirent'[o.h].disk.size)
  <2>1. CASE Creates(o) /\ o.size > size
    <3>1. Resized(o.h, o.size) /\ o.size \in 0..Capacity
      BY <1>1, <1>3, <2>1, SMTT(20) DEF Resized
    <3>2. SameDirents /\ dirent'[o.h].disk.size = o.size
      <4>1. o.size >= dirent[o.h].disk.size /\ o.h \in Handle
        BY <2>1, <1>2, <1>3
      <4> HIDE DEF o
      <4> QED BY <3>1, <4>1, SizeFacts
    <3> QED BY <3>2, <3>1
  <2>2. CASE ~(Creates(o) /\ o.size > size)
    BY <2>2, <1>1, <1>3, SameDirentsKept, SMTT(20) DEF DirOf
  <2> QED BY <2>1, <2>2
<1>5. Noted("twice", Creates(o) /\ Rival(p, o))
  BY <1>1 DEF Note, Noted, Typed, Race
<1>6. x \in Operation /\ Shaped(x) /\ x.h \in {0, o.h} /\ (x.at # "user" => x.h = o.h)
      /\ (Creates(o) => \/ x = [o EXCEPT !.at = "save", !.slot = "final"]
                        \/ x = [o EXCEPT !.at = "load"])
      /\ (o.kind = "write" => x = NoOp)
  <2>1. CASE o.kind = "write"
    <3>1. x = NoOp
      BY <2>1, <1>3
    <3>2. NoOp.h = 0 /\ ~Creates(o)
      BY <2>1, <1>3 DEF NoOp
    <3> QED BY <3>1, <3>2, <2>1, Constants
  <2>2. CASE o.kind = "remove"
    <3>1. x = [o EXCEPT !.at = "free", !.i = 0]
      BY <2>2, <1>3
    <3> HIDE DEF x
    <3>2. x \in Operation /\ x.at = "free" /\ x.h = o.h /\ x.kind = "remove"
      BY <3>1, <2>2, <1>2, Constants DEF Operation
    <3>3. Shaped(x) /\ ~Creates(o)
      BY <3>2, <2>2, <1>2 DEF Shaped, Creates
    <3> QED BY <3>2, <3>3, <2>2
  <2>3. CASE Creates(o)
    <3>1. \/ x = [o EXCEPT !.at = "save", !.slot = "final"]
          \/ x = [o EXCEPT !.at = "load"]
      BY <2>3, <1>3
    <3> HIDE DEF x
    <3>2. x \in Operation /\ x.at \in {"save", "load"} /\ x.h = o.h /\ x.kind = o.kind /\ x.name = o.name
          /\ (x.at = "save" => x.slot = "final")
      <4>1. ASSUME x = [o EXCEPT !.at = "save", !.slot = "final"]
            PROVE  x \in Operation /\ x.at = "save" /\ x.h = o.h /\ x.kind = o.kind /\ x.name = o.name
                   /\ x.slot = "final"
        BY <4>1, <1>2 DEF Operation
      <4>2. ASSUME x = [o EXCEPT !.at = "load"]
            PROVE  x \in Operation /\ x.at = "load" /\ x.h = o.h /\ x.kind = o.kind /\ x.name = o.name
        BY <4>2, <1>2 DEF Operation
      <4> QED BY <3>1, <4>1, <4>2
    <3>3. Shaped(x) /\ o.kind # "write"
      BY <3>2, <2>3, <1>2 DEF Shaped, Creates
    <3> QED BY <3>1, <3>2, <3>3, <2>3
  <2> QED BY <2>1, <2>2, <2>3, <1>3
<1> HIDE DEF x
<1>7. Goes(p, x)
  <2>1. \A h \in Handle : dirent[h].live => dirent'[h].live
    BY <1>4 DEF SameDirents
  <2> QED BY <2>1, <1>1, <1>2, <1>6, GotoTyped DEF Goes
<1>8. items' \in [Block -> ItemBlock]
  <2>1. o.buf \in ItemBlock
    BY <1>2 DEF Operation
  <2> QED BY <2>1, <1>1 DEF Typed
<1>9. Typed'
  BY <1>1, <1>4, <1>5, <1>7, <1>8 DEF Typed, SameDirents, Goes, Noted
<1>10. SameDirents /\ (Creates(o) => o.size <= dirent'[o.h].disk.size)
  BY <1>4
<1>11. Creates(o) => items' = [items EXCEPT ![o.b] = o.buf]
  BY <1>1, <1>3
<1> QED BY <1>1, <1>3, <1>5, <1>6, <1>7, <1>9, <1>10, <1>11

-----------------------------------------------------------------------------
(* Blocks have one place and entries an inode, until something is removed *)

\* An operation that begins to place a block finds the blocks of the inode in their places.
LEMMA PlaceAt ==
  ASSUME DiskAssumption, NEW x \in Operation, x.h \in Handle, NEW d \in InodeRecord, NEW n, NEW w,
         x.kind \in {"mkfile", "mkdir", "write", "remove"}, Creates(x) => x.name \in Name,
         Conforms(w, bitmap, d, n)
  PROVE  OpAt(w, bitmap, Place(x, d), d, n)
<1> DEFINE r == Place(x, d)
<1>1. /\ Strict(r) /\ r.at \notin {"user", "save", "zero", "putptr"} /\ r.i = x.i
      /\ r.at = "alloc" => r.slot # "pointer"
      /\ r.at = "data" => x.i < Direct /\ d.direct[x.i] # 0 /\ r.b = d.direct[x.i]
      /\ r.at = "getptr" => d.indirect # 0
  BY PlaceFacts
<1>0. x.i \in Nat
  BY Constants DEF Operation, Slot
<1> HIDE DEF r
<1>2. r.at = "data" => x.i \in 0..(Direct - 1)
  BY <1>0, <1>1, Constants
<1>3. OpAt(w, bitmap, r, d, n)
  BY <1>1, <1>2 DEF OpAt, Conforms
<1> QED BY <1>3 DEF r

\* A step that takes no block and leaves indirect blocks alone.
LEMMA PlacedQuiet ==
  ASSUME Typed, NEW w, Placed(w), NEW p \in Proc, NEW o \in Operation, Goes(p, o), SameDirents,
         bitmap' = bitmap, pointers' = pointers,
         \A n \in Inum : Conforms(w, bitmap, inode'[n], n),
         Shaped(o),
         o.at # "user" => OpAt(w, bitmap, o, dirent[o.h].disk, dirent[o.h].inum)
  PROVE  Placed(w)'
<1>1. ASSUME NEW h \in Handle PROVE Conforms(w, bitmap', dirent'[h].disk, dirent'[h].inum)
  <2>1. Conforms(w, bitmap, dirent[h].disk, dirent[h].inum)
    BY DEF Placed
  <2>2. dirent'[h].disk.direct = dirent[h].disk.direct /\ dirent'[h].disk.indirect = dirent[h].disk.indirect
        /\ dirent'[h].inum = dirent[h].inum
    BY DEF SameDirents
  <2> QED BY <2>1, <2>2 DEF Conforms
<1>2. ASSUME NEW q \in Proc, op'[q].at # "user"
      PROVE  OpAt(w, bitmap', op'[q], dirent'[op'[q].h].disk, dirent'[op'[q].h].inum)
  <2>1. OpAt(w, bitmap, op'[q], dirent[op'[q].h].disk, dirent[op'[q].h].inum)
    <3>1. CASE q = p
      BY <3>1, <1>2 DEF Goes
    <3>2. CASE q # p
      BY <3>2, <1>2 DEF Goes, Placed
    <3> QED BY <3>1, <3>2
  <2>2. op'[q].h \in Handle
    BY <1>2 DEF Goes, OpsTyped, Shaped
  <2>3. dirent'[op'[q].h].disk.indirect = dirent[op'[q].h].disk.indirect
        /\ dirent'[op'[q].h].inum = dirent[op'[q].h].inum
    BY <2>2 DEF SameDirents
  <2> QED BY <2>1, <2>3 DEF OpAt
<1>3. \A b \in Block : pointers'[b] # NoPointers =>
        b \in bitmap' \ {0} /\ \E n \in Inum : w[b] = <<n, -1>> /\ PointersAt(w, bitmap', pointers'[b], n)
  BY DEF Placed
<1>4. \A n \in Inum : Conforms(w, bitmap', inode'[n], n)
  OBVIOUS
<1> QED BY <1>1, <1>2, <1>3, <1>4 DEF Placed

UseKept ==
  \A h \in Handle : /\ dirent'[h].live = dirent[h].live /\ dirent'[h].inum = dirent[h].inum
                    /\ dirent'[h].disk.inuse = dirent[h].disk.inuse
\* A step that only moves an operation on leaves what is in use.
LEMMA InUseQuiet ==
  ASSUME DiskAssumption, Typed, InUse, NEW p \in Proc, NEW o \in Operation, Goes(p, o), UseKept,
         \A n \in Inum : inode[n].inuse => inode'[n].inuse,
         \A b \in Block, j \in 1..Items : inode'[items'[b][j].inum].inuse,
         inode'[o.inum].inuse, \A j \in 1..Items : inode'[o.buf[j].inum].inuse,
         o.at \notin {"free", "wipe"}, o.kind = "remove" => o.at \in {"scan", "rmdir"}
  PROVE  InUse'
<1>1. inode'[0].inuse
  BY Constants DEF InUse
<1>2. ASSUME NEW h \in Handle PROVE inode'[dirent'[h].inum].inuse /\ (dirent'[h].live => dirent'[h].disk.inuse)
  <2>1. dirent[h].inum \in Inum /\ inode[dirent[h].inum].inuse /\ (dirent[h].live => dirent[h].disk.inuse)
    BY DEF InUse, Typed, Direntry
  <2> QED BY <2>1 DEF UseKept
<1>3. ASSUME NEW q \in Proc
      PROVE  /\ inode'[op'[q].inum].inuse
             /\ \A j \in 1..Items : inode'[op'[q].buf[j].inum].inuse
             /\ op'[q].at \notin {"free", "wipe"}
             /\ op'[q].kind = "remove" => op'[q].at \in {"scan", "rmdir"}
  <2>1. CASE q = p
    BY <2>1 DEF Goes
  <2>2. CASE q # p
    <3>1. op'[q] = op[q] /\ op[q] \in Operation
      BY <2>2 DEF Goes, Typed, OpsTyped
    <3>2. op[q].inum \in Inum /\ \A j \in 1..Items : op[q].buf[j].inum \in Inum
      BY <3>1 DEF Operation, ItemBlock, Item
    <3> QED BY <3>1, <3>2 DEF InUse
  <2> QED BY <2>1, <2>2
<1> QED BY <1>1, <1>2, <1>3 DEF InUse

\* The step of a process that only reads, or only begins or ends.
LEMMA QuietStep ==
  ASSUME DiskAssumption, Typed, NEW w, InUse, NewBlocks, Placed(w), NEW p \in Proc, NEW o \in Operation,
         Goes(p, o), SameDirents, UNCHANGED <<bitmap, inode, items, pointers>>,
         inode[o.inum].inuse, \A j \in 1..Items : inode[o.buf[j].inum].inuse,
         o.at \notin {"free", "wipe"}, o.kind = "remove" => o.at \in {"scan", "rmdir"},
         o.at # "user" => OpAt(w, bitmap, o, dirent[o.h].disk, dirent[o.h].inum)
  PROVE  InUse' /\ NewBlocks' /\ Placed(w)'
<1>1. InUse'
  <2>1. \A b \in Block, j \in 1..Items : inode[items[b][j].inum].inuse
    BY DEF InUse
  <2>2. UseKept
    BY DEF UseKept, SameDirents
  <2> QED BY <2>1, <2>2, InUseQuiet
<1>2. NewBlocks'
  BY DEF NewBlocks
<1>3. Placed(w)'
  <2>1. Shaped(o)
    BY DEF Goes, OpsTyped
  <2>2. \A n \in Inum : Conforms(w, bitmap, inode'[n], n)
    BY DEF Placed
  <2> QED BY <2>1, <2>2, PlacedQuiet
<1> QED BY <1>1, <1>2, <1>3

\* An operation ends, and all blocks keep their places.
LEMMA QuietIdle ==
  ASSUME DiskAssumption, Typed, NEW w, InUse, NewBlocks, Placed(w), NEW p \in Proc,
         Goes(p, NoOp), SameDirents, UNCHANGED <<bitmap, inode, items, pointers>>
  PROVE  InUse' /\ NewBlocks' /\ Placed(w)'
<1>1. /\ NoOp \in Operation /\ NoOp.at = "user" /\ NoOp.inum = 0 /\ NoOp.buf = BlankBlock
      /\ NoOp.kind = "none"
  BY Constants DEF NoOp
<1>2. inode[0].inuse /\ \A j \in 1..Items : BlankBlock[j].inum = 0
  BY DEF InUse, BlankBlock, Blank
<1> QED BY <1>1, <1>2, QuietStep

Sound(w) == InUse /\ NewBlocks /\ Placed(w)

\* A process without an operation has nothing in its hands.
LEMMA Idle ==
  /\ NoOp.inum = 0 /\ NoOp.kind = "none" /\ NoOp.slot = "none" /\ NoOp.i = 0 /\ NoOp.n = 0 /\ NoOp.at = "user"
  /\ \A j \in 1..Items : NoOp.buf[j] = Blank /\ NoOp.buf[j].inum = 0
BY DEF NoOp, BlankBlock, Blank

\* What an operation is about when its step begins.
LEMMA SoundFacts ==
  ASSUME DiskAssumption, Typed, NEW w, Sound(w)
  PROVE  /\ inode[0].inuse
         /\ \A b \in Block, j \in 1..Items : inode[items[b][j].inum].inuse
         /\ \A p \in Proc : /\ inode[op[p].inum].inuse
                            /\ \A j \in 1..Items : inode[op[p].buf[j].inum].inuse
                            /\ op[p].kind = "remove" => op[p].at \in {"scan", "rmdir"}
         /\ \A n \in Inum : Conforms(w, bitmap, inode[n], n)
         /\ \A h \in Handle : Conforms(w, bitmap, dirent[h].disk, dirent[h].inum)
         /\ \A p \in Proc : op[p].at # "user" =>
              OpAt(w, bitmap, op[p], dirent[op[p].h].disk, dirent[op[p].h].inum)
BY DEF Sound, InUse, Placed

\* Beginning to read a directory leaves all blocks in their places.
LEMMA BeginScanSound ==
  ASSUME DiskAssumption, Typed, NEW w, Sound(w), NEW p \in Proc,
         NEW kind \in Ops, NEW h \in Handle, NEW name \in Name, BeginScan(p, kind, h, name)
  PROVE  Sound(w)'
<1> DEFINE o == ScanOp(kind, h, name)
<1>1. /\ o \in Operation /\ UNCHANGED <<bitmap, inode, items, pointers, dirent>>
      /\ o.at = "scan" /\ o.inum = 0 /\ o.buf = BlankBlock
      /\ \/ Goes(p, o)
         \/ Creates(o) /\ Goes(p, [o EXCEPT !.at = "ialloc"])
         \/ Goes(p, NoOp)
  BY BeginScanFacts
<1> HIDE DEF o
<1>2. SameDirents
  BY <1>1, SameDirentsKept
<1>3. inode[0].inuse /\ \A j \in 1..Items : o.buf[j].inum = 0
  BY <1>1, SoundFacts DEF BlankBlock, Blank
<1>5. CASE Goes(p, o)
  <2>1. OpAt(w, bitmap, o, dirent[o.h].disk, dirent[o.h].inum)
    BY <1>1 DEF OpAt
  <2> QED BY <1>1, <1>2, <1>3, <1>5, <2>1, QuietStep DEF Sound
<1>6. CASE Creates(o) /\ Goes(p, [o EXCEPT !.at = "ialloc"])
  <2> DEFINE x == [o EXCEPT !.at = "ialloc"]
  <2>1. x \in Operation /\ x.at = "ialloc" /\ x.inum = 0 /\ x.buf = o.buf /\ x.kind # "remove"
    BY <1>1, <1>3, <1>6 DEF Operation, Creates
  <2> HIDE DEF x
  <2>2. OpAt(w, bitmap, x, dirent[x.h].disk, dirent[x.h].inum)
    BY <2>1 DEF OpAt
  <2>3. Goes(p, x)
    BY <1>6 DEF x
  <2> QED BY <1>1, <1>2, <1>3, <2>1, <2>2, <2>3, QuietStep DEF Sound
<1>7. CASE Goes(p, NoOp)
  BY <1>1, <1>2, <1>7, QuietIdle DEF Sound
<1> QED BY <1>1, <1>5, <1>6, <1>7

\* A process begins to place a block, and nothing else changes but sizes.
LEMMA PlaceSound ==
  ASSUME DiskAssumption, Typed, NEW w, Sound(w), NEW p \in Proc, NEW x \in Operation, x.h \in Handle,
         x.kind \in {"mkfile", "mkdir", "write"}, Creates(x) => x.name \in Name,
         SameDirents, UNCHANGED <<bitmap, items, pointers>>,
         \A n \in Inum : Conforms(w, bitmap, inode'[n], n),
         \A n \in Inum : inode[n].inuse => inode'[n].inuse,
         inode'[x.inum].inuse, \A j \in 1..Items : inode'[x.buf[j].inum].inuse,
         Goes(p, Place(x, dirent[x.h].disk))
  PROVE  Sound(w)'
<1> DEFINE d == dirent[x.h].disk
           r == Place(x, d)
<1>1. d \in InodeRecord /\ Conforms(w, bitmap, d, dirent[x.h].inum)
  BY SoundFacts DEF Typed, Direntry
<1> HIDE DEF d
<1>2. /\ r \in Operation /\ Shaped(r) /\ Strict(r) /\ r.kind = x.kind /\ r.h = x.h /\ r.inum = x.inum
      /\ r.buf = x.buf
  BY <1>1, PlaceFacts
<1>3. OpAt(w, bitmap, r, d, dirent[x.h].inum)
  BY <1>1, PlaceAt
<1> HIDE DEF r
<1>4. r.at \notin {"free", "wipe"}
  BY <1>2 DEF Strict
<1>5. Goes(p, r)
  BY DEF r, d
<1>6. InUse'
  <2>1. \A b \in Block, j \in 1..Items : inode'[items'[b][j].inum].inuse
    <3>1. ASSUME NEW b \in Block, NEW j \in 1..Items PROVE items[b][j].inum \in Inum
      <4>1. items[b] \in ItemBlock
        BY DEF Typed
      <4>2. items[b][j] \in Item
        BY <4>1 DEF ItemBlock
      <4> QED BY <4>2 DEF Item
    <3> QED BY <3>1, SoundFacts
  <2>2. InUse
    BY DEF Sound
  <2>3. UseKept
    BY DEF UseKept, SameDirents
  <2> QED BY <1>2, <1>4, <1>5, <2>1, <2>2, <2>3, InUseQuiet
<1>7. NewBlocks'
  BY DEF Sound, NewBlocks
<1>8. Placed(w)'
  <2>1. Placed(w)
    BY DEF Sound
  <2> QED BY <1>2, <1>3, <1>5, <2>1, PlacedQuiet DEF d
<1> QED BY <1>6, <1>7, <1>8 DEF Sound

\* Beginning to write a file leaves all blocks in their places.
LEMMA BeginWriteSound ==
  ASSUME DiskAssumption, Typed, NEW w, Sound(w), NEW p \in Proc, NEW h \in Handle, NEW k \in Slot,
         BeginWrite(p, h, k)
  PROVE  Sound(w)'
<1> DEFINE o == WriteOp(h, k)
<1>1. /\ SameDirents /\ UNCHANGED <<bitmap, inode, items, pointers>>
      /\ o \in Operation /\ Goes(p, Place(o, dirent[h].disk))
      /\ o.kind = "write" /\ o.h = h /\ o.inum = 0 /\ o.buf = BlankBlock /\ ~Creates(o)
  BY BeginWriteFacts
<1> HIDE DEF o
<1>3. /\ \A n \in Inum : Conforms(w, bitmap, inode'[n], n)
      /\ inode'[o.inum].inuse /\ \A j \in 1..Items : inode'[o.buf[j].inum].inuse
      /\ \A n \in Inum : inode[n].inuse => inode'[n].inuse
  BY <1>1, SoundFacts DEF BlankBlock, Blank
<1> QED BY <1>1, <1>3, PlaceSound

\* The inode that is saved on close has its blocks where the copy had them.
LEMMA CloseSound ==
  ASSUME DiskAssumption, Typed, NEW w, Sound(w), NEW p \in Proc, NEW h \in Handle, Close(p, h)
  PROVE  Sound(w)'
<1>1. /\ dirent[h].live
      /\ inode' = [inode EXCEPT ![dirent[h].inum] = dirent[h].disk]
      /\ dirent' = [dirent EXCEPT ![h] = NoDirent]
      /\ \A q \in Proc : op[q].h # h
      /\ UNCHANGED <<bitmap, items, pointers, op, hurt>>
  BY CloseFacts
<1>2. /\ dirent[h].inum \in Inum /\ dirent[h].disk.inuse
      /\ inode \in [Inum -> InodeRecord] /\ dirent \in [Handle -> Direntry]
      /\ op \in [Proc -> Operation] /\ items \in [Block -> ItemBlock]
  BY <1>1 DEF Sound, InUse, Typed, OpsTyped, Direntry
<1>3. \A n \in Inum : inode[n].inuse => inode'[n].inuse
  BY <1>1, <1>2
<1>4. \A g \in Handle : dirent'[g] = IF g = h THEN NoDirent ELSE dirent[g]
  BY <1>1, <1>2
<1>5. NoDirent.inum = 0 /\ ~NoDirent.live /\ NoDirent.disk = NoInode
  BY DEF NoDirent
<1>6. InUse'
  <2>1. \A g \in Handle : inode'[dirent'[g].inum].inuse /\ (dirent'[g].live => dirent'[g].disk.inuse)
    BY <1>2, <1>3, <1>4, <1>5, Constants DEF Sound, InUse, Direntry
  <2>2. \A b \in Block, j \in 1..Items : inode'[items'[b][j].inum].inuse
    BY <1>1, <1>2, <1>3 DEF Sound, InUse, ItemBlock, Item
  <2>3. \A q \in Proc : inode'[op'[q].inum].inuse /\ \A j \in 1..Items : inode'[op'[q].buf[j].inum].inuse
    BY <1>1, <1>2, <1>3 DEF Sound, InUse, Operation, ItemBlock, Item
  <2>4. inode'[0].inuse
    BY <1>3, Constants DEF Sound, InUse
  <2> QED BY <2>1, <2>2, <2>3, <2>4, <1>1 DEF Sound, InUse
<1>7. NewBlocks'
  BY <1>1 DEF Sound, NewBlocks
<1>8. Placed(w)'
  <2>1. \A n \in Inum : Conforms(w, bitmap', inode'[n], n)
    BY <1>1, <1>2, SoundFacts
  <2>2. \A g \in Handle : Conforms(w, bitmap', dirent'[g].disk, dirent'[g].inum)
    <3>1. Conforms(w, bitmap, NoInode, 0)
      BY DEF Conforms, NoInode, FreshInode
    <3> QED BY <3>1, <1>1, <1>4, <1>5, SoundFacts
  <2>3. ASSUME NEW q \in Proc, op'[q].at # "user"
        PROVE  OpAt(w, bitmap', op'[q], dirent'[op'[q].h].disk, dirent'[op'[q].h].inum)
    <3>1. op[q].h \in Handle /\ op[q].h # h /\ op'[q] = op[q]
      BY <2>3, <1>1, OpFacts
    <3> QED BY <3>1, <2>3, <1>1, <1>4, SoundFacts
  <2>4. \A b \in Block : pointers'[b] # NoPointers =>
          b \in bitmap' \ {0} /\ \E n \in Inum : w[b] = <<n, -1>> /\ PointersAt(w, bitmap', pointers'[b], n)
    BY <1>1 DEF Sound, Placed
  <2> QED BY <2>1, <2>2, <2>3, <2>4 DEF Placed
<1> QED BY <1>6, <1>7, <1>8 DEF Sound

\* An item leads to an inode in use.
LEMMA ItemInum ==
  ASSUME Typed, NEW b \in Block, NEW j \in 1..Items
  PROVE  items[b] \in ItemBlock /\ items[b][j] \in Item /\ items[b][j].inum \in Inum
<1>1. items[b] \in ItemBlock
  BY DEF Typed
<1>2. items[b][j] \in Item
  BY <1>1, Zenon DEF ItemBlock
<1> QED BY <1>1, <1>2 DEF Item

\* Reading a block of a directory leaves all blocks in their places.
LEMMA ScanSound ==
  ASSUME DiskAssumption, Typed, NEW w, Sound(w), NEW p \in Proc, Scan(p), "removed" \notin hurt'
  PROVE  Sound(w)'
<1> DEFINE o == op[p]
           b == Where(pointers, DirOf(o), o.i)
<1>1. /\ UNCHANGED <<bitmap, inode, items, pointers, dirent>> /\ o.at = "scan"
      /\ \/ Goes(p, NoOp)
         \/ \E j \in 1..Items, kind \in {"open", "opendir"} :
              Goes(p, [o EXCEPT !.at = "load", !.inum = items[b][j].inum, !.kind = kind])
         \/ \E j \in 1..Items :
              Goes(p, [o EXCEPT !.at = "rmdir", !.inum = items[b][j].inum,
                                !.buf = [items[b] EXCEPT ![j] = Blank]])
         \/ Goes(p, [o EXCEPT !.i = o.i + 1]) /\ o.i + 1 < o.n
         \/ Creates(o) /\ Goes(p, [o EXCEPT !.at = "ialloc"])
  BY ScanFacts, Zenon
<1>2. SameDirents
  BY <1>1, SameDirentsKept, Zenon
<1>3. /\ o \in Operation /\ Shaped(o) /\ b \in Block
      /\ inode[o.inum].inuse /\ \A j \in 1..Items : inode[o.buf[j].inum].inuse
  BY <1>1, OpFacts, SoundFacts, Zenon
<1> HIDE DEF o, b
<1>4. ASSUME NEW x \in Operation, Goes(p, x), inode[x.inum].inuse, \A j \in 1..Items : inode[x.buf[j].inum].inuse,
             x.at \in {"load", "rmdir", "scan", "ialloc"}, x.kind = "remove" => x.at \in {"scan", "rmdir"}
      PROVE  Sound(w)'
  <2>1. OpAt(w, bitmap, x, dirent[x.h].disk, dirent[x.h].inum)
    BY <1>4 DEF OpAt
  <2> QED BY <1>1, <1>2, <1>4, <2>1, QuietStep, Zenon DEF Sound
<1>5. CASE Goes(p, NoOp)
  BY <1>1, <1>2, <1>5, QuietIdle DEF Sound
<1>6. ASSUME NEW j \in 1..Items, NEW kind \in {"open", "opendir"},
             Goes(p, [o EXCEPT !.at = "load", !.inum = items[b][j].inum, !.kind = kind])
      PROVE  Sound(w)'
  <2> DEFINE x == [o EXCEPT !.at = "load", !.inum = items[b][j].inum, !.kind = kind]
  <2>1. items[b][j].inum \in Inum /\ inode[items[b][j].inum].inuse
    BY <1>3, ItemInum, SoundFacts
  <2>2. x \in Operation /\ x.at = "load" /\ x.inum = items[b][j].inum /\ x.kind = kind /\ x.buf = o.buf
    BY <1>3, <2>1, ZenonT(40) DEF Operation
  <2> HIDE DEF x
  <2>3. Goes(p, x)
    BY <1>6 DEF x
  <2> QED BY <1>3, <1>4, <2>1, <2>2, <2>3
<1>7. ASSUME NEW j \in 1..Items,
             Goes(p, [o EXCEPT !.at = "rmdir", !.inum = items[b][j].inum,
                               !.buf = [items[b] EXCEPT ![j] = Blank]])
      PROVE  Sound(w)'
  <2> DEFINE f == [items[b] EXCEPT ![j] = Blank]
             x == [o EXCEPT !.at = "rmdir", !.inum = items[b][j].inum, !.buf = f]
  <2>1. items[b][j].inum \in Inum /\ inode[items[b][j].inum].inuse
    BY <1>3, ItemInum, SoundFacts
  <2>2. f \in ItemBlock /\ \A k \in 1..Items : f[k] \in {Blank, items[b][k]}
    <3>1. items[b] \in ItemBlock /\ Blank \in Item
      BY <1>3, ItemInum, Constants
    <3> HIDE DEF b
    <3> QED BY <3>1 DEF ItemBlock
  <2>3. \A k \in 1..Items : inode[f[k].inum].inuse
    <3>1. Blank.inum = 0
      BY DEF Blank
    <3> QED BY <3>1, <2>2, <1>3, SoundFacts
  <2> HIDE DEF f
  <2>4. x \in Operation /\ x.at = "rmdir" /\ x.inum = items[b][j].inum /\ x.buf = f
    BY <1>3, <2>1, <2>2 DEF Operation
  <2> HIDE DEF x
  <2>5. Goes(p, x)
    BY <1>7 DEF x, f
  <2> QED BY <1>4, <2>1, <2>3, <2>4, <2>5
<1>8. CASE Goes(p, [o EXCEPT !.i = o.i + 1]) /\ o.i + 1 < o.n
  <2> DEFINE x == [o EXCEPT !.i = o.i + 1]
  <2>1. x \in Operation
    BY <1>8 DEF Goes, OpsTyped
  <2>2. x.at = "scan" /\ x.inum = o.inum /\ x.buf = o.buf
    BY <1>1, <1>3, Zenon DEF Operation
  <2> HIDE DEF x
  <2>3. Goes(p, x)
    BY <1>8 DEF x
  <2> QED BY <1>3, <1>4, <2>1, <2>2, <2>3
<1>9. CASE Creates(o) /\ Goes(p, [o EXCEPT !.at = "ialloc"])
  <2> DEFINE x == [o EXCEPT !.at = "ialloc"]
  <2>1. x \in Operation /\ x.at = "ialloc" /\ x.inum = o.inum /\ x.buf = o.buf /\ x.kind # "remove"
    BY <1>3, <1>9 DEF Operation, Creates
  <2> HIDE DEF x
  <2>2. Goes(p, x)
    BY <1>9 DEF x
  <2> QED BY <1>3, <1>4, <2>1, <2>2
<1> QED BY <1>1, <1>5, <1>6, <1>7, <1>8, <1>9, Zenon

\* A directory grows: the item of the operation is in the buffer, for an inode in use.
LEMMA GrowSound ==
  ASSUME DiskAssumption, Typed, NEW w, Sound(w), NEW p \in Proc, NEW o \in Operation, o.h \in Handle,
         dirent[o.h].live, Creates(o), o.name \in Name, Grow(p, o), UNCHANGED <<bitmap, items, pointers>>,
         \A n \in Inum : Conforms(w, bitmap, inode'[n], n),
         \A n \in Inum : inode[n].inuse => inode'[n].inuse, inode'[o.inum].inuse
  PROVE  Sound(w)'
<1> DEFINE x == Grown(o)
           f == x.buf
<1>1. /\ x \in Operation /\ SameDirents /\ Goes(p, Place(x, DirOf(o)))
      /\ x.kind = o.kind /\ x.h = o.h /\ x.name = o.name /\ x.inum = o.inum
      /\ f = [BlankBlock EXCEPT ![1] = TheItem(o)]
  BY GrowFacts
<1>3. \A j \in 1..Items : f[j] \in {Blank, TheItem(o)}
  BY <1>1, Constants DEF BlankBlock
<1> HIDE DEF x
<1>4. \A j \in 1..Items : inode'[x.buf[j].inum].inuse
  <2>1. Blank.inum = 0 /\ TheItem(o).inum = o.inum /\ inode'[0].inuse
    BY SoundFacts, Constants DEF Blank, TheItem
  <2> QED BY <2>1, <1>1, <1>3
<1>5. Goes(p, Place(x, dirent[x.h].disk))
  BY <1>1 DEF DirOf
<1>6. x.kind \in {"mkfile", "mkdir", "write"} /\ Creates(x)
  BY <1>1 DEF Creates
<1> QED BY <1>1, <1>4, <1>5, <1>6, PlaceSound

\* An inode that is taken has no blocks, and no block loses its place.
LEMMA InodeAllocSound ==
  ASSUME DiskAssumption, Typed, NEW w, Sound(w), NEW p \in Proc, InodeAlloc(p)
  PROVE  Sound(w)'
<1>1. /\ SameDirents /\ UNCHANGED <<bitmap, items, pointers>> /\ op[p].at = "ialloc"
      /\ \/ UNCHANGED <<inode, dirent, hurt>> /\ Goes(p, NoOp)
         \/ \E n \in Inum :
              LET o == [op[p] EXCEPT !.at = "add", !.inum = n, !.i = 0, !.n = Blocks(DirOf(op[p]).size)]
              IN  /\ ~inode[n].inuse /\ inode' = [inode EXCEPT ![n] = FreshInode] /\ o \in Operation
                  /\ \/ o.n # 0 /\ Goes(p, o) /\ UNCHANGED <<dirent, hurt>>
                     \/ o.n = 0 /\ Grow(p, o)
  BY InodeAllocFacts, Zenon
<1>2. CASE UNCHANGED <<inode, dirent, hurt>> /\ Goes(p, NoOp)
  BY <1>1, <1>2, QuietIdle DEF Sound
<1>3. ASSUME NEW n \in Inum, NEW o \in Operation,
             o = [op[p] EXCEPT !.at = "add", !.inum = n, !.i = 0, !.n = Blocks(DirOf(op[p]).size)],
             ~inode[n].inuse, inode' = [inode EXCEPT ![n] = FreshInode],
             \/ o.n # 0 /\ Goes(p, o) /\ UNCHANGED <<dirent, hurt>>
             \/ o.n = 0 /\ Grow(p, o)
      PROVE  Sound(w)'
  <2>1. op[p] \in Operation /\ Shaped(op[p]) /\ op[p].h \in Handle /\ dirent[op[p].h].live
    BY <1>1, OpFacts, Zenon
  <2>2. o.at = "add" /\ o.inum = n /\ o.h = op[p].h /\ o.name = op[p].name /\ o.kind = op[p].kind
        /\ o.buf = op[p].buf
    BY <1>3, <2>1 DEF Operation
  <2>3. Creates(o) /\ o.name \in Name /\ o.kind # "remove"
    BY <2>1, <2>2, <1>1, Zenon DEF Shaped, Creates
  <2>4. /\ inode \in [Inum -> InodeRecord] /\ inode'[n] = FreshInode /\ FreshInode.inuse
        /\ \A m \in Inum : m # n => inode'[m] = inode[m]
    BY <1>3 DEF Typed, FreshInode
  <2>5. \A m \in Inum : Conforms(w, bitmap, inode'[m], m)
    <3>1. Conforms(w, bitmap, FreshInode, n)
      BY DEF Conforms, FreshInode
    <3> QED BY <3>1, <2>4, SoundFacts
  <2>6. \A m \in Inum : inode[m].inuse => inode'[m].inuse
    BY <2>4
  <2>7. CASE o.n = 0 /\ Grow(p, o)
    BY <2>1, <2>2, <2>3, <2>4, <2>5, <2>6, <2>7, <1>1, GrowSound, Zenon
  <2>8. CASE Goes(p, o)
    <3>1. \A b \in Block, j \in 1..Items : inode'[items'[b][j].inum].inuse
      BY <1>1, <2>6, ItemInum, SoundFacts, Zenon
    <3>2. ASSUME NEW j \in 1..Items PROVE inode'[o.buf[j].inum].inuse
      <4>1. o.buf[j].inum \in Inum
        <5>1. op[p].buf[j] \in Item
          BY <2>1 DEF Operation, ItemBlock
        <5> QED BY <5>1, <2>2 DEF Item
      <4> QED BY <4>1, <2>2, <2>6, SoundFacts
    <3>3. UseKept /\ InUse
      BY <1>1, Zenon DEF UseKept, SameDirents, Sound
    <3>4. InUse'
      BY <2>2, <2>3, <2>4, <2>6, <2>8, <3>1, <3>2, <3>3, InUseQuiet
    <3>5. NewBlocks'
      BY <1>1, Zenon DEF Sound, NewBlocks
    <3>6. OpAt(w, bitmap, o, dirent[o.h].disk, dirent[o.h].inum) /\ Shaped(o) /\ Placed(w)
      BY <2>2, <2>8 DEF OpAt, Goes, OpsTyped, Sound
    <3>7. Placed(w)'
      BY <1>1, <2>5, <2>8, <3>6, PlacedQuiet, Zenon
    <3> QED BY <3>4, <3>5, <3>7 DEF Sound
  <2> QED BY <1>3, <2>7, <2>8
<1> QED BY <1>1, <1>2, <1>3, Zenon

\* Items are written to a block in use, for inodes in use.
LEMMA WrittenSound ==
  ASSUME DiskAssumption, Typed, NEW w, Sound(w), NEW p \in Proc, NEW x \in Operation, Goes(p, x), SameDirents,
         UNCHANGED <<bitmap, inode, pointers>>, NEW b \in bitmap \ {0}, NEW f \in ItemBlock,
         items' = [items EXCEPT ![b] = f], \A j \in 1..Items : inode[f[j].inum].inuse,
         \/ x.at = "save" /\ x.slot = "final"
         \/ x.at = "load",
         x.kind # "remove", inode[x.inum].inuse, \A j \in 1..Items : inode[x.buf[j].inum].inuse
  PROVE  Sound(w)'
<1>1. items \in [Block -> ItemBlock] /\ b \in Block /\ \A c \in Block : items'[c] = IF c = b THEN f ELSE items[c]
  BY DEF Typed
<1>2. InUse'
  <2>1. \A c \in Block, j \in 1..Items : inode'[items'[c][j].inum].inuse
    BY <1>1, SoundFacts
  <2>2. InUse /\ UseKept
    BY DEF Sound, UseKept, SameDirents
  <2> QED BY <2>1, <2>2, InUseQuiet
<1>3. NewBlocks'
  BY <1>1 DEF Sound, NewBlocks
<1>4. Placed(w)'
  <2>1. OpAt(w, bitmap, x, dirent[x.h].disk, dirent[x.h].inum)
    BY DEF OpAt
  <2>2. Shaped(x) /\ Placed(w) /\ \A n \in Inum : Conforms(w, bitmap, inode'[n], n)
    BY SoundFacts DEF Goes, OpsTyped, Sound
  <2> QED BY <2>1, <2>2, PlacedQuiet
<1> QED BY <1>2, <1>3, <1>4 DEF Sound

\* A block that an inode points to has the place of the pointer.
LEMMA WhereFacts ==
  ASSUME DiskAssumption, Typed, NEW w, Placed(w), NEW d \in InodeRecord, NEW n, Conforms(w, bitmap, d, n),
         NEW k \in Slot, Where(pointers, d, k) # 0
  PROVE  /\ Where(pointers, d, k) \in bitmap \ {0} /\ w[Where(pointers, d, k)] = <<n, k>>
         /\ k >= Direct => d.indirect # 0 /\ k - Direct \in 0..(PerBlock - 1)
<1>1. CASE k < Direct
  <2>1. k \in 0..(Direct - 1) /\ Where(pointers, d, k) = d.direct[k] /\ d.direct[k] # 0 /\ ~(k >= Direct)
    BY <1>1, Constants DEF Where, Slot
  <2>2. d.direct[k] \in bitmap /\ w[d.direct[k]] = <<n, k>>
    BY <2>1 DEF Conforms
  <2> QED BY <2>1, <2>2
<1>2. CASE ~(k < Direct)
  <2> DEFINE j == k - Direct
  <2>1. Where(pointers, d, k) = pointers[d.indirect][j] /\ j \in 0..(PerBlock - 1) /\ k = Direct + j
    BY <1>2, Constants DEF Where, Slot
  <2> HIDE DEF j
  <2>2. d.indirect \in Block /\ pointers[d.indirect] # NoPointers
    BY <2>1 DEF InodeRecord, NoPointers
  <2>3. PICK m \in Inum : d.indirect \in bitmap \ {0} /\ w[d.indirect] = <<m, -1>>
                           /\ PointersAt(w, bitmap, pointers[d.indirect], m)
    BY <2>2 DEF Placed
  <2>4. w[d.indirect] = <<n, -1>>
    BY <2>3 DEF Conforms
  <2>5. m = n
    BY <2>3, <2>4
  <2> QED BY <2>1, <2>3, <2>5, <1>2 DEF PointersAt, j
<1> QED BY <1>1, <1>2

\* The item that is filled leads to the inode taken for it.
LEMMA AddSound ==
  ASSUME DiskAssumption, Typed, NEW w, Sound(w), NEW p \in Proc, Add(p)
  PROVE  Sound(w)'
<1> DEFINE o == op[p]
           d == dirent[o.h].disk
           b == Where(pointers, d, o.i)
           F(j) == Filled(o, pointers, items, j)
<1>0. UNCHANGED <<bitmap, inode, pointers>> /\ SameDirents /\ o.at = "add"
  BY AddFacts
<1>1. \/ \E j \in 1..Items : AddFill(p, j)
      \/ \E j \in 1..Items : AddPlace(p, j)
      \/ ToNextBlock(p)
      \/ AllFull(p)
  BY AddFacts
<1>2. /\ o \in Operation /\ Shaped(o) /\ o.h \in Handle /\ dirent[o.h].live /\ d \in InodeRecord
      /\ b \in Block /\ Creates(o) /\ o.name \in Name /\ o.i \in Slot
  BY <1>0, OpFacts DEF DirOf, Shaped, Operation
<1>3. /\ inode[o.inum].inuse /\ \A j \in 1..Items : inode[o.buf[j].inum].inuse
      /\ \A n \in Inum : Conforms(w, bitmap, inode'[n], n)
      /\ Conforms(w, bitmap, d, dirent[o.h].inum)
  BY <1>0, <1>2, SoundFacts
<1>4. ASSUME NEW j \in 1..Items
      PROVE  /\ F(j) \in Operation /\ F(j).kind = o.kind /\ F(j).h = o.h /\ F(j).name = o.name
             /\ F(j).inum = o.inum /\ F(j).buf \in ItemBlock
             /\ \A k \in 1..Items : inode[F(j).buf[k].inum].inuse
  <2>1. /\ F(j) \in Operation /\ F(j).kind = o.kind /\ F(j).h = o.h /\ F(j).name = o.name
        /\ F(j).inum = o.inum /\ F(j).buf = [items[b] EXCEPT ![j] = TheItem(o)]
    BY <1>0, FilledFacts DEF DirOf
  <2> HIDE DEF F, b
  <2>2. items[b] \in ItemBlock /\ TheItem(o).inum = o.inum
    BY <1>2, ItemInum DEF TheItem
  <2>3. \A k \in 1..Items : F(j).buf[k] \in {items[b][k], TheItem(o)}
    BY <2>1, <2>2 DEF ItemBlock
  <2> QED BY <2>1, <2>2, <2>3, <1>2, <1>3, SoundFacts, SMTT(20) DEF Operation
<1> HIDE DEF F, b, d
<1>5. ASSUME NEW y \in Operation, b # 0, items' = [items EXCEPT ![b] = y.buf], y.kind = o.kind, y.inum = o.inum,
             \A k \in 1..Items : inode[y.buf[k].inum].inuse,
             \/ Goes(p, Finally(y))
             \/ Goes(p, Loading(y))
      PROVE  Sound(w)'
  <2>1. b \in bitmap \ {0}
    <3>1. Placed(w) /\ d \in InodeRecord
      BY <1>2 DEF Sound
    <3>2. Where(pointers, d, o.i) # 0
      BY <1>5 DEF b
    <3>3. Where(pointers, d, o.i) \in bitmap \ {0}
      BY <3>1, <3>2, <1>2, <1>3, WhereFacts
    <3> QED BY <3>3 DEF b
  <2>2. PICK x : (x = Finally(y) \/ x = Loading(y)) /\ Goes(p, x)
    BY <1>5
  <2>3. /\ x \in Operation /\ x.inum = o.inum /\ x.buf = y.buf /\ x.kind = o.kind
        /\ \/ x.at = "save" /\ x.slot = "final"
           \/ x.at = "load"
    BY <2>2, <1>5, EndFacts
  <2>4. x.kind # "remove" /\ y.buf \in ItemBlock
    BY <2>3, <1>2, <1>5 DEF Creates, Operation
  <2>5. inode[x.inum].inuse /\ \A k \in 1..Items : inode[x.buf[k].inum].inuse
    BY <2>3, <1>3, <1>5
  <2> HIDE DEF o
  <2> QED BY <1>0, <1>5, <2>1, <2>2, <2>3, <2>4, <2>5, WrittenSound
<1>6. ASSUME NEW j \in 1..Items, AddFill(p, j) PROVE Sound(w)'
  <2> DEFINE y == Filled(o, pointers, items, j)
  <2>1. b # 0 /\ items' = [items EXCEPT ![b] = y.buf] /\ (Goes(p, Finally(y)) \/ Goes(p, Loading(y)))
    BY <1>6 DEF AddFill, DirOf, b, d
  <2>2. y = F(j)
    BY DEF F
  <2> HIDE DEF y
  <2> QED BY <2>1, <2>2, <1>4, <1>5
<1>7. ASSUME NEW j \in 1..Items, AddPlace(p, j) PROVE Sound(w)'
  <2> DEFINE y == Filled(o, pointers, items, j)
  <2>1. items' = items /\ Goes(p, Place(y, DirOf(o))) /\ y = F(j)
    BY <1>7 DEF AddPlace, F
  <2> HIDE DEF y
  <2>2. y.kind \in {"mkfile", "mkdir", "write"} /\ Creates(y) /\ y.h = o.h
    BY <2>1, <1>2, <1>4 DEF Creates
  <2>3. Goes(p, Place(y, dirent[y.h].disk))
    BY <2>1, <2>2 DEF DirOf
  <2> QED BY <1>0, <1>2, <1>3, <1>4, <2>1, <2>2, <2>3, PlaceSound
<1>8. CASE ToNextBlock(p)
  <2> DEFINE x == [o EXCEPT !.i = o.i + 1]
  <2>1. x \in Operation /\ Goes(p, x) /\ items' = items
    BY <1>8 DEF Goes, OpsTyped, ToNextBlock
  <2>2. x.at = "add" /\ x.inum = o.inum /\ x.buf = o.buf /\ x.kind # "remove"
    <3>1. x.at = "add" /\ x.inum = o.inum /\ x.buf = o.buf /\ x.kind = o.kind
      BY <1>0, <1>2 DEF Operation
    <3> QED BY <3>1, <1>2 DEF Creates
  <2> HIDE DEF x
  <2>3. OpAt(w, bitmap, x, dirent[x.h].disk, dirent[x.h].inum)
    BY <2>2 DEF OpAt
  <2>4. InUse /\ NewBlocks /\ Placed(w)
    BY DEF Sound
  <2>5. InUse' /\ NewBlocks' /\ Placed(w)'
    BY <1>0, <1>3, <2>1, <2>2, <2>3, <2>4, QuietStep
  <2> QED BY <2>5 DEF Sound
<1>9. CASE AllFull(p)
  <2>1. items' = items /\ Grow(p, o)
    BY <1>9 DEF AllFull
  <2> QED BY <1>0, <1>2, <1>3, <2>1, GrowSound
<1> QED BY <1>1, <1>6, <1>7, <1>8, <1>9

\* A removal that is given up leaves all blocks in their places.
LEMMA RemoveDirSound ==
  ASSUME DiskAssumption, Typed, NEW w, Sound(w), NEW p \in Proc, RemoveDir(p), "removed" \notin hurt'
  PROVE  Sound(w)'
BY RemoveDirFacts, SameDirentsKept, QuietIdle DEF Sound

\* A new copy of an inode has the blocks of the inode.
LEMMA LoadSound ==
  ASSUME DiskAssumption, Typed, NEW w, Sound(w), NEW p \in Proc, Load(p)
  PROVE  Sound(w)'
<1> DEFINE n == op[p].inum
<1>1. /\ UNCHANGED <<bitmap, inode, items, pointers>> /\ Goes(p, NoOp) /\ op[p].at = "load"
      /\ \/ dirent' = dirent
         \/ \E h \in Handle, dir \in BOOLEAN :
              /\ ~dirent[h].live
              /\ dirent' = [dirent EXCEPT ![h] = [live |-> TRUE, inum |-> n, dir |-> dir, disk |-> inode[n]]]
  BY LoadFacts
<1>2. n \in Inum /\ inode[n].inuse
  BY <1>1, OpFacts, SoundFacts DEF Operation
<1> HIDE DEF n
<1>3. CASE dirent' = dirent
  BY <1>1, <1>3, SameDirentsKept, QuietIdle DEF Sound
<1>4. ASSUME NEW h \in Handle, NEW dir \in BOOLEAN, ~dirent[h].live,
             dirent' = [dirent EXCEPT ![h] = [live |-> TRUE, inum |-> n, dir |-> dir, disk |-> inode[n]]]
      PROVE  Sound(w)'
  <2>1. /\ dirent'[h].live /\ dirent'[h].inum = n /\ dirent'[h].disk = inode[n]
        /\ \A g \in Handle \ {h} : dirent'[g] = dirent[g]
    BY <1>4 DEF Typed
  <2>2. \A q \in Proc : \/ op'[q] = op[q] /\ (op[q].at # "user" => op[q].h # h /\ op[q].h \in Handle)
                        \/ q = p /\ op'[q] = NoOp
    BY <1>1, <1>4, OpFacts DEF Goes
  <2>3. InUse'
    <3>1. \A g \in Handle : inode'[dirent'[g].inum].inuse /\ (dirent'[g].live => dirent'[g].disk.inuse)
      BY <2>1, <1>1, <1>2 DEF Sound, InUse
    <3>2. \A c \in Block, j \in 1..Items : inode'[items'[c][j].inum].inuse
      BY <1>1, SoundFacts
    <3>3. ASSUME NEW q \in Proc
          PROVE  /\ inode'[op'[q].inum].inuse
                 /\ \A j \in 1..Items : inode'[op'[q].buf[j].inum].inuse
                 /\ op'[q].at \notin {"free", "wipe"}
                 /\ op'[q].kind = "remove" => op'[q].at \in {"scan", "rmdir"}
      <4>1. CASE op'[q] = op[q]
        BY <4>1, <1>1 DEF Sound, InUse
      <4>2. CASE op'[q] = NoOp
        BY <4>2, <1>1, Idle, SoundFacts
      <4> QED BY <4>1, <4>2, <2>2
    <3> QED BY <3>1, <3>2, <3>3, <1>1, SoundFacts DEF InUse
  <2>4. NewBlocks'
    BY <1>1 DEF Sound, NewBlocks
  <2>5. Placed(w)'
    <3>1. \A g \in Handle : Conforms(w, bitmap', dirent'[g].disk, dirent'[g].inum)
      BY <2>1, <1>1, <1>2, SoundFacts
    <3>2. ASSUME NEW q \in Proc, op'[q].at # "user"
          PROVE  OpAt(w, bitmap', op'[q], dirent'[op'[q].h].disk, dirent'[op'[q].h].inum)
      BY <3>2, <1>1, <2>1, <2>2, Idle, SoundFacts
    <3> QED BY <3>1, <3>2, <1>1 DEF Sound, Placed
  <2> QED BY <2>3, <2>4, <2>5 DEF Sound
<1> QED BY <1>1, <1>3, <1>4

\* A block that had no place gets one.
Extended(w, b, pl) == [c \in Block |-> IF c = b THEN pl ELSE w[c]]
\* A block that was not in use is given a place.
LEMMA ExtendFacts ==
  ASSUME NEW w, NEW B \in SUBSET Block, NEW b \in Block \ B, b # 0, NEW pl, NEW n
  PROVE  /\ Extended(w, b, pl)[b] = pl /\ \A c \in B : Extended(w, b, pl)[c] = w[c]
         /\ \A d : Conforms(w, B, d, n) => Conforms(Extended(w, b, pl), B \cup {b}, d, n)
         /\ \A P : PointersAt(w, B, P, n) => PointersAt(Extended(w, b, pl), B \cup {b}, P, n)
         /\ \A o, d : OpAt(w, B, o, d, n) => OpAt(Extended(w, b, pl), B \cup {b}, o, d, n)
<1> DEFINE v == Extended(w, b, pl)
<1>1. v[b] = pl /\ \A c \in B : v[c] = w[c]
  BY DEF Extended
<1> HIDE DEF v
<1>2. ASSUME NEW d, Conforms(w, B, d, n) PROVE Conforms(v, B \cup {b}, d, n)
  BY <1>1, <1>2 DEF Conforms
<1>3. ASSUME NEW P, PointersAt(w, B, P, n) PROVE PointersAt(v, B \cup {b}, P, n)
  BY <1>1, <1>3 DEF PointersAt
<1>4. ASSUME NEW o, NEW d, OpAt(w, B, o, d, n) PROVE OpAt(v, B \cup {b}, o, d, n)
  <2>1. o.at = "putptr" \/ (o.at = "alloc" /\ o.slot = "pointer") => PointersAt(v, B \cup {b}, o.ptr, n)
    BY <1>3, <1>4 DEF OpAt
  <2> QED BY <1>1, <1>4, <2>1 DEF OpAt
<1> QED BY <1>1, <1>2, <1>3, <1>4 DEF v

\* A block is taken and entered in a directory entry or in a buffer.
LEMMA TakenSound ==
  ASSUME DiskAssumption, Typed, NEW w, Sound(w), NEW p \in Proc, op[p].at = "alloc",
         NEW b \in Block \ bitmap, b # 0, NEW pl,
         UNCHANGED <<inode, items, pointers>>, bitmap' = bitmap \cup {b},
         NEW h \in Handle, NEW d \in InodeRecord, dirent' \in [Handle -> Direntry], dirent'[h].disk = d,
         \A g \in Handle \ {h} : dirent'[g] = dirent[g],
         dirent'[h].live = dirent[h].live, dirent'[h].inum = dirent[h].inum, d.inuse = dirent[h].disk.inuse,
         dirent[h].disk.indirect # 0 => d.indirect # 0,
         Conforms(Extended(w, b, pl), bitmap \cup {b}, d, dirent[h].inum),
         NEW x \in Operation, Goes(p, x), x.inum = op[p].inum, x.buf = op[p].buf, x.kind = op[p].kind,
         x.at \in {"save", "putptr"}, x.h = h,
         OpAt(Extended(w, b, pl), bitmap \cup {b}, x, d, dirent[h].inum)
  PROVE  Sound(Extended(w, b, pl))'
<1> DEFINE v == Extended(w, b, pl)
<1>0. bitmap \in SUBSET Block /\ 0 \in bitmap
  BY DEF Typed, Sound, NewBlocks
<1>1. \A g \in Handle : /\ dirent'[g].live = dirent[g].live /\ dirent'[g].inum = dirent[g].inum
                        /\ dirent'[g].disk.inuse = dirent[g].disk.inuse
                        /\ dirent[g].disk.indirect # 0 => dirent'[g].disk.indirect # 0
  OBVIOUS
<1>2. InUse'
  <2>1. x.kind # "remove"
    BY SoundFacts
  <2>2. UseKept /\ InUse
    BY <1>1 DEF UseKept, Sound
  <2>3. \A n \in Inum : inode[n].inuse => inode'[n].inuse
    OBVIOUS
  <2>4. \A c \in Block, j \in 1..Items : inode'[items'[c][j].inum].inuse
    BY SoundFacts
  <2>5. inode'[x.inum].inuse /\ \A j \in 1..Items : inode'[x.buf[j].inum].inuse
    BY SoundFacts
  <2> QED BY <2>1, <2>2, <2>3, <2>4, <2>5, InUseQuiet
<1>3. NewBlocks'
  BY <1>0 DEF Sound, NewBlocks
<1> HIDE DEF v
<1>4. Placed(v)'
  <2>1. \A n \in Inum : Conforms(v, bitmap', inode'[n], n)
    BY <1>0, SoundFacts, ExtendFacts DEF v
  <2>2. ASSUME NEW g \in Handle PROVE Conforms(v, bitmap', dirent'[g].disk, dirent'[g].inum)
    <3>1. CASE g = h
      BY <3>1 DEF v
    <3>2. CASE g # h
      <4>1. Conforms(w, bitmap, dirent[g].disk, dirent[g].inum) /\ dirent'[g] = dirent[g]
        BY <3>2, SoundFacts
      <4> QED BY <4>1, <1>0, ExtendFacts DEF v
    <3> QED BY <3>1, <3>2
  <2>3. ASSUME NEW c \in Block, pointers'[c] # NoPointers
        PROVE  c \in bitmap' \ {0} /\ \E n \in Inum : v[c] = <<n, -1>> /\ PointersAt(v, bitmap', pointers'[c], n)
    <3>1. PICK n \in Inum : c \in bitmap \ {0} /\ w[c] = <<n, -1>> /\ PointersAt(w, bitmap, pointers[c], n)
      BY <2>3 DEF Sound, Placed
    <3>2. v[c] = w[c]
      BY <3>1, <1>0 DEF v, Extended
    <3>3. PointersAt(v, bitmap \cup {b}, pointers[c], n)
      BY <3>1, <1>0, ExtendFacts DEF v
    <3> QED BY <3>1, <3>2, <3>3
  <2>4. ASSUME NEW q \in Proc, op'[q].at # "user"
        PROVE  OpAt(v, bitmap', op'[q], dirent'[op'[q].h].disk, dirent'[op'[q].h].inum)
    <3>1. CASE q = p
      BY <3>1 DEF Goes, v
    <3>2. CASE q # p
      <4>1. op'[q] = op[q] /\ op[q].h \in Handle
        BY <3>2, <2>4, OpFacts DEF Goes
      <4>2. OpAt(w, bitmap, op[q], dirent[op[q].h].disk, dirent[op[q].h].inum)
        BY <4>1, <2>4, SoundFacts
      <4>3. OpAt(v, bitmap', op[q], dirent[op[q].h].disk, dirent[op[q].h].inum)
        BY <4>2, <1>0, ExtendFacts DEF v
      <4>4. dirent[op[q].h].disk.indirect # 0 => dirent'[op[q].h].disk.indirect # 0
        BY <4>1, <1>1
      <4>5. dirent'[op[q].h].inum = dirent[op[q].h].inum
        BY <4>1, <1>1
      <4> QED BY <4>1, <4>3, <4>4, <4>5 DEF OpAt
    <3> QED BY <3>1, <3>2
  <2> QED BY <2>1, <2>2, <2>3, <2>4 DEF Placed
<1> QED BY <1>2, <1>3, <1>4 DEF Sound, v

\* The block that is taken was in use nowhere, so it can be given its place.
LEMMA AllocSound ==
  ASSUME DiskAssumption, Typed, NEW w, Sound(w), NEW p \in Proc, Alloc(p)
  PROVE  \E v : Sound(v)'
<1> DEFINE o == op[p]
           h == o.h
           d == dirent[h].disk
           n == dirent[h].inum
<1>0. UNCHANGED <<inode, items, pointers>> /\ o.at = "alloc"
  BY AllocFacts, Zenon
<1>1. \/ /\ bitmap' = bitmap /\ dirent' = dirent
         /\ \/ Creates(o) /\ Goes(p, [o EXCEPT !.at = "save", !.slot = "final"])
            \/ Goes(p, NoOp)
      \/ \E b \in Block \ (bitmap \cup {0}) :
           /\ bitmap' = bitmap \cup {b}
           /\ \/ /\ o.slot = "direct" /\ o.i \in 0..(Direct - 1)
                 /\ Relinked(h, [d EXCEPT !.direct = [d.direct EXCEPT ![o.i] = b]])
                 /\ Goes(p, [o EXCEPT !.at = "save", !.b = b])
              \/ /\ o.slot = "indirect" /\ Relinked(h, [d EXCEPT !.indirect = b])
                 /\ Goes(p, [o EXCEPT !.at = "save", !.b = b])
              \/ /\ o.slot = "pointer" /\ dirent' = dirent /\ o.i - Direct \in 0..(PerBlock - 1)
                 /\ Goes(p, [o EXCEPT !.at = "putptr", !.b = b,
                                      !.ptr = [o.ptr EXCEPT ![o.i - Direct] = b]])
  BY AllocFacts, Zenon
<1>2. o \in Operation /\ Shaped(o) /\ h \in Handle /\ d \in InodeRecord /\ n \in Inum
  BY <1>0, OpFacts DEF DirOf
<1>3. /\ bitmap \in SUBSET Block /\ 0 \in bitmap /\ dirent \in [Handle -> Direntry]
      /\ Conforms(w, bitmap, d, n) /\ OpAt(w, bitmap, o, d, n) /\ InUse /\ NewBlocks /\ Placed(w)
      /\ inode[o.inum].inuse /\ \A j \in 1..Items : inode[o.buf[j].inum].inuse
  BY <1>0, <1>2, SoundFacts DEF Typed, Sound, NewBlocks
<1> HIDE DEF o, d, n, h
<1>4. CASE /\ bitmap' = bitmap /\ dirent' = dirent
           /\ \/ Creates(o) /\ Goes(p, [o EXCEPT !.at = "save", !.slot = "final"])
              \/ Goes(p, NoOp)
  <2>1. SameDirents
    BY <1>4, SameDirentsKept
  <2>2. CASE Goes(p, NoOp)
    BY <1>0, <1>3, <1>4, <2>1, <2>2, QuietIdle DEF Sound
  <2>3. CASE Creates(o) /\ Goes(p, [o EXCEPT !.at = "save", !.slot = "final"])
    <3> DEFINE x == Finally(o)
    <3>1. /\ x \in Operation /\ x.inum = o.inum /\ x.buf = o.buf /\ x.kind = o.kind /\ x.at = "save"
          /\ x.slot = "final" /\ x.kind # "remove"
      BY <1>2, <2>3, EndFacts DEF Creates
    <3>2. Goes(p, x)
      BY <2>3 DEF Finally
    <3> HIDE DEF x
    <3>3. OpAt(w, bitmap, x, dirent[x.h].disk, dirent[x.h].inum)
      BY <3>1 DEF OpAt
    <3>4. inode[x.inum].inuse /\ \A j \in 1..Items : inode[x.buf[j].inum].inuse
      BY <3>1, <1>3
    <3>5. UNCHANGED <<bitmap, inode, items, pointers>>
      BY <1>0, <1>4
    <3>6. InUse' /\ NewBlocks' /\ Placed(w)'
      BY <3>1, <3>2, <3>3, <3>4, <3>5, <2>1, <1>3, QuietStep
    <3> QED BY <3>6 DEF Sound
  <2> QED BY <1>4, <2>2, <2>3
<1>5. ASSUME NEW b \in Block \ (bitmap \cup {0}), bitmap' = bitmap \cup {b},
             o.slot = "direct", o.i \in 0..(Direct - 1),
             Relinked(h, [d EXCEPT !.direct = [d.direct EXCEPT ![o.i] = b]]),
             Goes(p, [o EXCEPT !.at = "save", !.b = b])
      PROVE  \E v : Sound(v)'
  <2>p. PICK pl : pl = <<n, o.i>>
    OBVIOUS
  <2> DEFINE e == [d EXCEPT !.direct = [d.direct EXCEPT ![o.i] = b]]
             x == [o EXCEPT !.at = "save", !.b = b]
             v == Extended(w, b, pl)
  <2>1. /\ e \in InodeRecord /\ e.direct = [d.direct EXCEPT ![o.i] = b] /\ e.indirect = d.indirect
        /\ e.inuse = d.inuse /\ d.direct \in [0..(Direct - 1) -> Block]
    BY <1>2, <1>5 DEF InodeRecord
  <2>2. /\ x \in Operation /\ x.at = "save" /\ x.b = b /\ x.inum = o.inum /\ x.buf = o.buf /\ x.kind = o.kind
        /\ x.h = o.h /\ x.slot = "direct" /\ x.i = o.i
    BY <1>2, <1>5 DEF Operation
  <2>3. Goes(p, x) /\ Relinked(h, e)
    BY <1>5
  <2> HIDE DEF e, x
  <2>4. /\ dirent' \in [Handle -> Direntry] /\ dirent'[h].disk = e
        /\ \A g \in Handle \ {h} : dirent'[g] = dirent[g]
        /\ dirent'[h].live = dirent[h].live /\ dirent'[h].inum = dirent[h].inum
    BY <2>1, <2>3, <1>2, RelinkFacts
  <2>0. b \in Block \ bitmap /\ b # 0
    BY <1>5
  <2>5. v[b] = pl /\ Conforms(v, bitmap \cup {b}, d, n)
    <3>1. v[b] = pl
      BY <2>0 DEF Extended
    <3>2. Conforms(v, bitmap \cup {b}, d, n)
      BY <1>3, <2>0, ExtendFacts
    <3> QED BY <3>1, <3>2
  <2> HIDE DEF v
  <2>6. Conforms(v, bitmap \cup {b}, e, n)
    BY <2>p, <2>0, <2>1, <2>5 DEF Conforms
  <2>7. OpAt(v, bitmap \cup {b}, x, e, n)
    BY <2>p, <2>2, <2>5, <1>5 DEF OpAt
  <2>8. e.inuse = dirent[h].disk.inuse /\ (dirent[h].disk.indirect # 0 => e.indirect # 0)
        /\ n = dirent[h].inum /\ o = op[p] /\ x.h = h /\ x.at \in {"save", "putptr"}
    BY <2>1, <2>2 DEF d, n, h, o
  <2>9. Sound(v)'
    <3>1. v = Extended(w, b, pl)
      BY DEF v
    <3>2. Conforms(Extended(w, b, pl), bitmap \cup {b}, e, dirent[h].inum)
      BY <3>1, <2>6, <2>8
    <3>3. OpAt(Extended(w, b, pl), bitmap \cup {b}, x, e, dirent[h].inum)
      BY <3>1, <2>7, <2>8
    <3>4. x.inum = op[p].inum /\ x.buf = op[p].buf /\ x.kind = op[p].kind /\ op[p].at = "alloc"
      BY <1>0, <2>2, <2>8
    <3>5. Sound(Extended(w, b, pl))'
      BY <2>0, <1>0, <1>2, <1>5, <2>1, <2>2, <2>3, <2>4, <2>8, <3>2, <3>3, <3>4, TakenSound
    <3> QED BY <3>5, <3>1
  <2> QED BY <2>9
<1>6. ASSUME NEW b \in Block \ (bitmap \cup {0}), bitmap' = bitmap \cup {b},
             o.slot = "indirect", Relinked(h, [d EXCEPT !.indirect = b]),
             Goes(p, [o EXCEPT !.at = "save", !.b = b])
      PROVE  \E v : Sound(v)'
  <2>p. PICK pl : pl = <<n, -1>>
    OBVIOUS
  <2> DEFINE e == [d EXCEPT !.indirect = b]
             x == [o EXCEPT !.at = "save", !.b = b]
             v == Extended(w, b, pl)
  <2>1. /\ e \in InodeRecord /\ e.direct = d.direct /\ e.indirect = b /\ e.inuse = d.inuse
    BY <1>2, <1>6 DEF InodeRecord
  <2>2. /\ x \in Operation /\ x.at = "save" /\ x.b = b /\ x.inum = o.inum /\ x.buf = o.buf /\ x.kind = o.kind
        /\ x.h = o.h /\ x.slot = "indirect"
    BY <1>2, <1>6 DEF Operation
  <2>3. Goes(p, x) /\ Relinked(h, e)
    BY <1>6
  <2> HIDE DEF e, x
  <2>4. /\ dirent' \in [Handle -> Direntry] /\ dirent'[h].disk = e
        /\ \A g \in Handle \ {h} : dirent'[g] = dirent[g]
        /\ dirent'[h].live = dirent[h].live /\ dirent'[h].inum = dirent[h].inum
    BY <2>1, <2>3, <1>2, RelinkFacts
  <2>0. b \in Block \ bitmap /\ b # 0
    BY <1>6
  <2>5. v[b] = pl /\ Conforms(v, bitmap \cup {b}, d, n)
    <3>1. v[b] = pl
      BY <2>0 DEF Extended
    <3>2. Conforms(v, bitmap \cup {b}, d, n)
      BY <1>3, <2>0, ExtendFacts
    <3> QED BY <3>1, <3>2
  <2> HIDE DEF v
  <2>6. Conforms(v, bitmap \cup {b}, e, n)
    BY <2>p, <2>0, <2>1, <2>5 DEF Conforms
  <2>7. OpAt(v, bitmap \cup {b}, x, e, n)
    BY <2>p, <2>1, <2>2, <2>5, <1>6 DEF OpAt
  <2>8. e.inuse = dirent[h].disk.inuse /\ (dirent[h].disk.indirect # 0 => e.indirect # 0)
        /\ n = dirent[h].inum /\ o = op[p] /\ x.h = h /\ x.at \in {"save", "putptr"}
    BY <2>1, <2>2, <1>6 DEF d, n, h, o
  <2>9. Sound(v)'
    BY <2>0, <1>0, <1>2, <1>6, <2>1, <2>2, <2>3, <2>4, <2>6, <2>7, <2>8, TakenSound DEF v
  <2> QED BY <2>9
<1>7. ASSUME NEW b \in Block \ (bitmap \cup {0}), bitmap' = bitmap \cup {b},
             o.slot = "pointer", dirent' = dirent, o.i - Direct \in 0..(PerBlock - 1),
             Goes(p, [o EXCEPT !.at = "putptr", !.b = b, !.ptr = [o.ptr EXCEPT ![o.i - Direct] = b]])
      PROVE  \E v : Sound(v)'
  <2>p. PICK pl : pl = <<n, o.i>>
    OBVIOUS
  <2> DEFINE P == [o.ptr EXCEPT ![o.i - Direct] = b]
             x == [o EXCEPT !.at = "putptr", !.b = b, !.ptr = P]
             v == Extended(w, b, pl)
  <2>1. o.ptr \in [0..(PerBlock - 1) -> Block] /\ P \in [0..(PerBlock - 1) -> Block] /\ o.i \in Int
    BY <1>2, <1>7, Constants DEF Operation, Slot
  <2>2. PointersAt(w, bitmap, o.ptr, n) /\ d.indirect # 0
    BY <2>p, <1>0, <1>3, <1>7 DEF OpAt
  <2>0. b \in Block \ bitmap /\ b # 0
    BY <1>7
  <2>3. v[b] = pl /\ Conforms(v, bitmap \cup {b}, d, n) /\ PointersAt(v, bitmap \cup {b}, o.ptr, n)
    <3>1. v[b] = pl
      BY <2>0 DEF Extended
    <3>2. Conforms(v, bitmap \cup {b}, d, n)
      BY <1>3, <2>0, ExtendFacts
    <3>3. PointersAt(v, bitmap \cup {b}, o.ptr, n)
      BY <1>3, <2>0, <2>2, ExtendFacts
    <3> QED BY <3>1, <3>2, <3>3
  <2> HIDE DEF v
  <2>4. PointersAt(v, bitmap \cup {b}, P, n)
    <3>1. \A j \in 0..(PerBlock - 1) : P[j] = IF j = o.i - Direct THEN b ELSE o.ptr[j]
      BY <2>1
    <3>2. Direct + (o.i - Direct) = o.i
      BY <2>1, Constants
    <3> HIDE DEF P
    <3> QED BY <2>p, <2>3, <3>1, <3>2 DEF PointersAt
  <2> HIDE DEF P
  <2>5. /\ x \in Operation /\ x.at = "putptr" /\ x.b = b /\ x.inum = o.inum /\ x.buf = o.buf /\ x.kind = o.kind
        /\ x.h = o.h /\ x.i = o.i /\ x.ptr = P
    BY <1>2, <1>7, <2>1 DEF Operation
  <2>6. Goes(p, x)
    BY <1>7 DEF P
  <2> HIDE DEF x
  <2>7. OpAt(v, bitmap \cup {b}, x, d, n)
    BY <2>p, <2>2, <2>3, <2>4, <2>5, <1>7 DEF OpAt
  <2>8. d = dirent[h].disk /\ n = dirent[h].inum /\ o = op[p] /\ x.h = h /\ x.at \in {"save", "putptr"}
    BY <2>5 DEF d, n, h, o
  <2>9. Sound(v)'
    BY <2>0, <1>0, <1>2, <1>3, <1>7, <2>3, <2>5, <2>6, <2>7, <2>8, TakenSound DEF v
  <2> QED BY <2>9
<1> QED BY <1>1, <1>4, <1>5, <1>6, <1>7, Zenon

\* A step that saves an inode or an indirect block.
LEMMA MovedSound ==
  ASSUME DiskAssumption, Typed, NEW w, Sound(w), NEW p \in Proc, op[p].at \in {"save", "zero", "getptr", "putptr"},
         UNCHANGED <<bitmap, items, dirent>>,
         \A n \in Inum : Conforms(w, bitmap, inode'[n], n),
         \A n \in Inum : inode[n].inuse => inode'[n].inuse,
         \A b \in Block : pointers'[b] # NoPointers =>
           b \in bitmap \ {0} /\ \E n \in Inum : w[b] = <<n, -1>> /\ PointersAt(w, bitmap, pointers'[b], n),
         NEW x \in Operation, Goes(p, x), x.inum = op[p].inum, x.buf = op[p].buf, x.kind = op[p].kind,
         x.at \notin {"user", "free", "wipe"},
         OpAt(w, bitmap, x, dirent[x.h].disk, dirent[x.h].inum)
  PROVE  Sound(w)'
<1>1. x.kind # "remove" /\ op[p].inum \in Inum /\ \A j \in 1..Items : op[p].buf[j].inum \in Inum
  <2>1. op[p] \in Operation /\ x.kind # "remove"
    BY OpFacts, SoundFacts
  <2> QED BY <2>1 DEF Operation, ItemBlock, Item
<1>2. InUse'
  <2>1. UseKept /\ InUse
    BY DEF UseKept, Sound
  <2>2. \A b \in Block, j \in 1..Items : inode'[items'[b][j].inum].inuse
    BY ItemInum, SoundFacts
  <2>3. inode'[x.inum].inuse /\ \A j \in 1..Items : inode'[x.buf[j].inum].inuse
    BY <1>1, SoundFacts
  <2> QED BY <1>1, <2>1, <2>2, <2>3, InUseQuiet
<1>3. NewBlocks'
  BY DEF Sound, NewBlocks
<1>4. Placed(w)'
  <2>1. \A h \in Handle : Conforms(w, bitmap', dirent'[h].disk, dirent'[h].inum)
    BY SoundFacts
  <2>2. ASSUME NEW q \in Proc, op'[q].at # "user"
        PROVE  OpAt(w, bitmap', op'[q], dirent'[op'[q].h].disk, dirent'[op'[q].h].inum)
    <3>1. CASE q = p
      BY <3>1 DEF Goes
    <3>2. CASE q # p
      BY <2>2, <3>2, SoundFacts DEF Goes
    <3> QED BY <3>1, <3>2
  <2> QED BY <2>1, <2>2 DEF Placed
<1> QED BY <1>2, <1>3, <1>4 DEF Sound

\* Only the position of an operation changes.
Moved(o, at) == [o EXCEPT !.at = at]
\* An operation at another position is otherwise the same.
LEMMA MovedFacts ==
  ASSUME NEW o \in Operation, NEW at \in {"data", "zero", "getptr", "load"}
  PROVE  LET x == Moved(o, at)
         IN  /\ x \in Operation /\ x.at = at /\ x.kind = o.kind /\ x.h = o.h /\ x.name = o.name /\ x.i = o.i
             /\ x.n = o.n /\ x.inum = o.inum /\ x.slot = o.slot /\ x.b = o.b /\ x.size = o.size
             /\ x.buf = o.buf /\ x.ptr = o.ptr
<1>1. ASSUME NEW x, x = [o EXCEPT !.at = at]
      PROVE  /\ x \in Operation /\ x.at = at /\ x.kind = o.kind /\ x.h = o.h /\ x.name = o.name /\ x.i = o.i
             /\ x.n = o.n /\ x.inum = o.inum /\ x.slot = o.slot /\ x.b = o.b /\ x.size = o.size
             /\ x.buf = o.buf /\ x.ptr = o.ptr
  BY <1>1 DEF Operation
<1> QED BY <1>1 DEF Moved

\* The inode that is saved has its blocks where the copy had them.
LEMMA SaveSound ==
  ASSUME DiskAssumption, Typed, NEW w, Sound(w), NEW p \in Proc, Save(p)
  PROVE  Sound(w)'
<1> DEFINE o == op[p]
           d == dirent[o.h].disk
           n == dirent[o.h].inum
<1>1. /\ UNCHANGED <<bitmap, items, pointers, dirent>> /\ o.at = "save"
      /\ inode' = [inode EXCEPT ![n] = d]
      /\ \/ o.slot = "direct" /\ Goes(p, Moved(o, "data"))
         \/ o.slot = "indirect" /\ Goes(p, Moved(o, "zero"))
         \/ o.slot = "final" /\ Goes(p, Moved(o, "load"))
  BY SaveFacts DEF Moved
<1>2. /\ o \in Operation /\ o.h \in Handle /\ dirent[o.h].live /\ d \in InodeRecord /\ n \in Inum
      /\ inode \in [Inum -> InodeRecord]
  BY <1>1, OpFacts DEF DirOf, Typed
<1>3. Conforms(w, bitmap, d, n) /\ OpAt(w, bitmap, o, d, n) /\ d.inuse
  BY <1>1, <1>2, SoundFacts DEF Sound, InUse
<1> HIDE DEF d, n
<1>4. /\ \A m \in Inum : Conforms(w, bitmap, inode'[m], m)
      /\ \A m \in Inum : inode[m].inuse => inode'[m].inuse
  BY <1>1, <1>2, <1>3, SoundFacts
<1>5. PICK at \in {"data", "zero", "load"} :
        /\ Goes(p, Moved(o, at))
        /\ at = "data" => o.slot = "direct"
        /\ at = "zero" => o.slot = "indirect"
  BY <1>1
<1> DEFINE x == Moved(o, at)
<1>6. /\ x \in Operation /\ x.at = at /\ x.kind = o.kind /\ x.h = o.h /\ x.i = o.i /\ x.inum = o.inum
      /\ x.b = o.b /\ x.buf = o.buf /\ Goes(p, x)
  BY <1>2, <1>5, MovedFacts
<1> HIDE DEF x
<1>7. OpAt(w, bitmap, x, d, n)
  BY <1>1, <1>3, <1>5, <1>6 DEF OpAt
<1>8. OpAt(w, bitmap, x, dirent[x.h].disk, dirent[x.h].inum)
  BY <1>6, <1>7 DEF d, n
<1>9. \A b \in Block : pointers'[b] # NoPointers =>
        b \in bitmap \ {0} /\ \E m \in Inum : w[b] = <<m, -1>> /\ PointersAt(w, bitmap, pointers'[b], m)
  BY <1>1 DEF Sound, Placed
<1> QED BY <1>1, <1>4, <1>6, <1>8, <1>9, MovedSound

\* A cleared indirect block points nowhere.
LEMMA ZeroSound ==
  ASSUME DiskAssumption, Typed, NEW w, Sound(w), NEW p \in Proc, Zero(p)
  PROVE  Sound(w)'
<1> DEFINE o == op[p]
           x == Moved(o, "getptr")
<1>1. /\ UNCHANGED <<bitmap, inode, items, dirent>> /\ o.at = "zero"
      /\ pointers' = [pointers EXCEPT ![o.b] = NoPointers] /\ Goes(p, x)
  BY ZeroFacts DEF Moved
<1>2. o \in Operation /\ pointers \in [Block -> [0..(PerBlock - 1) -> Block]]
  BY <1>1, OpFacts DEF Typed
<1>3. /\ x \in Operation /\ x.at = "getptr" /\ x.kind = o.kind /\ x.h = o.h /\ x.inum = o.inum
      /\ x.buf = o.buf
  BY <1>2, MovedFacts
<1> HIDE DEF x
<1>4. OpAt(w, bitmap, x, dirent[x.h].disk, dirent[x.h].inum)
  <2>1. OpAt(w, bitmap, o, dirent[o.h].disk, dirent[o.h].inum)
    BY <1>1, SoundFacts
  <2> QED BY <1>1, <1>3, <2>1 DEF OpAt
<1>5. \A b \in Block : pointers'[b] # NoPointers =>
        b \in bitmap \ {0} /\ \E m \in Inum : w[b] = <<m, -1>> /\ PointersAt(w, bitmap, pointers'[b], m)
  BY <1>1, <1>2 DEF Sound, Placed
<1>6. /\ \A m \in Inum : Conforms(w, bitmap, inode'[m], m)
      /\ \A m \in Inum : inode[m].inuse => inode'[m].inuse
  BY <1>1, SoundFacts
<1> QED BY <1>1, <1>3, <1>4, <1>5, <1>6, MovedSound

\* The pointers that are written are those of the places their blocks have.
LEMMA PutPointerSound ==
  ASSUME DiskAssumption, Typed, NEW w, Sound(w), NEW p \in Proc, PutPointer(p)
  PROVE  Sound(w)'
<1> DEFINE o == op[p]
           d == dirent[o.h].disk
           n == dirent[o.h].inum
           x == Moved(o, "data")
<1>1. /\ UNCHANGED <<bitmap, inode, items, dirent>> /\ o.at = "putptr"
      /\ pointers' = [pointers EXCEPT ![d.indirect] = o.ptr] /\ Goes(p, x)
  BY PutPointerFacts DEF Moved
<1>2. o \in Operation /\ pointers \in [Block -> [0..(PerBlock - 1) -> Block]] /\ d \in InodeRecord
      /\ n \in Inum /\ o.h \in Handle
  BY <1>1, OpFacts DEF Typed, DirOf
<1>3. /\ x \in Operation /\ x.at = "data" /\ x.kind = o.kind /\ x.h = o.h /\ x.inum = o.inum
      /\ x.buf = o.buf /\ x.b = o.b /\ x.i = o.i
  BY <1>2, MovedFacts
<1>4. OpAt(w, bitmap, o, d, n) /\ Conforms(w, bitmap, d, n)
  BY <1>1, <1>2, SoundFacts
<1> HIDE DEF x, d, n
<1>5. OpAt(w, bitmap, x, d, n)
  BY <1>1, <1>3, <1>4 DEF OpAt
<1>6. OpAt(w, bitmap, x, dirent[x.h].disk, dirent[x.h].inum)
  BY <1>3, <1>5 DEF d, n
<1>7. d.indirect \in bitmap \ {0} /\ w[d.indirect] = <<n, -1>> /\ PointersAt(w, bitmap, o.ptr, n)
  BY <1>1, <1>4 DEF OpAt, Conforms
<1>8. ASSUME NEW b \in Block, pointers'[b] # NoPointers
      PROVE  b \in bitmap \ {0} /\ \E m \in Inum : w[b] = <<m, -1>> /\ PointersAt(w, bitmap, pointers'[b], m)
  <2>1. CASE b = d.indirect
    BY <1>1, <1>2, <1>7, <2>1
  <2>2. CASE b # d.indirect
    <3>1. pointers'[b] = pointers[b]
      BY <1>1, <1>2, <2>2
    <3> QED BY <3>1, <1>8 DEF Sound, Placed
  <2> QED BY <2>1, <2>2
<1>9. /\ \A m \in Inum : Conforms(w, bitmap, inode'[m], m)
      /\ \A m \in Inum : inode[m].inuse => inode'[m].inuse
  BY <1>1, SoundFacts
<1> QED BY <1>1, <1>3, <1>6, <1>8, <1>9, MovedSound

\* The pointer that is read is the place of the block that is to be written.
LEMMA GetPointerSound ==
  ASSUME DiskAssumption, Typed, NEW w, Sound(w), NEW p \in Proc, GetPointer(p)
  PROVE  Sound(w)'
<1> DEFINE o == op[p]
           d == dirent[o.h].disk
           n == dirent[o.h].inum
           P == pointers[d.indirect]
           j == o.i - Direct
<1>1. /\ UNCHANGED <<bitmap, inode, items, pointers, dirent>> /\ o.at = "getptr" /\ o.i >= Direct
      /\ j \in 0..(PerBlock - 1)
      /\ \/ Goes(p, [o EXCEPT !.at = "alloc", !.slot = "pointer", !.ptr = P])
         \/ P[j] # 0 /\ Goes(p, [o EXCEPT !.at = "data", !.b = P[j]])
  BY GetPointerFacts, Zenon
<1>2. o \in Operation /\ d \in InodeRecord /\ n \in Inum /\ o.h \in Handle /\ o.i \in Slot
  BY <1>1, OpFacts, Zenon DEF Typed, DirOf, Operation
<1>3. P \in [0..(PerBlock - 1) -> Block] /\ Where(pointers, d, o.i) = P[j] /\ Direct + j = o.i
  <2>1. P \in [0..(PerBlock - 1) -> Block]
    BY <1>2 DEF Typed, InodeRecord
  <2>2. Where(pointers, d, o.i) = P[j] /\ Direct + j = o.i
    BY <1>1, <1>2, Constants, SMTT(20) DEF Where, Slot
  <2> QED BY <2>1, <2>2
<1>4. OpAt(w, bitmap, o, d, n) /\ Conforms(w, bitmap, d, n) /\ Placed(w)
  BY <1>1, <1>2, SoundFacts, Zenon DEF Sound
<1>5. d.indirect \in Block \ {0} /\ w[d.indirect] = <<n, -1>>
  BY <1>1, <1>2, <1>4, Zenon DEF OpAt, Conforms, InodeRecord
<1>6. PointersAt(w, bitmap, P, n)
  <2>1. CASE P = NoPointers
    BY <2>1 DEF PointersAt, NoPointers
  <2>2. CASE P # NoPointers
    <3>1. PICK m \in Inum : w[d.indirect] = <<m, -1>> /\ PointersAt(w, bitmap, P, m)
      BY <1>4, <1>5, <2>2 DEF Placed
    <3> HIDE DEF P, n
    <3>2. m = n
      BY <3>1, <1>5, SMTT(20)
    <3> QED BY <3>1, <3>2
  <2> QED BY <2>1, <2>2
<1>7. /\ \A b \in Block : pointers'[b] # NoPointers =>
           b \in bitmap \ {0} /\ \E m \in Inum : w[b] = <<m, -1>> /\ PointersAt(w, bitmap, pointers'[b], m)
      /\ \A m \in Inum : Conforms(w, bitmap, inode'[m], m)
      /\ \A m \in Inum : inode[m].inuse => inode'[m].inuse
  BY <1>1, <1>4, SoundFacts, Zenon DEF Placed
<1>d. d = dirent[o.h].disk /\ n = dirent[o.h].inum
  OBVIOUS
<1> HIDE DEF d, n, P, j, o
<1>8. CASE Goes(p, [o EXCEPT !.at = "alloc", !.slot = "pointer", !.ptr = P])
  <2> DEFINE x == [o EXCEPT !.at = "alloc", !.slot = "pointer", !.ptr = P]
  <2>1. x \in Operation /\ x.at = "alloc" /\ x.slot = "pointer" /\ x.ptr = P /\ x.kind = o.kind /\ x.h = o.h
        /\ x.inum = o.inum /\ x.buf = o.buf
    BY <1>2, <1>3 DEF Operation
  <2>2. Goes(p, x)
    BY <1>8
  <2> HIDE DEF x
  <2>3. OpAt(w, bitmap, x, dirent[x.h].disk, dirent[x.h].inum)
    BY <2>1, <1>5, <1>6, <1>d DEF OpAt
  <2> QED BY <1>1, <1>7, <2>1, <2>2, <2>3, MovedSound DEF o
<1>9. CASE P[j] # 0 /\ Goes(p, [o EXCEPT !.at = "data", !.b = P[j]])
  <2> DEFINE x == [o EXCEPT !.at = "data", !.b = P[j]]
  <2>1. x \in Operation /\ x.at = "data" /\ x.b = P[j] /\ x.kind = o.kind /\ x.h = o.h /\ x.i = o.i
        /\ x.inum = o.inum /\ x.buf = o.buf
    BY <1>1, <1>2, <1>3 DEF Operation
  <2>2. Goes(p, x)
    BY <1>9
  <2> HIDE DEF x
  <2>3. P[j] \in bitmap \ {0} /\ w[P[j]] = <<n, o.i>>
    BY <1>1, <1>3, <1>6, <1>9 DEF PointersAt
  <2>4. OpAt(w, bitmap, x, dirent[x.h].disk, dirent[x.h].inum)
    BY <2>1, <2>3, <1>d DEF OpAt
  <2> QED BY <1>1, <1>7, <2>1, <2>2, <2>4, MovedSound DEF o
<1> QED BY <1>1, <1>8, <1>9

\* The block that is written has its place, and its items lead to inodes in use.
LEMMA DataSound ==
  ASSUME DiskAssumption, Typed, NEW w, Sound(w), NEW p \in Proc, Data(p)
  PROVE  Sound(w)'
<1> DEFINE o == op[p]
<1>1. /\ UNCHANGED <<bitmap, inode, pointers>> /\ SameDirents /\ o.at = "data"
      /\ \/ o.kind = "remove"
         \/ o.kind = "write" /\ Goes(p, NoOp) /\ items' = items
         \/ /\ Creates(o) /\ items' = [items EXCEPT ![o.b] = o.buf]
            /\ Goes(p, Finally(o)) \/ Goes(p, Loading(o))
  BY DataFacts, Zenon DEF Finally, Loading
<1>2. o.kind # "remove" /\ o \in Operation /\ o.buf \in ItemBlock
  BY <1>1, OpFacts, SoundFacts DEF Operation
<1>3. CASE o.kind = "write" /\ Goes(p, NoOp) /\ items' = items
  BY <1>1, <1>3, QuietIdle DEF Sound
<1>4. CASE /\ items' = [items EXCEPT ![o.b] = o.buf]
           /\ Goes(p, Finally(o)) \/ Goes(p, Loading(o))
  <2>1. PICK x \in {Finally(o), Loading(o)} : Goes(p, x)
    BY <1>4
  <2>2. /\ x \in Operation /\ x.inum = o.inum /\ x.buf = o.buf /\ x.kind = o.kind
        /\ \/ x.at = "save" /\ x.slot = "final"
           \/ x.at = "load"
    BY <2>1, <1>2, EndFacts
  <2>3. o.b \in bitmap \ {0}
    <3>1. OpAt(w, bitmap, o, dirent[o.h].disk, dirent[o.h].inum)
      BY <1>1, SoundFacts
    <3> QED BY <3>1, <1>1 DEF OpAt
  <2>4. inode[o.inum].inuse /\ \A j \in 1..Items : inode[o.buf[j].inum].inuse
    BY SoundFacts
  <2>5. x.kind # "remove" /\ inode[x.inum].inuse /\ \A j \in 1..Items : inode[x.buf[j].inum].inuse
    BY <2>2, <2>4, <1>2
  <2> HIDE DEF o
  <2> QED BY <1>1, <1>2, <1>4, <2>1, <2>2, <2>3, <2>4, <2>5, WrittenSound
<1> QED BY <1>1, <1>2, <1>3, <1>4

\* A removal that began shows in the history, so until then no step is part of one.
LEMMA NextSound ==
  ASSUME DiskAssumption, Typed, NEW w, Sound(w), Next, "removed" \notin hurt'
  PROVE  \E v : Sound(v)'
<1>1. PICK p \in Proc :
        \/ \E kind \in Ops, h \in Handle, name \in Name : BeginScan(p, kind, h, name)
        \/ \E h \in Handle : Close(p, h) \/ \E k \in Slot : BeginWrite(p, h, k)
        \/ Scan(p) \/ InodeAlloc(p) \/ Add(p) \/ Load(p)
        \/ RemoveDir(p) \/ Free(p) \/ Wipe(p)
        \/ Alloc(p) \/ Save(p) \/ Zero(p) \/ GetPointer(p) \/ PutPointer(p) \/ Data(p)
  BY DEF Next
<1>2. CASE \E kind \in Ops, h \in Handle, name \in Name : BeginScan(p, kind, h, name)
  BY <1>2, BeginScanSound
<1>3. CASE \E h \in Handle : Close(p, h) \/ \E k \in Slot : BeginWrite(p, h, k)
  BY <1>3, CloseSound, BeginWriteSound
<1>4. CASE Scan(p) \/ InodeAlloc(p) \/ Add(p) \/ Load(p)
  BY <1>4, ScanSound, InodeAllocSound, AddSound, LoadSound
<1>5. CASE RemoveDir(p)
  BY <1>5, RemoveDirSound
<1>6. CASE Free(p) \/ Wipe(p)
  <2>1. op[p].at \in {"free", "wipe"}
    BY <1>6, FreeFacts
  <2> QED BY <2>1 DEF Sound, InUse
<1>7. CASE Alloc(p)
  BY <1>7, AllocSound
<1>8. CASE Save(p) \/ Zero(p) \/ GetPointer(p) \/ PutPointer(p) \/ Data(p)
  BY <1>8, SaveSound, ZeroSound, GetPointerSound, PutPointerSound, DataSound
<1> QED BY <1>1, <1>2, <1>3, <1>4, <1>5, <1>6, <1>7, <1>8

\* Every step keeps the types.
LEMMA NextTyped ==
  ASSUME DiskAssumption, Typed, [Next]_vars
  PROVE  Typed'
<1>1. ASSUME Next PROVE Typed'
  <2>1. PICK p \in Proc :
          \/ \E kind \in Ops, h \in Handle, name \in Name : BeginScan(p, kind, h, name)
          \/ \E h \in Handle : Close(p, h) \/ \E k \in Slot : BeginWrite(p, h, k)
          \/ Scan(p) \/ InodeAlloc(p) \/ Add(p) \/ Load(p)
          \/ RemoveDir(p) \/ Free(p) \/ Wipe(p)
          \/ Alloc(p) \/ Save(p) \/ Zero(p) \/ GetPointer(p) \/ PutPointer(p) \/ Data(p)
    BY <1>1 DEF Next
  <2>2. CASE \E kind \in Ops, h \in Handle, name \in Name : BeginScan(p, kind, h, name)
    BY <2>2, BeginScanFacts, Zenon
  <2>3. CASE \E h \in Handle : Close(p, h) \/ \E k \in Slot : BeginWrite(p, h, k)
    BY <2>3, CloseFacts, BeginWriteFacts
  <2>4. CASE Scan(p)
    BY <2>4, ScanFacts, Zenon
  <2>5. CASE InodeAlloc(p) \/ Add(p) \/ Load(p)
    BY <2>5, InodeAllocFacts, AddFacts, LoadFacts, Zenon
  <2>6. CASE RemoveDir(p) \/ Free(p) \/ Wipe(p)
    BY <2>6, RemoveDirFacts, FreeFacts
  <2>7. CASE Alloc(p)
    BY <2>7, AllocFacts, Zenon
  <2>8. CASE Save(p) \/ Zero(p) \/ GetPointer(p) \/ PutPointer(p) \/ Data(p)
    BY <2>8, SaveFacts, ZeroFacts, GetPointerFacts, PutPointerFacts, DataFacts, Zenon
  <2> QED BY <2>1, <2>2, <2>3, <2>4, <2>5, <2>6, <2>7, <2>8
<1>2. ASSUME UNCHANGED vars PROVE Typed'
  BY <1>2 DEF vars, Typed, OpsTyped
<1> QED BY <1>1, <1>2

\* What went wrong stays in the history.
LEMMA HurtGrows ==
  ASSUME [Next]_vars
  PROVE  hurt \subseteq hurt'
<1>1. ASSUME Next PROVE hurt \subseteq hurt'
  <2>1. PICK p \in Proc :
          \/ \E kind \in Ops, h \in Handle, name \in Name : BeginScan(p, kind, h, name)
          \/ \E h \in Handle : Close(p, h) \/ \E k \in Slot : BeginWrite(p, h, k)
          \/ Scan(p) \/ InodeAlloc(p) \/ Add(p) \/ Load(p)
          \/ RemoveDir(p) \/ Free(p) \/ Wipe(p)
          \/ Alloc(p) \/ Save(p) \/ Zero(p) \/ GetPointer(p) \/ PutPointer(p) \/ Data(p)
    BY <1>1 DEF Next
  <2>2. CASE \E kind \in Ops, h \in Handle, name \in Name : BeginScan(p, kind, h, name)
    BY <2>2 DEF BeginScan, NotFound, Note
  <2>3. CASE \E h \in Handle : Close(p, h) \/ \E k \in Slot : BeginWrite(p, h, k)
    BY <2>3, Zenon DEF Close, BeginWrite, Note
  <2>4. CASE Scan(p)
    BY <2>4 DEF Scan, NotFound, Note
  <2>5. CASE InodeAlloc(p)
    BY <2>5 DEF InodeAlloc, Grow, Note
  <2>6. CASE Add(p)
    BY <2>6, Zenon DEF Add, Grow, Note
  <2>7. CASE Load(p) \/ RemoveDir(p) \/ Free(p) \/ Wipe(p)
    BY <2>7 DEF Load, RemoveDir, Free, Wipe, Note
  <2>8. CASE Alloc(p)
    BY <2>8 DEF Alloc
  <2>9. CASE Save(p) \/ Zero(p) \/ GetPointer(p) \/ PutPointer(p) \/ Data(p)
    BY <2>9 DEF Save, Zero, GetPointer, PutPointer, Data, Note
  <2> QED BY <2>1, <2>2, <2>3, <2>4, <2>5, <2>6, <2>7, <2>8, <2>9
<1> QED BY <1>1 DEF vars

\* On a new volume the root directory has the only block.
LEMMA InitFacts ==
  ASSUME DiskAssumption, Init
  PROVE  Typed /\ \E w : Sound(w)
<1> DEFINE dot == [name |-> ".", inum |-> 0, dir |-> TRUE]
           rootBlock == [BlankBlock EXCEPT ![1] = dot]
           rootEntry == [live |-> TRUE, inum |-> 0, dir |-> TRUE, disk |-> RootInode]
<1>0. /\ 0 \in Block /\ 1 \in Block /\ 0 \in Inum /\ Root \in Handle /\ Direct \in Nat \ {0} /\ Items \in Nat \ {0}
      /\ BlankBlock \in ItemBlock /\ NoPointers \in [0..(PerBlock - 1) -> Block] /\ NoInode \in InodeRecord
      /\ RootInode \in InodeRecord /\ NoDirent \in Direntry /\ NoOp \in Operation /\ Shaped(NoOp) /\ NoOp.at = "user"
  BY Constants
<1>1. rootBlock \in ItemBlock /\ \A j \in 1..Items : rootBlock[j].inum = 0
  <2>1. dot \in Item /\ dot.inum = 0
    BY <1>0 DEF Item
  <2>2. \A j \in 1..Items : rootBlock[j] \in {dot, Blank}
    BY <1>0 DEF BlankBlock
  <2>3. Blank.inum = 0
    BY DEF Blank
  <2>4. rootBlock \in ItemBlock
    BY <2>1, <1>0 DEF ItemBlock
  <2> HIDE DEF rootBlock, dot
  <2> QED BY <2>1, <2>2, <2>3, <2>4
<1>2. /\ bitmap = {0, 1} /\ hurt = {} /\ ops = 0
      /\ inode = [n \in Inum |-> IF n = 0 THEN RootInode ELSE NoInode]
      /\ items = [b \in Block |-> IF b = 1 THEN rootBlock ELSE BlankBlock]
      /\ pointers = [b \in Block |-> NoPointers]
      /\ dirent = [h \in Handle |-> IF h = Root THEN rootEntry ELSE NoDirent]
      /\ op = [p \in Proc |-> NoOp]
  BY DEF Init
<1>3. rootEntry \in Direntry /\ rootEntry.inum = 0 /\ rootEntry.disk = RootInode
  BY <1>0 DEF Direntry
<1>4. NoDirent.inum = 0 /\ NoDirent.disk = NoInode /\ ~NoDirent.live
  BY DEF NoDirent
<1>5. /\ RootInode.inuse /\ RootInode.indirect = 0 /\ NoInode.indirect = 0
      /\ \A k \in 0..(Direct - 1) : RootInode.direct[k] = (IF k = 0 THEN 1 ELSE 0) /\ NoInode.direct[k] = 0
  <2>1. FreshInode.direct = [k \in 0..(Direct - 1) |-> 0] /\ FreshInode.inuse /\ FreshInode.indirect = 0
    BY DEF FreshInode
  <2>2. RootInode.direct = [FreshInode.direct EXCEPT ![0] = 1] /\ RootInode.inuse /\ RootInode.indirect = 0
    BY <2>1 DEF RootInode, FreshInode
  <2>3. NoInode.direct = FreshInode.direct /\ NoInode.indirect = 0
    BY <2>1 DEF NoInode, FreshInode
  <2> QED BY <2>1, <2>2, <2>3, <1>0
<1> HIDE DEF rootBlock, rootEntry, dot
<1>6. Typed
  <2>1. OpsTyped(op, dirent)
    BY <1>0, <1>2 DEF OpsTyped
  <2>2. ops \in 0..MaxOps /\ hurt \subseteq Race /\ bitmap \subseteq Block
    BY <1>0, <1>2 DEF DiskAssumption
  <2> QED BY <2>1, <2>2, <1>0, <1>1, <1>2, <1>3 DEF Typed
<1> DEFINE w == [c \in Block |-> <<0, 0>>]
<1>7. w[1] = <<0, 0>>
  BY <1>0
<1>8. InUse
  <2>1. inode[0] = RootInode
    BY <1>0, <1>2
  <2>2. \A h \in Handle : inode[dirent[h].inum].inuse /\ (dirent[h].live => dirent[h].disk.inuse)
    BY <2>1, <1>2, <1>3, <1>4, <1>5
  <2>3. \A b \in Block, j \in 1..Items : inode[items[b][j].inum].inuse
    <3>1. \A j \in 1..Items : BlankBlock[j].inum = 0
      BY DEF BlankBlock, Blank
    <3> QED BY <3>1, <2>1, <1>1, <1>2, <1>5
  <2>4. \A p \in Proc : op[p] = NoOp
    BY <1>2
  <2> QED BY <2>1, <2>2, <2>3, <2>4, <1>5, Idle DEF InUse
<1>9. NewBlocks
  <2>1. \A b \in Block : b \notin bitmap \/ b = 0 => b # 1
    BY <1>2
  <2> QED BY <2>1, <1>2 DEF NewBlocks
<1>10. Placed(w)
  <2>1. Conforms(w, bitmap, RootInode, 0) /\ \A n : Conforms(w, bitmap, NoInode, n)
    <3> HIDE DEF w
    <3> QED BY <1>2, <1>5, <1>7 DEF Conforms
  <2>2. \A n \in Inum : Conforms(w, bitmap, inode[n], n)
    BY <2>1, <1>2
  <2>3. \A h \in Handle : Conforms(w, bitmap, dirent[h].disk, dirent[h].inum)
    BY <2>1, <1>2, <1>3, <1>4
  <2> HIDE DEF w
  <2> QED BY <2>2, <2>3, <1>0, <1>2 DEF Placed
<1> HIDE DEF w
<1> QED BY <1>6, <1>8, <1>9, <1>10 DEF Sound

\* The first invariant: until a removal began, every block has one place.
DiskInv == Typed /\ ("removed" \notin hurt => \E w : Sound(w))
\* Every reachable state has the types and, until a removal began, a place for every block.
THEOREM DiskInvHolds == ASSUME DiskAssumption PROVE Spec => []DiskInv
<1>1. Init => DiskInv
  BY InitFacts DEF DiskInv
<1>2. DiskInv /\ [Next]_vars => DiskInv'
  <2> SUFFICES ASSUME DiskInv, [Next]_vars PROVE DiskInv'
    OBVIOUS
  <2>1. Typed'
    BY NextTyped DEF DiskInv
  <2>2. ASSUME "removed" \notin hurt' PROVE \E w : Sound(w)'
    <3>1. PICK w : Sound(w)
      BY <2>2, HurtGrows DEF DiskInv
    <3>2. CASE Next
      BY <2>2, <3>1, <3>2, NextSound DEF DiskInv
    <3>3. CASE UNCHANGED vars
      <4>1. Sound(w)'
        BY <3>1, <3>3 DEF vars, Sound, InUse, NewBlocks, Placed
      <4> QED BY <4>1
    <3> QED BY <3>2, <3>3
  <2> QED BY <2>1, <2>2 DEF DiskInv
<1> QED BY <1>1, <1>2, PTL DEF Spec

\* The blocks of an inode have the place they have in it.
LEMMA OfFacts ==
  ASSUME DiskAssumption, Typed, NEW w, Sound(w), NEW n \in Inum, NEW d \in InodeRecord, Conforms(w, bitmap, d, n),
         NEW x \in Of(n, d), x[3] # 0
  PROVE  x[3] \in bitmap /\ w[x[3]] = <<x[1], x[2]>>
<1>1. \/ \E k \in 0..(Direct - 1) : x = <<n, k, d.direct[k]>>
      \/ x = <<n, -1, d.indirect>>
      \/ d.indirect # 0 /\ \E k \in Direct..(Direct + PerBlock - 1) : x = <<n, k, pointers[d.indirect][k - Direct]>>
  BY DEF Of
<1>2. ASSUME NEW k \in 0..(Direct - 1), x = <<n, k, d.direct[k]>>
      PROVE  x[3] \in bitmap /\ w[x[3]] = <<x[1], x[2]>>
  BY <1>2 DEF Conforms
<1>3. CASE x = <<n, -1, d.indirect>>
  BY <1>3 DEF Conforms
<1>4. ASSUME NEW k \in Direct..(Direct + PerBlock - 1), x = <<n, k, pointers[d.indirect][k - Direct]>>
      PROVE  x[3] \in bitmap /\ w[x[3]] = <<x[1], x[2]>>
  <2>1. k \in Slot /\ Where(pointers, d, k) = pointers[d.indirect][k - Direct]
    BY Constants DEF Slot, Where
  <2>2. x[3] = Where(pointers, d, k) /\ x[1] = n /\ x[2] = k /\ Placed(w)
    BY <2>1, <1>4 DEF Sound
  <2> QED BY <2>1, <2>2, WhereFacts
<1> QED BY <1>1, <1>2, <1>3, <1>4

\* Types, places and entries follow from the invariant.
LEMMA DiskInvImplies ==
  ASSUME DiskAssumption, DiskInv
  PROVE  TypeOK /\ OneOwner /\ EntriesLive
<1>0. Typed
  BY DEF DiskInv
<1>1. TypeOK
  <2>1. InodeRecord \subseteq Inode
    BY Constants DEF InodeRecord, Inode
  <2>2. bitmap \subseteq Block /\ inode \in [Inum -> Inode] /\ pointers \in [Block -> [0..(PerBlock - 1) -> Block]]
    BY <1>0, <2>1 DEF Typed
  <2>3. items \in [Block -> [1..Items -> [name : Name \cup {"none", "."}, inum : Inum, dir : BOOLEAN]]]
    BY <1>0 DEF Typed, ItemBlock, Item
  <2>4. dirent \in [Handle -> [live : BOOLEAN, inum : Inum, dir : BOOLEAN, disk : Inode]]
    BY <1>0, <2>1 DEF Typed, Direntry
  <2>5. \A p \in Proc : op[p].h \in Handle \cup {0} /\ op[p].b \in Block /\ op[p].inum \in Inum
    BY <1>0 DEF Typed, OpsTyped, Operation
  <2>6. ops \in 0..MaxOps /\ hurt \subseteq Race
    BY <1>0 DEF Typed
  <2> QED BY <2>2, <2>3, <2>4, <2>5, <2>6 DEF TypeOK
<1>2. OneOwner
  <2> SUFFICES ASSUME "removed" \notin hurt
               PROVE  LET all == OnDisk \cup InMemory
                      IN  /\ \A x, y \in all : x[3] = y[3] => x[1] = y[1] /\ x[2] = y[2]
                          /\ \A x \in all : x[3] \in bitmap
    BY DEF OneOwner
  <2>1. PICK w : Sound(w)
    BY DEF DiskInv
  <2>2. ASSUME NEW x \in OnDisk PROVE x[3] \in bitmap /\ w[x[3]] = <<x[1], x[2]>>
    <3>1. PICK n \in Inum : x \in Of(n, inode[n]) /\ x[3] # 0
      BY DEF OnDisk
    <3>2. inode[n] \in InodeRecord /\ Conforms(w, bitmap, inode[n], n)
      BY <1>0, <2>1, SoundFacts DEF Typed
    <3> QED BY <3>1, <3>2, <1>0, <2>1, OfFacts
  <2>3. ASSUME NEW x \in InMemory PROVE x[3] \in bitmap /\ w[x[3]] = <<x[1], x[2]>>
    <3>1. PICK h \in Handle : x \in Of(dirent[h].inum, dirent[h].disk) /\ x[3] # 0
      BY DEF InMemory
    <3>2. dirent[h].disk \in InodeRecord /\ dirent[h].inum \in Inum
          /\ Conforms(w, bitmap, dirent[h].disk, dirent[h].inum)
      BY <1>0, <2>1, SoundFacts DEF Typed, Direntry
    <3> QED BY <3>1, <3>2, <1>0, <2>1, OfFacts
  <2>4. \A x \in OnDisk \cup InMemory : x[3] \in bitmap /\ w[x[3]] = <<x[1], x[2]>>
    BY <2>2, <2>3
  <2> QED BY <2>4
<1>3. EntriesLive
  <2> SUFFICES ASSUME "removed" \notin hurt, NEW n \in DirInums, NEW e \in Entries(n)
               PROVE  inode[ItemAt(n, e).inum].inuse
    BY DEF EntriesLive
  <2>1. PICK w : Sound(w)
    BY DEF DiskInv
  <2>2. n \in Inum
    BY <1>0, Constants DEF DirInums, Typed, Direntry
  <2>3. e[1] \in Slot /\ e[2] \in 1..Items
    BY DEF Entries, Slot
  <2>4. BlockOf(inode[n], e[1]) \in Block
    BY <1>0, <2>2, <2>3, BlockOfIn DEF Typed
  <2> QED BY <1>0, <2>1, <2>3, <2>4, SoundFacts DEF ItemAt
<1> QED BY <1>1, <1>2, <1>3

-----------------------------------------------------------------------------
(* No block is lost, unless something was removed or opened twice or placements overlapped *)

\* What is said of an inode depends on where its blocks are.
LEMMA SameBlocks ==
  ASSUME NEW d, NEW e, e.direct = d.direct, e.indirect = d.indirect, NEW P, NEW I
  PROVE  /\ \A k : Where(P, e, k) = Where(P, d, k)
         /\ \A o : Phase(P, I, o, d) => Phase(P, I, o, e)
         /\ \A b : Has(P, d, b) => Has(P, e, b)
         /\ \A c : Behind(c, d) => Behind(c, e)
<1>1. \A k : Where(P, e, k) = Where(P, d, k)
  BY DEF Where
<1>2. ASSUME NEW o, Phase(P, I, o, d) PROVE Phase(P, I, o, e)
  BY <1>1, <1>2 DEF Phase
<1>3. \A b : Has(P, d, b) => Has(P, e, b)
  BY DEF Has
<1>4. \A c : Behind(c, d) => Behind(c, e)
  BY DEF Behind
<1> QED BY <1>1, <1>2, <1>3, <1>4

\* No other process places blocks of the file or directory of h.
Alone(p, h) == \A q \in Proc \ {p} : ~(Strict(op[q]) /\ op[q].h = h)

\* What holds of operations while no inode is placed by two.
LEMMA CalmFacts ==
  ASSUME DiskAssumption, Typed, NEW w, Sound(w), Calm
  PROVE  /\ pointers[0] = NoPointers
         /\ \A p \in Proc : Strict(op[p]) => Alone(p, op[p].h)
         /\ \A p, q \in Proc : p # q /\ Strict(op[p]) /\ Strict(op[q]) =>
              /\ op[p].h # op[q].h
              /\ dirent[op[p].h].inum # dirent[op[q].h].inum
         /\ \A p \in Proc : op[p].at # "user" => Phase(pointers, items, op[p], dirent[op[p].h].disk)
<1>1. pointers[0] = NoPointers
  BY Constants DEF Sound, Placed
<1>2. \A p, q \in Proc : p # q /\ Strict(op[p]) /\ Strict(op[q]) => op[p].h # op[q].h
  BY DEF Calm, OnePlacer
<1>3. ASSUME NEW p \in Proc, NEW q \in Proc, p # q, Strict(op[p]), Strict(op[q])
      PROVE  dirent[op[p].h].inum # dirent[op[q].h].inum
  <2>1. op[p].at # "user" /\ op[q].at # "user"
    BY <1>3 DEF Strict
  <2>2. /\ op[p].h \in Handle /\ dirent[op[p].h].live
        /\ op[q].h \in Handle /\ dirent[op[q].h].live
    BY <2>1, OpFacts
  <2> QED BY <2>2, <1>2, <1>3 DEF Calm, OneHandle
<1>4. \A p \in Proc : op[p].at # "user" => Phase(pointers, items, op[p], dirent[op[p].h].disk)
  BY DEF Calm, Phases
<1> QED BY <1>1, <1>2, <1>3, <1>4 DEF Alone

\* A block of the inode on the disk is one of the copy in memory.
LEMMA BehindHas ==
  ASSUME NEW P, P[0] = NoPointers, NEW c, NEW d, Behind(c, d), NEW b, b # 0, Has(P, c, b)
  PROVE  Has(P, d, b)
<1>1. ASSUME NEW k \in 0..(Direct - 1), c.direct[k] = b PROVE Has(P, d, b)
  <2>1. c.direct[k] \in {0, d.direct[k]}
    BY DEF Behind
  <2>2. d.direct[k] = b
    BY <2>1, <1>1
  <2> QED BY <2>2 DEF Has
<1>2. CASE c.indirect = b
  <2>1. c.indirect \in {0, d.indirect}
    BY DEF Behind
  <2>2. d.indirect = b
    BY <2>1, <1>2
  <2> QED BY <2>2 DEF Has
<1>3. ASSUME NEW j \in 0..(PerBlock - 1), P[c.indirect][j] = b PROVE Has(P, d, b)
  <2>1. NoPointers[j] = 0
    BY DEF NoPointers
  <2>2. c.indirect # 0
    BY <2>1, <1>3
  <2>3. c.indirect = d.indirect
    BY <2>2 DEF Behind
  <2> QED BY <2>3, <1>3 DEF Has
<1> QED BY <1>1, <1>2, <1>3 DEF Has

\* A step that places nothing and leaves the inodes in use.
LEMMA CalmQuiet ==
  ASSUME DiskAssumption, Typed, NEW w, Sound(w), Calm, NEW p \in Proc, NEW x, Goes(p, x), SameDirents,
         UNCHANGED <<bitmap, pointers>>, \A n \in Inum : inode[n].inuse => inode'[n] = inode[n],
         \A q \in Proc \ {p} : op[q].at = "putptr" => items'[op[q].b] = items[op[q].b],
         op[p].at # "putptr",
         x.at # "user" => Phase(pointers, items', x, dirent[x.h].disk),
         Strict(x) => Alone(p, x.h)
  PROVE  Calm'
<1>0. \A g \in Handle : /\ dirent'[g].live = dirent[g].live /\ dirent'[g].inum = dirent[g].inum
                        /\ dirent'[g].disk.direct = dirent[g].disk.direct
                        /\ dirent'[g].disk.indirect = dirent[g].disk.indirect
  BY DEF SameDirents
<1>1. OneHandle'
  BY <1>0 DEF Calm, OneHandle
<1>2. OnePlacer'
  BY DEF Calm, OnePlacer, Alone, Goes
<1>3. Ahead'
  <2> SUFFICES ASSUME NEW h \in Handle, dirent'[h].live
               PROVE  Behind(inode'[dirent'[h].inum], dirent'[h].disk)
    BY DEF Ahead
  <2>1. dirent[h].inum \in Inum /\ inode[dirent[h].inum].inuse
    BY DEF Sound, InUse, Typed, Direntry
  <2>2. Behind(inode[dirent[h].inum], dirent[h].disk)
    BY <1>0 DEF Calm, Ahead
  <2> QED BY <1>0, <2>1, <2>2, SameBlocks, ZenonT(40)
<1>4. Phases'
  <2> SUFFICES ASSUME NEW q \in Proc, op'[q].at # "user"
               PROVE  Phase(pointers', items', op'[q], dirent'[op'[q].h].disk)
    BY DEF Phases
  <2>1. op'[q].h \in Handle
    BY DEF Goes, OpsTyped, Shaped
  <2>2. Phase(pointers, items', op'[q], dirent[op'[q].h].disk)
    <3>1. CASE q = p
      BY <3>1 DEF Goes
    <3>2. CASE q # p
      <4>1. op'[q] = op[q] /\ Phase(pointers, items, op[q], dirent[op[q].h].disk)
        BY <3>2 DEF Goes, Calm, Phases
      <4>2. op[q].at = "putptr" => items'[op[q].b] = items[op[q].b]
        BY <3>2
      <4> DEFINE o == op[q]
                 e == dirent[op[q].h].disk
      <4>3. Phase(pointers, items, o, e) /\ (o.at = "putptr" => items'[o.b] = items[o.b])
        BY <4>1, <4>2
      <4> HIDE DEF o, e
      <4>4. Phase(pointers, items', o, e)
        BY <4>3 DEF Phase
      <4> QED BY <4>1, <4>4 DEF o, e
    <3> QED BY <3>1, <3>2
  <2> DEFINE d == dirent[op'[q].h].disk
             e == dirent'[op'[q].h].disk
  <2>3. e.direct = d.direct /\ e.indirect = d.indirect /\ Phase(pointers, items', op'[q], d)
    BY <2>1, <2>2, <1>0
  <2> HIDE DEF d, e
  <2>4. Phase(pointers, items', op'[q], e)
    BY <2>3, SameBlocks
  <2> QED BY <2>4 DEF e
<1>5. Kept'
  <2> SUFFICES ASSUME NEW b \in bitmap \ {0}
               PROVE  \/ \E h \in Handle : dirent'[h].live /\ Has(pointers, dirent'[h].disk, b)
                      \/ \E n \in Inum : inode'[n].inuse /\ Has(pointers, inode'[n], b)
                      \/ \E q \in Proc : op'[q].at = "putptr" /\ op'[q].b = b
    BY DEF Kept
  <2>1. \/ \E h \in Handle : dirent[h].live /\ Has(pointers, dirent[h].disk, b)
        \/ \E n \in Inum : inode[n].inuse /\ Has(pointers, inode[n], b)
        \/ \E q \in Proc : op[q].at = "putptr" /\ op[q].b = b
    BY DEF Calm, Kept
  <2>2. CASE \E h \in Handle : dirent[h].live /\ Has(pointers, dirent[h].disk, b)
    BY <2>2, <1>0, SameBlocks, ZenonT(40)
  <2>3. CASE \E n \in Inum : inode[n].inuse /\ Has(pointers, inode[n], b)
    BY <2>3
  <2>4. CASE \E q \in Proc : op[q].at = "putptr" /\ op[q].b = b
    BY <2>4 DEF Goes
  <2> QED BY <2>1, <2>2, <2>3, <2>4
<1> QED BY <1>1, <1>2, <1>3, <1>4, <1>5 DEF Calm

\* An operation that is not placing a block asks nothing of the inode.
LEMMA PhaseRest ==
  ASSUME NEW x, ~Strict(x), NEW P, NEW I, NEW d
  PROVE  Phase(P, I, x, d)
BY DEF Strict, Phase

\* A step after which the process places no block.
LEMMA RestCalm ==
  ASSUME DiskAssumption, Typed, NEW w, Sound(w), Calm, NEW p \in Proc, NEW x, Goes(p, x), ~Strict(x),
         SameDirents, UNCHANGED <<bitmap, pointers>>, \A n \in Inum : inode[n].inuse => inode'[n] = inode[n],
         \A q \in Proc \ {p} : op[q].at = "putptr" => items'[op[q].b] = items[op[q].b],
         op[p].at # "putptr"
  PROVE  Calm'
BY PhaseRest, CalmQuiet

\* diskfs_inode_write begins with what it found.
LEMMA PhasePlace ==
  ASSUME DiskAssumption, NEW x \in Operation, x.h \in Handle, NEW d \in InodeRecord,
         x.kind \in {"mkfile", "mkdir", "write", "remove"}, Creates(x) => x.name \in Name, NEW P, NEW I
  PROVE  Phase(P, I, Place(x, d), d)
<1> DEFINE r == Place(x, d)
<1>1. /\ r.at \notin {"user", "save", "zero", "putptr"} /\ r.i = x.i
      /\ r.at = "alloc" => \/ r.slot = "direct" /\ x.i < Direct /\ d.direct[x.i] = 0
                           \/ r.slot = "indirect" /\ x.i >= Direct /\ d.indirect = 0
      /\ r.at = "data" => x.i < Direct /\ d.direct[x.i] # 0 /\ r.b = d.direct[x.i]
  BY PlaceFacts
<1> HIDE DEF r
<1>2. Phase(P, I, r, d)
  BY <1>1 DEF Phase, Where
<1> QED BY <1>2 DEF r

\* An operation begins to place a block while no other does so for the same inode.
LEMMA PlaceCalm ==
  ASSUME DiskAssumption, Typed, NEW w, Sound(w), Calm, NEW p \in Proc, NEW x \in Operation, x.h \in Handle,
         x.kind \in {"mkfile", "mkdir", "write", "remove"}, Creates(x) => x.name \in Name,
         Goes(p, Place(x, dirent[x.h].disk)), SameDirents, UNCHANGED <<bitmap, items, pointers>>,
         \A n \in Inum : inode[n].inuse => inode'[n] = inode[n],
         op[p].at # "putptr", Noted("overlap", Overlaps(p, x.h)), "overlap" \notin hurt'
  PROVE  Calm'
<1> DEFINE r == Place(x, dirent[x.h].disk)
<1>1. dirent[x.h].disk \in InodeRecord
  BY DEF Typed, Direntry
<1>2. Phase(pointers, items', r, dirent[x.h].disk) /\ r.h = x.h
  BY <1>1, PhasePlace, PlaceFacts
<1>3. Alone(p, x.h)
  <2>1. ~Overlaps(p, x.h)
    BY DEF Noted
  <2>2. \A q \in Proc : Strict(op[q]) /\ op[q].h = x.h => Placing(q, dirent[x.h].inum)
    BY DEF Strict, Placing
  <2> QED BY <2>1, <2>2 DEF Alone, Overlaps
<1>4. r.at # "user" => Phase(pointers, items', r, dirent[r.h].disk)
  BY <1>2
<1>5. Strict(r) => Alone(p, r.h)
  BY <1>2, <1>3
<1> HIDE DEF r
<1>6. Goes(p, r)
  BY DEF r
<1> QED BY <1>4, <1>5, <1>6, CalmQuiet

\* Beginning to read a directory loses no block.
LEMMA BeginScanCalm ==
  ASSUME DiskAssumption, Typed, NEW w, Sound(w), Calm, NEW p \in Proc,
         NEW kind \in Ops, NEW h \in Handle, NEW name \in Name, BeginScan(p, kind, h, name)
  PROVE  Calm'
<1> DEFINE o == ScanOp(kind, h, name)
<1>1. /\ o \in Operation /\ UNCHANGED <<bitmap, inode, items, pointers, dirent>> /\ o.at = "scan"
      /\ \/ Goes(p, o)
         \/ Goes(p, [o EXCEPT !.at = "ialloc"])
         \/ Goes(p, NoOp)
  BY BeginScanFacts
<1> HIDE DEF o
<1>2. op[p].at = "user" /\ SameDirents
  BY <1>1, SameDirentsKept DEF BeginScan, Begin
<1>3. ~Strict(o) /\ ~Strict(NoOp)
  BY <1>1, Idle DEF Strict
<1>4. ASSUME NEW x, x = [o EXCEPT !.at = "ialloc"] PROVE ~Strict(x)
  <2>1. x.at = "ialloc"
    BY <1>1, <1>4 DEF Operation
  <2> QED BY <2>1 DEF Strict
<1>5. PICK x : Goes(p, x) /\ ~Strict(x)
  BY <1>1, <1>3, <1>4
<1> QED BY <1>1, <1>2, <1>5, RestCalm

\* Beginning to write a file loses no block.
LEMMA BeginWriteCalm ==
  ASSUME DiskAssumption, Typed, NEW w, Sound(w), Calm, NEW p \in Proc, NEW h \in Handle, NEW k \in Slot,
         BeginWrite(p, h, k), "overlap" \notin hurt'
  PROVE  Calm'
<1> DEFINE o == WriteOp(h, k)
<1>1. /\ SameDirents /\ UNCHANGED <<bitmap, inode, items, pointers>>
      /\ o \in Operation /\ Goes(p, Place(o, dirent[h].disk)) /\ Noted("overlap", Overlaps(p, h))
      /\ o.kind = "write" /\ o.h = h /\ ~Creates(o)
  BY BeginWriteFacts
<1>2. op[p].at = "user"
  BY DEF BeginWrite, Begin
<1> HIDE DEF o
<1>3. /\ Goes(p, Place(o, dirent[o.h].disk)) /\ Noted("overlap", Overlaps(p, o.h)) /\ o.h \in Handle
      /\ o.kind \in {"mkfile", "mkdir", "write", "remove"}
  BY <1>1
<1> QED BY <1>1, <1>2, <1>3, PlaceCalm

\* Reading a block of a directory loses no block.
LEMMA ScanCalm ==
  ASSUME DiskAssumption, Typed, NEW w, Sound(w), Calm, NEW p \in Proc, Scan(p), "removed" \notin hurt'
  PROVE  Calm'
<1> DEFINE o == op[p]
           b == Where(pointers, DirOf(o), o.i)
<1>1. /\ UNCHANGED <<bitmap, inode, items, pointers, dirent>> /\ o.at = "scan"
      /\ \/ Goes(p, NoOp)
         \/ \E j \in 1..Items, kind \in {"open", "opendir"} :
              Goes(p, [o EXCEPT !.at = "load", !.inum = items[b][j].inum, !.kind = kind])
         \/ \E j \in 1..Items :
              Goes(p, [o EXCEPT !.at = "rmdir", !.inum = items[b][j].inum,
                                !.buf = [items[b] EXCEPT ![j] = Blank]])
         \/ Goes(p, [o EXCEPT !.i = o.i + 1])
         \/ Goes(p, [o EXCEPT !.at = "ialloc"])
  BY ScanFacts, Zenon
<1>2. o \in Operation /\ SameDirents
  BY <1>1, OpFacts, SameDirentsKept, Zenon
<1> HIDE DEF o, b
<1>3. ASSUME NEW x,
             \/ \E n, kind : x = [o EXCEPT !.at = "load", !.inum = n, !.kind = kind]
             \/ \E n, f : x = [o EXCEPT !.at = "rmdir", !.inum = n, !.buf = f]
             \/ x = [o EXCEPT !.i = o.i + 1]
             \/ x = [o EXCEPT !.at = "ialloc"]
      PROVE  ~Strict(x)
  <2>1. x.at \in {"load", "rmdir", "scan", "ialloc"}
    <3>1. CASE \E n, kind : x = [o EXCEPT !.at = "load", !.inum = n, !.kind = kind]
      BY <3>1, <1>2 DEF Operation
    <3>2. CASE \E n, f : x = [o EXCEPT !.at = "rmdir", !.inum = n, !.buf = f]
      BY <3>2, <1>2 DEF Operation
    <3>3. CASE x = [o EXCEPT !.i = o.i + 1]
      BY <3>3, <1>1, <1>2, Zenon DEF Operation
    <3>4. CASE x = [o EXCEPT !.at = "ialloc"]
      BY <3>4, <1>2 DEF Operation
    <3> QED BY <1>3, <3>1, <3>2, <3>3, <3>4, Zenon
  <2> QED BY <2>1 DEF Strict
<1>4. PICK x : Goes(p, x) /\ ~Strict(x)
  <2>1. ~Strict(NoOp)
    BY Idle DEF Strict
  <2> QED BY <1>1, <1>3, <2>1, Zenon
<1> QED BY <1>1, <1>2, <1>4, RestCalm, Zenon DEF o

\* An entry that is closed leaves its inode on the disk as it was in memory.
LEMMA CloseCalm ==
  ASSUME DiskAssumption, Typed, NEW w, Sound(w), Calm, NEW p \in Proc, NEW h \in Handle, Close(p, h)
  PROVE  Calm'
<1> DEFINE n == dirent[h].inum
           d == dirent[h].disk
<1>1. /\ dirent[h].live /\ inode' = [inode EXCEPT ![n] = d] /\ dirent' = [dirent EXCEPT ![h] = NoDirent]
      /\ \A q \in Proc : op[q].h # h
      /\ UNCHANGED <<bitmap, items, pointers, op, hurt>>
  BY CloseFacts
<1>2. /\ n \in Inum /\ d.inuse /\ inode'[n] = d /\ \A m \in Inum : m # n => inode'[m] = inode[m]
      /\ ~dirent'[h].live /\ \A g \in Handle : g # h => dirent'[g] = dirent[g]
  BY <1>1 DEF Sound, InUse, Typed, Direntry, NoDirent
<1>3. OneHandle'
  BY <1>2 DEF Calm, OneHandle
<1>4. OnePlacer'
  BY <1>1 DEF Calm, OnePlacer
<1>5. Ahead'
  <2> SUFFICES ASSUME NEW g \in Handle, dirent'[g].live PROVE Behind(inode'[dirent'[g].inum], dirent'[g].disk)
    BY DEF Ahead
  <2>1. g # h /\ dirent'[g] = dirent[g]
    BY <1>2
  <2>2. dirent[g].inum # n /\ dirent[g].inum \in Inum
    BY <2>1, <1>1 DEF Calm, OneHandle, Typed, Direntry
  <2> QED BY <2>1, <2>2, <1>2 DEF Calm, Ahead
<1>6. Phases'
  <2> SUFFICES ASSUME NEW q \in Proc, op'[q].at # "user"
               PROVE  Phase(pointers', items', op'[q], dirent'[op'[q].h].disk)
    BY DEF Phases
  <2>1. op[q].h \in Handle /\ op[q].h # h /\ op'[q] = op[q]
    BY <1>1, OpFacts
  <2> QED BY <2>1, <1>1, <1>2, CalmFacts
<1>7. Kept'
  <2> SUFFICES ASSUME NEW b \in bitmap \ {0}
               PROVE  \/ \E g \in Handle : dirent'[g].live /\ Has(pointers, dirent'[g].disk, b)
                      \/ \E m \in Inum : inode'[m].inuse /\ Has(pointers, inode'[m], b)
                      \/ \E q \in Proc : op'[q].at = "putptr" /\ op'[q].b = b
    BY <1>1 DEF Kept
  <2>1. \/ \E g \in Handle : dirent[g].live /\ Has(pointers, dirent[g].disk, b)
        \/ \E m \in Inum : inode[m].inuse /\ Has(pointers, inode[m], b)
        \/ \E q \in Proc : op[q].at = "putptr" /\ op[q].b = b
    BY DEF Calm, Kept
  <2>2. ASSUME Has(pointers, d, b) PROVE \E m \in Inum : inode'[m].inuse /\ Has(pointers, inode'[m], b)
    BY <2>2, <1>2
  <2>3. ASSUME NEW g \in Handle, dirent[g].live, Has(pointers, dirent[g].disk, b)
        PROVE  \/ \E f \in Handle : dirent'[f].live /\ Has(pointers, dirent'[f].disk, b)
               \/ \E m \in Inum : inode'[m].inuse /\ Has(pointers, inode'[m], b)
    BY <2>3, <2>2, <1>2
  <2>4. ASSUME NEW m \in Inum, inode[m].inuse, Has(pointers, inode[m], b)
        PROVE  \E l \in Inum : inode'[l].inuse /\ Has(pointers, inode'[l], b)
    <3>1. CASE m = n
      <4>1. Behind(inode[n], d)
        BY <1>1 DEF Calm, Ahead
      <4>2. Has(pointers, inode[n], b) /\ pointers[0] = NoPointers /\ b # 0
        BY <2>4, <3>1, CalmFacts
      <4> HIDE DEF n, d
      <4>3. Has(pointers, d, b)
        BY <4>1, <4>2, BehindHas
      <4> QED BY <4>3, <2>2
    <3>2. CASE m # n
      BY <2>4, <3>2, <1>2
    <3> QED BY <3>1, <3>2
  <2> QED BY <2>1, <2>3, <2>4, <1>1
<1> QED BY <1>3, <1>4, <1>5, <1>6, <1>7 DEF Calm

\* A directory that grows loses no block.
LEMMA GrowCalm ==
  ASSUME DiskAssumption, Typed, NEW w, Sound(w), Calm, NEW p \in Proc, NEW o \in Operation, o.h \in Handle,
         dirent[o.h].live, Creates(o), o.name \in Name, Grow(p, o), UNCHANGED <<bitmap, items, pointers>>,
         \A n \in Inum : inode[n].inuse => inode'[n] = inode[n], op[p].at # "putptr", "overlap" \notin hurt'
  PROVE  Calm'
<1> DEFINE x == Grown(o)
<1>1. /\ SameDirents /\ Goes(p, Place(x, DirOf(o))) /\ Noted("overlap", Overlaps(p, o.h))
      /\ x \in Operation /\ x.kind = o.kind /\ x.h = o.h /\ x.name = o.name
  BY GrowFacts
<1> HIDE DEF x
<1>2. /\ x.kind \in {"mkfile", "mkdir", "write", "remove"} /\ x.name \in Name /\ x.h \in Handle
      /\ Goes(p, Place(x, dirent[x.h].disk)) /\ Noted("overlap", Overlaps(p, x.h))
  BY <1>1 DEF Creates, DirOf
<1> QED BY <1>1, <1>2, PlaceCalm

\* Taking an inode loses no block.
LEMMA InodeAllocCalm ==
  ASSUME DiskAssumption, Typed, NEW w, Sound(w), Calm, NEW p \in Proc, InodeAlloc(p), "overlap" \notin hurt'
  PROVE  Calm'
<1>1. /\ SameDirents /\ UNCHANGED <<bitmap, items, pointers>> /\ op[p].at = "ialloc"
      /\ \/ UNCHANGED <<inode, dirent, hurt>> /\ Goes(p, NoOp)
         \/ \E n \in Inum :
              LET o == [op[p] EXCEPT !.at = "add", !.inum = n, !.i = 0, !.n = Blocks(DirOf(op[p]).size)]
              IN  /\ ~inode[n].inuse /\ inode' = [inode EXCEPT ![n] = FreshInode] /\ o \in Operation
                  /\ \/ o.n # 0 /\ Goes(p, o) /\ UNCHANGED <<dirent, hurt>>
                     \/ o.n = 0 /\ Grow(p, o)
  BY InodeAllocFacts, Zenon
<1>2. CASE UNCHANGED <<inode, dirent, hurt>> /\ Goes(p, NoOp)
  <2>1. ~Strict(NoOp)
    BY Idle DEF Strict
  <2> QED BY <2>1, <1>1, <1>2, RestCalm
<1>3. ASSUME NEW n \in Inum, NEW o \in Operation,
             o = [op[p] EXCEPT !.at = "add", !.inum = n, !.i = 0, !.n = Blocks(DirOf(op[p]).size)],
             ~inode[n].inuse, inode' = [inode EXCEPT ![n] = FreshInode],
             \/ o.n # 0 /\ Goes(p, o) /\ UNCHANGED <<dirent, hurt>>
             \/ o.n = 0 /\ Grow(p, o)
      PROVE  Calm'
  <2>1. op[p] \in Operation /\ Shaped(op[p]) /\ op[p].h \in Handle /\ dirent[op[p].h].live
    BY <1>1, OpFacts, Zenon
  <2>2. o.at = "add" /\ o.h = op[p].h /\ o.name = op[p].name /\ o.kind = op[p].kind
    BY <1>3, <2>1 DEF Operation
  <2>3. Creates(o) /\ o.name \in Name /\ o.kind # "remove"
    BY <2>1, <2>2, <1>1, Zenon DEF Shaped, Creates
  <2>4. \A m \in Inum : inode[m].inuse => inode'[m] = inode[m]
    BY <1>3 DEF Typed
  <2>5. CASE Grow(p, o)
    BY <1>1, <2>1, <2>2, <2>3, <2>4, <2>5, GrowCalm, Zenon
  <2>6. CASE Goes(p, o)
    <3>1. ~Strict(o)
      BY <2>2 DEF Strict
    <3> QED BY <1>1, <2>4, <2>6, <3>1, RestCalm, Zenon
  <2> QED BY <1>3, <2>5, <2>6
<1> QED BY <1>1, <1>2, <1>3, Zenon

\* The items of a block in use change, but not of one that another process is adding.
LEMMA OtherBlocks ==
  ASSUME DiskAssumption, Typed, NEW w, Sound(w), Calm, NEW p \in Proc, op[p].at # "user", NEW b \in Block, NEW k,
         w[b] = <<dirent[op[p].h].inum, k>>, k < Direct \/ Strict(op[p]),
         NEW f, items' = [items EXCEPT ![b] = f], NEW q \in Proc \ {p}, op[q].at = "putptr"
  PROVE  items'[op[q].b] = items[op[q].b]
<1>1. OpAt(w, bitmap, op[q], dirent[op[q].h].disk, dirent[op[q].h].inum)
  BY SoundFacts
<1>2. w[op[q].b] = <<dirent[op[q].h].inum, op[q].i>>
  BY <1>1 DEF OpAt
<1>3. op[q].i >= Direct /\ op[q].i \in Int /\ op[q].b \in Block
  BY OpFacts, Constants DEF Shaped, Operation, Slot
<1>4. op[q].b # b
  <2>1. CASE k < Direct
    BY <1>2, <1>3, <2>1, Constants
  <2>2. CASE Strict(op[p])
    <3>1. Strict(op[q])
      BY DEF Strict
    <3> QED BY <1>2, <2>2, <3>1, CalmFacts
  <2> QED BY <2>1, <2>2
<1> QED BY <1>3, <1>4 DEF Typed

\* Filling an item, or going on to the next block, loses no block.
LEMMA AddCalm ==
  ASSUME DiskAssumption, Typed, NEW w, Sound(w), Calm, NEW p \in Proc, Add(p), "overlap" \notin hurt'
  PROVE  Calm'
<1> DEFINE o == op[p]
           d == dirent[o.h].disk
           b == Where(pointers, d, o.i)
<1>0. UNCHANGED <<bitmap, inode, pointers>> /\ SameDirents /\ o.at = "add"
  BY AddFacts
<1>1. \/ \E j \in 1..Items : AddFill(p, j)
      \/ \E j \in 1..Items : AddPlace(p, j)
      \/ ToNextBlock(p)
      \/ AllFull(p)
  BY AddFacts
<1>2. /\ o \in Operation /\ Shaped(o) /\ o.h \in Handle /\ dirent[o.h].live /\ d \in InodeRecord
      /\ b \in Block /\ Creates(o) /\ o.name \in Name /\ o.i \in Slot
  BY <1>0, OpFacts DEF DirOf, Shaped, Operation
<1>3. ASSUME NEW j \in 1..Items
      PROVE  LET y == Filled(o, pointers, items, j)
             IN  y \in Operation /\ y.kind = o.kind /\ y.h = o.h /\ y.name = o.name
  BY <1>0, FilledFacts
<1>4. ASSUME NEW j \in 1..Items, AddFill(p, j) PROVE Calm'
  <2> DEFINE y == Filled(o, pointers, items, j)
  <2>1. /\ b # 0 /\ o.i < Direct /\ items' = [items EXCEPT ![b] = y.buf]
        /\ Goes(p, Finally(y)) \/ Goes(p, Loading(y))
    BY <1>4 DEF AddFill, DirOf
  <2>2. y \in Operation
    BY <1>3
  <2> HIDE DEF y
  <2>3. ~Strict(Finally(y)) /\ ~Strict(Loading(y))
    BY <2>2, EndFacts DEF Strict
  <2>4. w[b] = <<dirent[o.h].inum, o.i>>
    <3>1. Placed(w) /\ Conforms(w, bitmap, d, dirent[o.h].inum)
      BY <1>2, SoundFacts DEF Sound
    <3> QED BY <3>1, <2>1, <1>2, WhereFacts
  <2>5. PICK f : f = y.buf
    OBVIOUS
  <2>6. PICK c \in Block : c = b
    BY <1>2
  <2>7. PICK k : k = o.i
    OBVIOUS
  <2>8. items' = [items EXCEPT ![c] = f] /\ w[c] = <<dirent[o.h].inum, k>> /\ k < Direct
    BY <2>1, <2>4, <2>5, <2>6, <2>7
  <2> HIDE DEF b, d
  <2>9. \A q \in Proc \ {p} : op[q].at = "putptr" => items'[op[q].b] = items[op[q].b]
    BY <1>0, <2>8, OtherBlocks, ZenonT(40)
  <2> QED BY <1>0, <2>1, <2>3, <2>9, RestCalm
<1>5. ASSUME NEW j \in 1..Items, AddPlace(p, j) PROVE Calm'
  <2> DEFINE y == Filled(o, pointers, items, j)
  <2>1. items' = items /\ Goes(p, Place(y, DirOf(o))) /\ Noted("overlap", Overlaps(p, o.h))
    BY <1>5 DEF AddPlace
  <2>2. y \in Operation /\ y.kind = o.kind /\ y.h = o.h /\ y.name = o.name
    BY <1>3
  <2> HIDE DEF y
  <2>3. /\ y.kind \in {"mkfile", "mkdir", "write", "remove"} /\ y.name \in Name /\ y.h \in Handle
        /\ Goes(p, Place(y, dirent[y.h].disk)) /\ Noted("overlap", Overlaps(p, y.h))
    BY <2>1, <2>2, <1>2 DEF Creates, DirOf
  <2> QED BY <1>0, <2>1, <2>2, <2>3, PlaceCalm
<1>6. CASE ToNextBlock(p)
  <2>1. items' = items /\ Goes(p, [o EXCEPT !.i = o.i + 1])
    BY <1>6 DEF ToNextBlock
  <2>2. ASSUME NEW x, x = [o EXCEPT !.i = o.i + 1] PROVE ~Strict(x)
    <3>1. x.at = "add"
      BY <1>0, <1>2, <2>2 DEF Operation
    <3> QED BY <3>1 DEF Strict
  <2> QED BY <1>0, <2>1, <2>2, RestCalm
<1>7. CASE AllFull(p)
  <2>1. items' = items /\ Grow(p, o)
    BY <1>7 DEF AllFull
  <2> QED BY <1>0, <1>2, <2>1, GrowCalm
<1> QED BY <1>1, <1>4, <1>5, <1>6, <1>7

\* An operation that ends loses no block.
LEMMA IdleCalm ==
  ASSUME DiskAssumption, Typed, NEW w, Sound(w), Calm, NEW p \in Proc, Goes(p, NoOp), SameDirents,
         UNCHANGED <<bitmap, inode, items, pointers>>, op[p].at # "putptr"
  PROVE  Calm'
<1>1. ~Strict(NoOp)
  BY Idle DEF Strict
<1> QED BY <1>1, RestCalm

\* A removal that is given up loses no block.
LEMMA RemoveDirCalm ==
  ASSUME DiskAssumption, Typed, NEW w, Sound(w), Calm, NEW p \in Proc, RemoveDir(p), "removed" \notin hurt'
  PROVE  Calm'
<1>1. op[p].at # "putptr"
  BY DEF RemoveDir
<1> QED BY <1>1, RemoveDirFacts, SameDirentsKept, IdleCalm

\* A directory entry is made: there was none for its inode.
LEMMA LoadCalm ==
  ASSUME DiskAssumption, Typed, NEW w, Sound(w), Calm, NEW p \in Proc, Load(p), "alias" \notin hurt'
  PROVE  Calm'
<1> DEFINE n == op[p].inum
<1>1. /\ UNCHANGED <<bitmap, inode, items, pointers>> /\ Goes(p, NoOp) /\ op[p].at = "load"
      /\ \A h \in Handle : ~(dirent[h].live /\ dirent[h].inum = n)
      /\ \/ dirent' = dirent
         \/ \E h \in Handle, dir \in BOOLEAN :
              /\ ~dirent[h].live
              /\ dirent' = [dirent EXCEPT ![h] = [live |-> TRUE, inum |-> n, dir |-> dir, disk |-> inode[n]]]
  BY LoadFacts DEF Noted
<1> HIDE DEF n
<1>2. CASE dirent' = dirent
  BY <1>1, <1>2, SameDirentsKept, IdleCalm
<1>3. ASSUME NEW h \in Handle, NEW dir \in BOOLEAN, ~dirent[h].live,
             dirent' = [dirent EXCEPT ![h] = [live |-> TRUE, inum |-> n, dir |-> dir, disk |-> inode[n]]]
      PROVE  Calm'
  <2>1. /\ dirent'[h].live /\ dirent'[h].inum = n /\ dirent'[h].disk = inode[n]
        /\ \A g \in Handle \ {h} : dirent'[g] = dirent[g]
    BY <1>3 DEF Typed
  <2>2. \A q \in Proc : \/ op'[q] = op[q] /\ (op[q].at # "user" => op[q].h # h /\ op[q].h \in Handle)
                        \/ q = p /\ op'[q] = NoOp
    BY <1>1, <1>3, OpFacts DEF Goes
  <2>3. OneHandle'
    BY <1>1, <2>1 DEF Calm, OneHandle
  <2>4. OnePlacer'
    <3>1. ~Strict(NoOp)
      BY Idle DEF Strict
    <3> QED BY <3>1, <2>2 DEF Calm, OnePlacer
  <2>5. Ahead'
    <3>1. Behind(inode[n], inode[n])
      BY DEF Behind
    <3>2. \A g \in Handle \ {h} : dirent'[g].live => Behind(inode'[dirent'[g].inum], dirent'[g].disk)
      BY <2>1, <1>1 DEF Calm, Ahead
    <3> QED BY <3>1, <3>2, <2>1, <1>1 DEF Ahead
  <2>6. Phases'
    <3> SUFFICES ASSUME NEW q \in Proc, op'[q].at # "user"
                 PROVE  Phase(pointers', items', op'[q], dirent'[op'[q].h].disk)
      BY DEF Phases
    <3>1. op'[q] = op[q] /\ op[q].h # h /\ op[q].h \in Handle
      BY <2>2, Idle
    <3> QED BY <3>1, <2>1, <1>1, CalmFacts
  <2>7. Kept'
    <3> SUFFICES ASSUME NEW b \in bitmap \ {0}
                 PROVE  \/ \E g \in Handle : dirent'[g].live /\ Has(pointers, dirent'[g].disk, b)
                        \/ \E m \in Inum : inode[m].inuse /\ Has(pointers, inode[m], b)
                        \/ \E q \in Proc : op'[q].at = "putptr" /\ op'[q].b = b
      BY <1>1 DEF Kept
    <3>1. \/ \E g \in Handle : dirent[g].live /\ Has(pointers, dirent[g].disk, b)
          \/ \E m \in Inum : inode[m].inuse /\ Has(pointers, inode[m], b)
          \/ \E q \in Proc : op[q].at = "putptr" /\ op[q].b = b
      BY DEF Calm, Kept
    <3>2. \A g \in Handle : dirent[g].live => dirent'[g] = dirent[g]
      BY <2>1, <1>3
    <3>3. \A q \in Proc : op[q].at = "putptr" => op'[q] = op[q]
      BY <1>1, <2>2
    <3> QED BY <3>1, <3>2, <3>3
  <2> QED BY <2>3, <2>4, <2>5, <2>6, <2>7 DEF Calm
<1> QED BY <1>1, <1>2, <1>3

\* An inode is saved: it was behind its copy in memory.
LEMMA SaveCalm ==
  ASSUME DiskAssumption, Typed, NEW w, Sound(w), Calm, NEW p \in Proc, Save(p)
  PROVE  Calm'
<1> DEFINE o == op[p]
           h == o.h
           d == dirent[h].disk
           n == dirent[h].inum
<1>1. /\ UNCHANGED <<bitmap, items, pointers, dirent>> /\ o.at = "save"
      /\ inode' = [inode EXCEPT ![n] = d]
      /\ \/ o.slot = "direct" /\ Goes(p, Moved(o, "data"))
         \/ o.slot = "indirect" /\ Goes(p, Moved(o, "zero"))
         \/ o.slot = "final" /\ Goes(p, Moved(o, "load"))
  BY SaveFacts DEF Moved
<1>2. /\ o \in Operation /\ h \in Handle /\ dirent[h].live /\ d \in InodeRecord /\ n \in Inum /\ Shaped(o)
  BY <1>1, OpFacts DEF DirOf
<1>3. d.inuse /\ inode'[n] = d /\ \A m \in Inum : m # n => inode'[m] = inode[m]
  BY <1>1, <1>2 DEF Sound, InUse, Typed
<1>4. PICK at \in {"data", "zero", "load"} :
        /\ Goes(p, Moved(o, at))
        /\ at = "data" => o.slot = "direct"
        /\ at = "zero" => o.slot = "indirect"
        /\ at # "load" => o.slot # "final"
  BY <1>1
<1> DEFINE x == Moved(o, at)
<1>5. x \in Operation /\ x.at = at /\ x.h = h /\ x.i = o.i /\ x.b = o.b /\ x.slot = o.slot /\ Goes(p, x)
  BY <1>2, <1>4, MovedFacts
<1> HIDE DEF x
<1>6. OneHandle'
  BY <1>1 DEF Calm, OneHandle
<1>7. OnePlacer'
  <2>1. Strict(x) => Strict(o)
    BY <1>1, <1>4, <1>5 DEF Strict
  <2>2. Strict(x) => Alone(p, h)
    BY <2>1, CalmFacts
  <2> QED BY <2>2, <1>5 DEF Calm, OnePlacer, Alone, Goes
<1>8. Ahead'
  <2> SUFFICES ASSUME NEW g \in Handle, dirent[g].live PROVE Behind(inode'[dirent[g].inum], dirent[g].disk)
    BY <1>1 DEF Ahead
  <2>1. CASE dirent[g].inum = n
    <3>1. g = h
      BY <2>1, <1>2 DEF Calm, OneHandle
    <3>2. Behind(d, d)
      BY DEF Behind
    <3> QED BY <3>1, <3>2, <1>3
  <2>2. CASE dirent[g].inum # n
    <3>1. dirent[g].inum \in Inum
      BY DEF Typed, Direntry
    <3> QED BY <3>1, <2>2, <1>3 DEF Calm, Ahead
  <2> QED BY <2>1, <2>2
<1>9. Phases'
  <2> SUFFICES ASSUME NEW q \in Proc, op'[q].at # "user"
               PROVE  Phase(pointers, items, op'[q], dirent[op'[q].h].disk)
    BY <1>1 DEF Phases
  <2>1. CASE q # p
    BY <2>1, <1>5, CalmFacts DEF Goes
  <2>2. CASE q = p
    <3>1. Phase(pointers, items, o, d)
      BY <1>1, CalmFacts
    <3>2. o.slot = "direct" => o.i < Direct
      BY <1>1, <1>2 DEF Shaped
    <3> HIDE DEF d
    <3>3. Phase(pointers, items, x, d)
      BY <3>1, <3>2, <1>1, <1>4, <1>5 DEF Phase, Where
    <3> QED BY <3>3, <2>2, <1>5 DEF Goes, d
  <2> QED BY <2>1, <2>2
<1>10. Kept'
  <2> SUFFICES ASSUME NEW b \in bitmap \ {0}
               PROVE  \/ \E g \in Handle : dirent[g].live /\ Has(pointers, dirent[g].disk, b)
                      \/ \E m \in Inum : inode'[m].inuse /\ Has(pointers, inode'[m], b)
                      \/ \E q \in Proc : op'[q].at = "putptr" /\ op'[q].b = b
    BY <1>1 DEF Kept
  <2>1. \/ \E g \in Handle : dirent[g].live /\ Has(pointers, dirent[g].disk, b)
        \/ \E m \in Inum : inode[m].inuse /\ Has(pointers, inode[m], b)
        \/ \E q \in Proc : op[q].at = "putptr" /\ op[q].b = b
    BY DEF Calm, Kept
  <2>2. ASSUME NEW m \in Inum, inode[m].inuse, Has(pointers, inode[m], b)
        PROVE  \/ \E g \in Handle : dirent[g].live /\ Has(pointers, dirent[g].disk, b)
               \/ \E l \in Inum : inode'[l].inuse /\ Has(pointers, inode'[l], b)
    <3>1. CASE m = n
      <4>1. Behind(inode[n], d)
        BY <1>2 DEF Calm, Ahead
      <4>2. Has(pointers, inode[n], b) /\ pointers[0] = NoPointers /\ b # 0
        BY <2>2, <3>1, CalmFacts
      <4> HIDE DEF n, d
      <4>3. Has(pointers, d, b)
        BY <4>1, <4>2, BehindHas
      <4> QED BY <4>3, <1>2 DEF d
    <3>2. CASE m # n
      BY <2>2, <3>2, <1>3
    <3> QED BY <3>1, <3>2
  <2>3. \A q \in Proc : op[q].at = "putptr" => op'[q] = op[q]
    BY <1>1 DEF Goes
  <2> QED BY <2>1, <2>2, <2>3
<1> QED BY <1>6, <1>7, <1>8, <1>9, <1>10 DEF Calm

\* Clearing an indirect block, which has just been taken, loses no block.
LEMMA ZeroCalm ==
  ASSUME DiskAssumption, Typed, NEW w, Sound(w), Calm, NEW p \in Proc, Zero(p)
  PROVE  Calm'
<1> DEFINE o == op[p]
           x == Moved(o, "getptr")
<1>1. /\ UNCHANGED <<bitmap, inode, items, dirent>> /\ o.at = "zero"
      /\ pointers' = [pointers EXCEPT ![o.b] = NoPointers] /\ Goes(p, x)
  BY ZeroFacts DEF Moved
<1>2. o \in Operation /\ pointers \in [Block -> [0..(PerBlock - 1) -> Block]]
  BY <1>1, OpFacts DEF Typed
<1>3. x.at = "getptr" /\ x.h = o.h
  BY <1>2, MovedFacts
<1> HIDE DEF x
<1>4. pointers[o.b] = NoPointers
  BY <1>1, CalmFacts DEF Phase
<1>5. pointers' = pointers
  BY <1>1, <1>2, <1>4
<1>6. SameDirents /\ Strict(o)
  BY <1>1, SameDirentsKept DEF Strict
<1>7. Phase(pointers, items', x, dirent[x.h].disk)
  BY <1>3 DEF Phase
<1>8. Alone(p, x.h)
  BY <1>3, <1>6, CalmFacts
<1> QED BY <1>1, <1>5, <1>6, <1>7, <1>8, CalmQuiet

\* Reading an indirect block loses no block.
LEMMA GetPointerCalm ==
  ASSUME DiskAssumption, Typed, NEW w, Sound(w), Calm, NEW p \in Proc, GetPointer(p)
  PROVE  Calm'
<1> DEFINE o == op[p]
           d == dirent[o.h].disk
           P == pointers[d.indirect]
           j == o.i - Direct
<1>1. /\ UNCHANGED <<bitmap, inode, items, pointers, dirent>> /\ o.at = "getptr" /\ o.i >= Direct
      /\ \/ P[j] = 0 /\ Goes(p, [o EXCEPT !.at = "alloc", !.slot = "pointer", !.ptr = P])
         \/ P[j] # 0 /\ Goes(p, [o EXCEPT !.at = "data", !.b = P[j]])
  BY GetPointerFacts, Zenon
<1>2. o \in Operation /\ SameDirents /\ Strict(o)
  BY <1>1, OpFacts, SameDirentsKept, Zenon DEF Strict
<1>3. Alone(p, o.h)
  BY <1>2, CalmFacts
<1>i. Where(pointers, d, o.i) = P[j]
  <2>1. ~(o.i < Direct)
    BY <1>1, <1>2, Constants, SMTT(20) DEF Operation, Slot
  <2> QED BY <2>1 DEF Where
<1>d. d = dirent[o.h].disk /\ j = o.i - Direct /\ P = pointers[d.indirect]
  OBVIOUS
<1> HIDE DEF d, P, j, o
<1>4. PICK x : Goes(p, x) /\ x.h = o.h /\ Phase(pointers, items, x, d)
  <2>1. CASE P[j] = 0 /\ Goes(p, [o EXCEPT !.at = "alloc", !.slot = "pointer", !.ptr = P])
    <3> DEFINE x == [o EXCEPT !.at = "alloc", !.slot = "pointer", !.ptr = P]
    <3>1. x.at = "alloc" /\ x.slot = "pointer" /\ x.ptr = P /\ x.h = o.h /\ x.i = o.i
      BY <1>2 DEF Operation
    <3>2. Goes(p, x)
      BY <2>1
    <3> HIDE DEF x
    <3>3. Phase(pointers, items, x, d)
      BY <3>1, <1>d, <2>1 DEF Phase
    <3> QED BY <3>1, <3>2, <3>3
  <2>2. CASE P[j] # 0 /\ Goes(p, [o EXCEPT !.at = "data", !.b = P[j]])
    <3> DEFINE x == [o EXCEPT !.at = "data", !.b = P[j]]
    <3>1. x.at = "data" /\ x.b = P[j] /\ x.h = o.h /\ x.i = o.i
      BY <1>2 DEF Operation
    <3>2. Goes(p, x)
      BY <2>2
    <3> HIDE DEF x
    <3>3. Phase(pointers, items, x, d)
      BY <3>1, <1>i DEF Phase
    <3> QED BY <3>1, <3>2, <3>3
  <2> QED BY <1>1, <2>1, <2>2
<1>5. Phase(pointers, items', x, dirent[x.h].disk) /\ Alone(p, x.h)
  BY <1>1, <1>3, <1>4, <1>d
<1> QED BY <1>1, <1>2, <1>4, <1>5, CalmQuiet DEF o

\* diskfs_data_block_alloc: a block is taken and entered in a directory entry or in a buffer.
LEMMA TakenCalm ==
  ASSUME DiskAssumption, Typed, NEW w, Sound(w), Calm, NEW p \in Proc, op[p].at = "alloc",
         NEW b, UNCHANGED <<inode, items, pointers>>, bitmap' = bitmap \cup {b},
         NEW h \in Handle, h = op[p].h, NEW d, dirent'[h].disk = d, Behind(dirent[h].disk, d),
         \A g \in Handle \ {h} : dirent'[g] = dirent[g],
         dirent'[h].live = dirent[h].live, dirent'[h].inum = dirent[h].inum,
         NEW x, Goes(p, x), x.h = h, Phase(pointers, items, x, d),
         Has(pointers, d, b) \/ (x.at = "putptr" /\ x.b = b)
  PROVE  Calm'
<1>1. \A g \in Handle : dirent'[g].live = dirent[g].live /\ dirent'[g].inum = dirent[g].inum
  OBVIOUS
<1>2. /\ Alone(p, h) /\ dirent[h].live /\ pointers[0] = NoPointers
      /\ \A q \in Proc : op[q].at # "user" => op[q].h \in Handle
  BY CalmFacts, OpFacts DEF Strict
<1>3. OneHandle'
  BY <1>1 DEF Calm, OneHandle
<1>4. OnePlacer'
  BY <1>2 DEF Calm, OnePlacer, Alone, Goes
<1>5. Ahead'
  <2> SUFFICES ASSUME NEW g \in Handle, dirent[g].live PROVE Behind(inode[dirent[g].inum], dirent'[g].disk)
    BY <1>1 DEF Ahead
  <2>1. Behind(inode[dirent[g].inum], dirent[g].disk)
    BY DEF Calm, Ahead
  <2>2. CASE g = h
    <3> DEFINE c == inode[dirent[h].inum]
               e == dirent[h].disk
    <3>1. Behind(c, e) /\ Behind(e, d)
      BY <2>1, <2>2
    <3> HIDE DEF c, e
    <3>2. Behind(c, d)
      BY <3>1 DEF Behind
    <3> QED BY <3>2, <2>2 DEF c
  <2>3. CASE g # h
    BY <2>1, <2>3
  <2> QED BY <2>2, <2>3
<1>6. Phases'
  <2> SUFFICES ASSUME NEW q \in Proc, op'[q].at # "user"
               PROVE  Phase(pointers, items, op'[q], dirent'[op'[q].h].disk)
    BY DEF Phases
  <2>1. CASE q = p
    BY <2>1 DEF Goes
  <2>2. CASE q # p /\ op[q].h # h
    <3>1. op'[q] = op[q] /\ op[q].h \in Handle \ {h}
      BY <2>2, <1>2 DEF Goes
    <3> QED BY <3>1, CalmFacts
  <2>3. CASE q # p /\ op[q].h = h
    <3>1. op'[q] = op[q] /\ ~Strict(op[q])
      BY <2>3, <1>2 DEF Goes, Alone
    <3> QED BY <3>1, PhaseRest
  <2> QED BY <2>1, <2>2, <2>3
<1>7. Kept'
  <2> SUFFICES ASSUME NEW c \in (bitmap \cup {b}) \ {0}
               PROVE  \/ \E g \in Handle : dirent'[g].live /\ Has(pointers, dirent'[g].disk, c)
                      \/ \E m \in Inum : inode[m].inuse /\ Has(pointers, inode[m], c)
                      \/ \E q \in Proc : op'[q].at = "putptr" /\ op'[q].b = c
    BY DEF Kept
  <2>1. CASE c = b
    BY <2>1, <1>2 DEF Goes
  <2>2. CASE c # b
    <3>1. \/ \E g \in Handle : dirent[g].live /\ Has(pointers, dirent[g].disk, c)
          \/ \E m \in Inum : inode[m].inuse /\ Has(pointers, inode[m], c)
          \/ \E q \in Proc : op[q].at = "putptr" /\ op[q].b = c
      BY <2>2 DEF Calm, Kept
    <3>2. \A q \in Proc : op[q].at = "putptr" => op'[q] = op[q]
      BY DEF Goes
    <3>3. ASSUME NEW g \in Handle, dirent[g].live, Has(pointers, dirent[g].disk, c)
          PROVE  dirent'[g].live /\ Has(pointers, dirent'[g].disk, c)
      <4>1. CASE g = h
        <5> DEFINE e == dirent[h].disk
        <5>1. Behind(e, d) /\ Has(pointers, e, c) /\ pointers[0] = NoPointers /\ c # 0
          BY <3>3, <4>1, <1>2
        <5> HIDE DEF e
        <5>2. Has(pointers, d, c)
          BY <5>1, BehindHas
        <5> QED BY <5>2, <4>1, <3>3, <1>1
      <4>2. CASE g # h
        BY <3>3, <4>2
      <4> QED BY <4>1, <4>2
    <3> QED BY <3>1, <3>2, <3>3
  <2> QED BY <2>1, <2>2
<1> QED BY <1>3, <1>4, <1>5, <1>6, <1>7 DEF Calm

\* A block that is taken is blank, and so is the block 0 that was in its place.
Enters(d, e, b, x) ==
  /\ Behind(d, e) /\ e.size = d.size
  /\ Phase(pointers, items, x, e) /\ (Has(pointers, e, b) \/ (x.at = "putptr" /\ x.b = b))
  /\ \A k \in Slot, j \in 1..Items : Entry(pointers, items, e, k, j) = Entry(pointers, items, d, k, j)
SameAim(o, x) ==
  x.kind = o.kind /\ x.h = o.h /\ x.name = o.name /\ x.i = o.i /\ x.inum = o.inum /\ x.size = o.size
  /\ x.buf = o.buf

\* The block that was taken is entered as a direct block.
LEMMA EntersDirect ==
  ASSUME DiskAssumption, Typed, NEW w, Sound(w), NEW o \in Operation, NEW d \in InodeRecord,
         Phase(pointers, items, o, d), o.at = "alloc", o.slot = "direct", o.i \in 0..(Direct - 1),
         NEW b \in Block \ (bitmap \cup {0})
  PROVE  LET e == [d EXCEPT !.direct = [d.direct EXCEPT ![o.i] = b]]
             x == [o EXCEPT !.at = "save", !.b = b]
         IN  Enters(d, e, b, x) /\ SameAim(o, x) /\ e \in InodeRecord /\ x.at = "save" /\ x.slot = "direct"
<1> DEFINE e == [d EXCEPT !.direct = [d.direct EXCEPT ![o.i] = b]]
           x == [o EXCEPT !.at = "save", !.b = b]
<1>1. /\ e \in InodeRecord /\ e.direct = [d.direct EXCEPT ![o.i] = b] /\ e.indirect = d.indirect
      /\ e.inuse = d.inuse /\ e.size = d.size /\ d.direct \in [0..(Direct - 1) -> Block]
  BY DEF InodeRecord
<1>2. SameAim(o, x) /\ x.at = "save" /\ x.b = b /\ x.slot = "direct"
  BY DEF Operation, SameAim
<1> HIDE DEF e, x
<1>3. d.direct[o.i] = 0
  BY DEF Phase
<1>4. Behind(d, e)
  BY <1>1, <1>3 DEF Behind
<1>5. Phase(pointers, items, x, e) /\ Has(pointers, e, b)
  BY <1>1, <1>2 DEF Phase, Has, SameAim
<1>6. items[b] = BlankBlock /\ items[0] = BlankBlock
  BY Constants DEF Sound, NewBlocks
<1>7. \A k \in Slot, j \in 1..Items : Entry(pointers, items, e, k, j) = Entry(pointers, items, d, k, j)
  <2> SUFFICES ASSUME NEW k \in Slot
               PROVE  items[Where(pointers, e, k)] = items[Where(pointers, d, k)]
    BY DEF Entry
  <2>1. CASE k = o.i
    BY <2>1, <1>1, <1>3, <1>6, Constants DEF Where
  <2>2. CASE k # o.i
    <3>1. k < Direct => k \in 0..(Direct - 1)
      BY Constants DEF Slot
    <3> QED BY <3>1, <2>2, <1>1 DEF Where
  <2> QED BY <2>1, <2>2
<1>8. Enters(d, e, b, x)
  BY <1>1, <1>4, <1>5, <1>7 DEF Enters
<1> QED BY <1>1, <1>2, <1>8 DEF e, x

\* The block that was taken is entered as the indirect block.
LEMMA EntersIndirect ==
  ASSUME DiskAssumption, Typed, NEW w, Sound(w), NEW o \in Operation, NEW d \in InodeRecord,
         Phase(pointers, items, o, d), o.at = "alloc", o.slot = "indirect",
         NEW b \in Block \ (bitmap \cup {0})
  PROVE  LET e == [d EXCEPT !.indirect = b]
             x == [o EXCEPT !.at = "save", !.b = b]
         IN  Enters(d, e, b, x) /\ SameAim(o, x) /\ e \in InodeRecord /\ x.at = "save" /\ x.slot = "indirect"
<1> DEFINE e == [d EXCEPT !.indirect = b]
           x == [o EXCEPT !.at = "save", !.b = b]
<1>1. e \in InodeRecord /\ e.direct = d.direct /\ e.indirect = b /\ e.inuse = d.inuse /\ e.size = d.size
  BY DEF InodeRecord
<1>2. SameAim(o, x) /\ x.at = "save" /\ x.b = b /\ x.slot = "indirect"
  BY DEF Operation, SameAim
<1> HIDE DEF e, x
<1>3. d.indirect = 0
  BY DEF Phase
<1>4. Behind(d, e)
  BY <1>1, <1>3 DEF Behind
<1>5. pointers[b] = NoPointers /\ pointers[0] = NoPointers
  BY Constants DEF Sound, Placed
<1>6. Phase(pointers, items, x, e) /\ Has(pointers, e, b)
  BY <1>1, <1>2, <1>5 DEF Phase, Has
<1>7. \A k \in Slot, j \in 1..Items : Entry(pointers, items, e, k, j) = Entry(pointers, items, d, k, j)
  BY <1>1, <1>3, <1>5 DEF Entry, Where
<1>8. Enters(d, e, b, x)
  BY <1>1, <1>4, <1>6, <1>7 DEF Enters
<1> QED BY <1>1, <1>2, <1>8 DEF e, x

\* The block that was taken is on its way into the indirect block.
LEMMA EntersPointer ==
  ASSUME DiskAssumption, Typed, NEW w, Sound(w), NEW o \in Operation, NEW d \in InodeRecord,
         Phase(pointers, items, o, d), o.at = "alloc", o.slot = "pointer", o.i - Direct \in 0..(PerBlock - 1),
         NEW b \in Block \ (bitmap \cup {0})
  PROVE  LET x == [o EXCEPT !.at = "putptr", !.b = b, !.ptr = [o.ptr EXCEPT ![o.i - Direct] = b]]
         IN  Enters(d, d, b, x) /\ SameAim(o, x) /\ x.at = "putptr"
<1> DEFINE P == [o.ptr EXCEPT ![o.i - Direct] = b]
           x == [o EXCEPT !.at = "putptr", !.b = b, !.ptr = P]
<1> HIDE DEF P
<1>2. SameAim(o, x) /\ x.at = "putptr" /\ x.b = b /\ x.ptr = P
  BY DEF Operation, SameAim
<1> HIDE DEF x
<1>3. o.ptr = pointers[d.indirect] /\ o.ptr[o.i - Direct] = 0
  BY DEF Phase
<1>4. items[b] = BlankBlock
  BY DEF Sound, NewBlocks
<1>5. Phase(pointers, items, x, d)
  BY <1>2, <1>3, <1>4 DEF Phase, P, SameAim
<1>6. Behind(d, d)
  BY DEF Behind
<1>7. Enters(d, d, b, x)
  BY <1>2, <1>5, <1>6 DEF Enters
<1> QED BY <1>2, <1>7 DEF x, P

\* The ways diskfs_data_block_alloc goes on.
LEMMA AllocCases ==
  ASSUME DiskAssumption, Typed, NEW w, Sound(w), Calm, NEW p \in Proc, Alloc(p)
  PROVE  LET o == op[p]
         IN  /\ UNCHANGED <<inode, items, pointers>> /\ o.at = "alloc" /\ o.h \in Handle
             /\ \/ /\ bitmap' = bitmap /\ dirent' = dirent
                   /\ \/ Creates(o) /\ Goes(p, Finally(o))
                      \/ Goes(p, NoOp)
                \/ \E b \in Block \ (bitmap \cup {0}), e \in InodeRecord : \E x :
                     /\ bitmap' = bitmap \cup {b} /\ Relinked(o.h, e)
                     /\ Goes(p, x) /\ SameAim(o, x) /\ Enters(dirent[o.h].disk, e, b, x)
                     /\ x.at = "putptr" \/ (x.at = "save" /\ x.slot # "final")
<1> DEFINE o == op[p]
           h == o.h
           d == dirent[h].disk
<1>0. UNCHANGED <<inode, items, pointers>> /\ o.at = "alloc"
  BY AllocFacts, Zenon
<1>1. \/ /\ bitmap' = bitmap /\ dirent' = dirent
         /\ \/ Creates(o) /\ Goes(p, [o EXCEPT !.at = "save", !.slot = "final"])
            \/ Goes(p, NoOp)
      \/ \E b \in Block \ (bitmap \cup {0}) :
           /\ bitmap' = bitmap \cup {b}
           /\ \/ /\ o.slot = "direct" /\ o.i \in 0..(Direct - 1)
                 /\ Relinked(h, [d EXCEPT !.direct = [d.direct EXCEPT ![o.i] = b]])
                 /\ Goes(p, [o EXCEPT !.at = "save", !.b = b])
              \/ /\ o.slot = "indirect" /\ Relinked(h, [d EXCEPT !.indirect = b])
                 /\ Goes(p, [o EXCEPT !.at = "save", !.b = b])
              \/ /\ o.slot = "pointer" /\ dirent' = dirent /\ o.i - Direct \in 0..(PerBlock - 1)
                 /\ Goes(p, [o EXCEPT !.at = "putptr", !.b = b,
                                      !.ptr = [o.ptr EXCEPT ![o.i - Direct] = b]])
  BY AllocFacts, Zenon
<1>2. o \in Operation /\ h \in Handle /\ d \in InodeRecord /\ dirent \in [Handle -> Direntry]
  BY <1>0, OpFacts DEF DirOf, Typed
<1>3. Phase(pointers, items, o, d)
  BY <1>0, CalmFacts
<1>9. dirent' = dirent => Relinked(h, d)
  BY <1>2 DEF Relinked, Direntry
<1> HIDE DEF o, h, d
<1>4. CASE /\ bitmap' = bitmap /\ dirent' = dirent
           /\ \/ Creates(o) /\ Goes(p, [o EXCEPT !.at = "save", !.slot = "final"])
              \/ Goes(p, NoOp)
  BY <1>0, <1>2, <1>4 DEF Finally, o, h
<1>5. ASSUME NEW b \in Block \ (bitmap \cup {0}), bitmap' = bitmap \cup {b},
             \/ /\ o.slot = "direct" /\ o.i \in 0..(Direct - 1)
                /\ Relinked(h, [d EXCEPT !.direct = [d.direct EXCEPT ![o.i] = b]])
                /\ Goes(p, [o EXCEPT !.at = "save", !.b = b])
             \/ /\ o.slot = "indirect" /\ Relinked(h, [d EXCEPT !.indirect = b])
                /\ Goes(p, [o EXCEPT !.at = "save", !.b = b])
             \/ /\ o.slot = "pointer" /\ dirent' = dirent /\ o.i - Direct \in 0..(PerBlock - 1)
                /\ Goes(p, [o EXCEPT !.at = "putptr", !.b = b,
                                     !.ptr = [o.ptr EXCEPT ![o.i - Direct] = b]])
      PROVE  \E e \in InodeRecord : \E x :
               /\ Relinked(h, e) /\ Goes(p, x) /\ SameAim(o, x) /\ Enters(d, e, b, x)
               /\ x.at = "putptr" \/ (x.at = "save" /\ x.slot # "final")
  <2>1. CASE /\ o.slot = "direct" /\ o.i \in 0..(Direct - 1)
             /\ Relinked(h, [d EXCEPT !.direct = [d.direct EXCEPT ![o.i] = b]])
             /\ Goes(p, [o EXCEPT !.at = "save", !.b = b])
    <3> DEFINE e == [d EXCEPT !.direct = [d.direct EXCEPT ![o.i] = b]]
               x == [o EXCEPT !.at = "save", !.b = b]
    <3>1. Enters(d, e, b, x) /\ SameAim(o, x) /\ e \in InodeRecord /\ x.at = "save" /\ x.slot = "direct"
      BY <1>0, <1>2, <1>3, <2>1, EntersDirect, Zenon DEF o
    <3>2. Relinked(h, e) /\ Goes(p, x)
      BY <2>1
    <3> HIDE DEF e, x
    <3> QED BY <3>1, <3>2
  <2>2. CASE /\ o.slot = "indirect" /\ Relinked(h, [d EXCEPT !.indirect = b])
             /\ Goes(p, [o EXCEPT !.at = "save", !.b = b])
    <3> DEFINE e == [d EXCEPT !.indirect = b]
               x == [o EXCEPT !.at = "save", !.b = b]
    <3>1. Enters(d, e, b, x) /\ SameAim(o, x) /\ e \in InodeRecord /\ x.at = "save" /\ x.slot = "indirect"
      BY <1>0, <1>2, <1>3, <2>2, EntersIndirect, Zenon DEF o
    <3>2. Relinked(h, e) /\ Goes(p, x)
      BY <2>2
    <3> HIDE DEF e, x
    <3> QED BY <3>1, <3>2
  <2>3. CASE /\ o.slot = "pointer" /\ dirent' = dirent /\ o.i - Direct \in 0..(PerBlock - 1)
             /\ Goes(p, [o EXCEPT !.at = "putptr", !.b = b, !.ptr = [o.ptr EXCEPT ![o.i - Direct] = b]])
    <3> DEFINE x == [o EXCEPT !.at = "putptr", !.b = b, !.ptr = [o.ptr EXCEPT ![o.i - Direct] = b]]
    <3>1. Enters(d, d, b, x) /\ SameAim(o, x) /\ x.at = "putptr"
      BY <1>0, <1>2, <1>3, <2>3, EntersPointer, Zenon DEF o
    <3>2. Relinked(h, d) /\ Goes(p, x)
      BY <2>3, <1>9
    <3> HIDE DEF x
    <3> QED BY <1>2, <3>1, <3>2
  <2> QED BY <1>5, <2>1, <2>2, <2>3
<1>6. CASE \E b \in Block \ (bitmap \cup {0}) :
             /\ bitmap' = bitmap \cup {b}
             /\ \/ /\ o.slot = "direct" /\ o.i \in 0..(Direct - 1)
                   /\ Relinked(h, [d EXCEPT !.direct = [d.direct EXCEPT ![o.i] = b]])
                   /\ Goes(p, [o EXCEPT !.at = "save", !.b = b])
                \/ /\ o.slot = "indirect" /\ Relinked(h, [d EXCEPT !.indirect = b])
                   /\ Goes(p, [o EXCEPT !.at = "save", !.b = b])
                \/ /\ o.slot = "pointer" /\ dirent' = dirent /\ o.i - Direct \in 0..(PerBlock - 1)
                   /\ Goes(p, [o EXCEPT !.at = "putptr", !.b = b,
                                        !.ptr = [o.ptr EXCEPT ![o.i - Direct] = b]])
  <2>1. PICK b \in Block \ (bitmap \cup {0}) :
             /\ bitmap' = bitmap \cup {b}
             /\ \/ /\ o.slot = "direct" /\ o.i \in 0..(Direct - 1)
                   /\ Relinked(h, [d EXCEPT !.direct = [d.direct EXCEPT ![o.i] = b]])
                   /\ Goes(p, [o EXCEPT !.at = "save", !.b = b])
                \/ /\ o.slot = "indirect" /\ Relinked(h, [d EXCEPT !.indirect = b])
                   /\ Goes(p, [o EXCEPT !.at = "save", !.b = b])
                \/ /\ o.slot = "pointer" /\ dirent' = dirent /\ o.i - Direct \in 0..(PerBlock - 1)
                   /\ Goes(p, [o EXCEPT !.at = "putptr", !.b = b,
                                        !.ptr = [o.ptr EXCEPT ![o.i - Direct] = b]])
    BY <1>6, Zenon
  <2>2. \E e \in InodeRecord : \E x :
               /\ Relinked(h, e) /\ Goes(p, x) /\ SameAim(o, x) /\ Enters(d, e, b, x)
               /\ x.at = "putptr" \/ (x.at = "save" /\ x.slot # "final")
    BY <2>1, <1>5, Zenon
  <2> QED BY <1>0, <1>2, <2>1, <2>2 DEF o, h, d
<1> QED BY <1>1, <1>4, <1>6, Zenon

\* A block that is taken is kept: it is in the copy of the inode, or on its way there.
LEMMA AllocCalm ==
  ASSUME DiskAssumption, Typed, NEW w, Sound(w), Calm, NEW p \in Proc, Alloc(p)
  PROVE  Calm'
<1> DEFINE o == op[p]
           h == o.h
<1>1. /\ UNCHANGED <<inode, items, pointers>> /\ o.at = "alloc" /\ h \in Handle
      /\ \/ /\ bitmap' = bitmap /\ dirent' = dirent
            /\ \/ Creates(o) /\ Goes(p, Finally(o))
               \/ Goes(p, NoOp)
         \/ \E b \in Block \ (bitmap \cup {0}), e \in InodeRecord : \E x :
              /\ bitmap' = bitmap \cup {b} /\ Relinked(h, e)
              /\ Goes(p, x) /\ SameAim(o, x) /\ Enters(dirent[h].disk, e, b, x)
  BY AllocCases
<1>2. CASE bitmap' = bitmap /\ dirent' = dirent /\ (Goes(p, Finally(o)) \/ Goes(p, NoOp))
  <2>1. o \in Operation /\ SameDirents
    BY <1>1, <1>2, OpFacts, SameDirentsKept
  <2>2. ~Strict(Finally(o)) /\ ~Strict(NoOp)
    BY <2>1, EndFacts, Idle DEF Strict
  <2>3. PICK x : Goes(p, x) /\ ~Strict(x)
    BY <1>2, <2>2
  <2> QED BY <1>1, <1>2, <2>1, <2>3, RestCalm
<1>3. ASSUME NEW b \in Block \ (bitmap \cup {0}), NEW e \in InodeRecord, NEW x,
             bitmap' = bitmap \cup {b}, Relinked(h, e), Goes(p, x), SameAim(o, x),
             Enters(dirent[h].disk, e, b, x)
      PROVE  Calm'
  <2>1. /\ dirent'[h].disk = e /\ \A g \in Handle \ {h} : dirent'[g] = dirent[g]
        /\ dirent'[h].live = dirent[h].live /\ dirent'[h].inum = dirent[h].inum
    BY <1>1, <1>3, RelinkFacts
  <2>2. /\ Behind(dirent[h].disk, e) /\ Phase(pointers, items, x, e) /\ x.h = h
        /\ Has(pointers, e, b) \/ (x.at = "putptr" /\ x.b = b)
    BY <1>3 DEF Enters, SameAim
  <2> QED BY <1>1, <1>3, <2>1, <2>2, TakenCalm
<1> QED BY <1>1, <1>2, <1>3

\* The indirect block is written back: no other process has one of the same file.
LEMMA PutPointerCalm ==
  ASSUME DiskAssumption, Typed, NEW w, Sound(w), Calm, NEW p \in Proc, PutPointer(p)
  PROVE  /\ Calm'
         /\ LET o == op[p]
                d == dirent[o.h].disk
            IN  \A n \in Inum, e \in InodeRecord, k \in Slot, j \in 1..Items :
                  Conforms(w, bitmap, e, n) => Entry(pointers', items, e, k, j) = Entry(pointers, items, e, k, j)
<1> DEFINE o == op[p]
           h == o.h
           d == dirent[h].disk
           i == o.i - Direct
           x == Moved(o, "data")
<1>1. /\ UNCHANGED <<bitmap, inode, items, dirent>> /\ o.at = "putptr"
      /\ pointers' = [pointers EXCEPT ![d.indirect] = o.ptr] /\ Goes(p, x)
  BY PutPointerFacts DEF Moved
<1>2. /\ o \in Operation /\ Shaped(o) /\ h \in Handle /\ dirent[h].live /\ d \in InodeRecord
      /\ pointers \in [Block -> [0..(PerBlock - 1) -> Block]]
  BY <1>1, OpFacts DEF DirOf, Typed
<1>3. /\ x.at = "data" /\ x.h = h /\ x.b = o.b /\ x.i = o.i /\ Strict(o) /\ Alone(p, h)
  BY <1>1, <1>2, MovedFacts, CalmFacts DEF Strict
<1>4. i \in 0..(PerBlock - 1) /\ o.i >= Direct /\ o.i \in Int
  BY <1>1, <1>2, Constants, SMTT(20) DEF Shaped, Operation, Slot
<1>5. /\ o.ptr = [pointers[d.indirect] EXCEPT ![i] = o.b] /\ pointers[d.indirect][i] = 0
      /\ items[o.b] = BlankBlock
  BY <1>1, CalmFacts, Zenon DEF Phase
<1>6. d.indirect # 0 /\ OpAt(w, bitmap, o, d, dirent[h].inum)
  BY <1>1, SoundFacts DEF OpAt
<1>7. d.indirect \in Block
  BY <1>2 DEF InodeRecord
<1> HIDE DEF x, i, d
<1>8. /\ pointers'[d.indirect][i] = o.b
      /\ \A c \in Block, j \in 0..(PerBlock - 1) :
           c # d.indirect \/ j # i => pointers'[c][j] = pointers[c][j]
      /\ \A c \in Block : c # d.indirect => pointers'[c] = pointers[c]
  BY <1>1, <1>2, <1>4, <1>5, <1>7, ZenonT(40)
<1>9. \A e, c : e.indirect \in Block /\ c # 0 /\ Has(pointers, e, c) => Has(pointers', e, c)
  BY <1>5, <1>8 DEF Has
<1>10. OneHandle' /\ Ahead'
  BY <1>1 DEF Calm, OneHandle, Ahead
<1>11. OnePlacer'
  BY <1>1, <1>3 DEF Calm, OnePlacer, Alone, Goes
<1>12. Phases'
  <2> SUFFICES ASSUME NEW q \in Proc, op'[q].at # "user"
               PROVE  Phase(pointers', items, op'[q], dirent[op'[q].h].disk)
    BY <1>1 DEF Phases
  <2>1. CASE q = p
    <3>1. op'[q] = x /\ dirent[op'[q].h].disk = d
      BY <2>1, <1>1, <1>3 DEF Goes, d
    <3>2. Where(pointers', d, o.i) = o.b
      BY <1>4, <1>8, Constants DEF Where, i
    <3>3. Phase(pointers', items, x, d)
      BY <3>2, <1>3 DEF Phase
    <3> QED BY <3>1, <3>3
  <2>2. CASE q # p /\ ~Strict(op[q])
    <3>1. op'[q] = op[q]
      BY <2>2, <1>1 DEF Goes
    <3> QED BY <3>1, <2>2, PhaseRest
  <2>3. CASE q # p /\ Strict(op[q])
    <3> DEFINE r == op[q]
               e == dirent[r.h].disk
    <3>1. op'[q] = r /\ r.at # "user"
      BY <2>3, <1>1 DEF Goes, Strict
    <3>2. /\ r \in Operation /\ Shaped(r) /\ r.h \in Handle /\ e \in InodeRecord
          /\ dirent[r.h].inum \in Inum /\ dirent[h].inum \in Inum
      BY <3>1, <1>2, OpFacts DEF DirOf, Typed, Direntry
    <3>3. Phase(pointers, items, r, e) /\ Conforms(w, bitmap, e, dirent[r.h].inum)
          /\ Conforms(w, bitmap, d, dirent[h].inum) /\ OpAt(w, bitmap, r, e, dirent[r.h].inum)
      BY <3>1, <3>2, <1>2, CalmFacts, SoundFacts DEF d
    <3>4. dirent[r.h].inum # dirent[h].inum
      BY <2>3, <1>3, CalmFacts
    <3>9. e.indirect \in Block
      BY <3>2 DEF InodeRecord
    <3> HIDE DEF r, e, h
    <3>5. e.indirect # d.indirect
      BY <3>3, <3>4, <1>6 DEF Conforms
    <3>6. pointers'[e.indirect] = pointers[e.indirect]
      BY <3>5, <3>9, <1>8
    <3>7. r.at = "zero" \/ (r.at = "save" /\ r.slot = "indirect") => r.b = e.indirect
      BY <3>3 DEF Phase
    <3>8. Phase(pointers', items, r, e)
      BY <3>3, <3>6, <3>7 DEF Phase, Where
    <3> QED BY <3>1, <3>8 DEF r, e
  <2> QED BY <2>1, <2>2, <2>3
<1>13. Kept'
  <2> SUFFICES ASSUME NEW c \in bitmap \ {0}
               PROVE  \/ \E g \in Handle : dirent[g].live /\ Has(pointers', dirent[g].disk, c)
                      \/ \E m \in Inum : inode[m].inuse /\ Has(pointers', inode[m], c)
                      \/ \E q \in Proc : op'[q].at = "putptr" /\ op'[q].b = c
    BY <1>1 DEF Kept
  <2>1. \/ \E g \in Handle : dirent[g].live /\ Has(pointers, dirent[g].disk, c)
        \/ \E m \in Inum : inode[m].inuse /\ Has(pointers, inode[m], c)
        \/ \E q \in Proc : op[q].at = "putptr" /\ op[q].b = c
    BY DEF Calm, Kept
  <2>2. /\ \A g \in Handle : dirent[g].disk.indirect \in Block
        /\ \A m \in Inum : inode[m].indirect \in Block
    BY DEF Typed, Direntry, InodeRecord
  <2>3. \A q \in Proc : op[q].at = "putptr" /\ q # p => op'[q] = op[q]
    BY <1>1 DEF Goes
  <2>4. Has(pointers', d, o.b)
    BY <1>4, <1>8 DEF Has
  <2> QED BY <2>1, <2>2, <2>3, <2>4, <1>2, <1>9 DEF d
<1>14. ASSUME NEW n \in Inum, NEW e \in InodeRecord, NEW k \in Slot, NEW j \in 1..Items, Conforms(w, bitmap, e, n)
       PROVE  Entry(pointers', items, e, k, j) = Entry(pointers, items, e, k, j)
  <2>1. e.indirect \in Block /\ items[0] = BlankBlock
    BY Constants DEF InodeRecord, Sound, NewBlocks
  <2>2. ~(k < Direct) => k - Direct \in 0..(PerBlock - 1)
    BY Constants DEF Slot
  <2>3. CASE k < Direct
    BY <2>3 DEF Entry, Where
  <2>4. CASE ~(k < Direct) /\ (e.indirect # d.indirect \/ k - Direct # i)
    <3>1. pointers'[e.indirect][k - Direct] = pointers[e.indirect][k - Direct]
      BY <2>1, <2>2, <2>4, <1>8
    <3> QED BY <3>1, <2>4 DEF Entry, Where
  <2>5. CASE ~(k < Direct) /\ e.indirect = d.indirect /\ k - Direct = i
    <3>1. pointers'[e.indirect][k - Direct] = o.b /\ pointers[e.indirect][k - Direct] = 0
      BY <2>5, <1>5, <1>8
    <3> QED BY <3>1, <2>1, <2>5, <1>5 DEF Entry, Where
  <2> QED BY <2>3, <2>4, <2>5
<1>15. Calm'
  BY <1>10, <1>11, <1>12, <1>13 DEF Calm
<1> QED BY <1>14, <1>15

\* Writing a block loses no block.
LEMMA DataCalm ==
  ASSUME DiskAssumption, Typed, NEW w, Sound(w), Calm, NEW p \in Proc, Data(p)
  PROVE  Calm'
<1> DEFINE o == op[p]
<1>1. /\ UNCHANGED <<bitmap, inode, pointers>> /\ SameDirents /\ o.at = "data"
      /\ \/ o.kind = "remove"
         \/ o.kind = "write" /\ Goes(p, NoOp) /\ items' = items
         \/ /\ Creates(o) /\ items' = [items EXCEPT ![o.b] = o.buf]
            /\ \/ Goes(p, Finally(o))
               \/ Goes(p, Loading(o))
  BY DataFacts, Zenon DEF Finally, Loading
<1>2. o.kind # "remove" /\ o \in Operation /\ OpAt(w, bitmap, o, dirent[o.h].disk, dirent[o.h].inum)
  BY <1>1, OpFacts, SoundFacts
<1>3. ~Strict(Finally(o)) /\ ~Strict(Loading(o)) /\ ~Strict(NoOp)
  BY <1>2, EndFacts, Idle DEF Strict
<1>4. PICK x : Goes(p, x) /\ ~Strict(x)
  BY <1>1, <1>2, <1>3
<1>5. \A q \in Proc \ {p} : op[q].at = "putptr" => items'[op[q].b] = items[op[q].b]
  <2>1. CASE items' = items
    BY <2>1
  <2>2. CASE items' = [items EXCEPT ![o.b] = o.buf]
    <3> SUFFICES ASSUME NEW q \in Proc \ {p}, op[q].at = "putptr" PROVE items'[op[q].b] = items[op[q].b]
      OBVIOUS
    <3>1. /\ OpAt(w, bitmap, op[q], dirent[op[q].h].disk, dirent[op[q].h].inum)
          /\ op[q] \in Operation /\ dirent[op[q].h].inum # dirent[o.h].inum
      BY <1>1, OpFacts, SoundFacts, CalmFacts DEF Strict
    <3>2. op[q].b # o.b /\ op[q].b \in Block
      BY <1>1, <1>2, <3>1 DEF OpAt, Operation
    <3> QED BY <2>2, <3>2 DEF Typed
  <2> QED BY <1>1, <1>2, <2>1, <2>2
<1> QED BY <1>1, <1>4, <1>5, RestCalm

\* Every step keeps the copies ahead of the disk and loses no block.
LEMMA NextCalm ==
  ASSUME DiskAssumption, Typed, NEW w, Sound(w), Calm, Next, hurt' \cap {"removed", "alias", "overlap"} = {}
  PROVE  Calm'
<1>1. PICK p \in Proc :
        \/ \E kind \in Ops, h \in Handle, name \in Name : BeginScan(p, kind, h, name)
        \/ \E h \in Handle : Close(p, h) \/ \E k \in Slot : BeginWrite(p, h, k)
        \/ Scan(p) \/ InodeAlloc(p) \/ Add(p) \/ Load(p)
        \/ RemoveDir(p) \/ Free(p) \/ Wipe(p)
        \/ Alloc(p) \/ Save(p) \/ Zero(p) \/ GetPointer(p) \/ PutPointer(p) \/ Data(p)
  BY DEF Next
<1>0. "removed" \notin hurt' /\ "alias" \notin hurt' /\ "overlap" \notin hurt'
  OBVIOUS
<1>2. CASE \E kind \in Ops, h \in Handle, name \in Name : BeginScan(p, kind, h, name)
  BY <1>2, BeginScanCalm
<1>3. CASE \E h \in Handle : Close(p, h) \/ \E k \in Slot : BeginWrite(p, h, k)
  BY <1>0, <1>3, CloseCalm, BeginWriteCalm
<1>4. CASE Scan(p) \/ InodeAlloc(p) \/ Add(p) \/ Load(p)
  BY <1>0, <1>4, ScanCalm, InodeAllocCalm, AddCalm, LoadCalm
<1>5. CASE RemoveDir(p)
  BY <1>0, <1>5, RemoveDirCalm
<1>6. CASE Free(p) \/ Wipe(p)
  <2>1. op[p].at \in {"free", "wipe"}
    BY <1>6, FreeFacts
  <2> QED BY <2>1 DEF Sound, InUse
<1>7. CASE Alloc(p)
  BY <1>7, AllocCalm
<1>8. CASE Save(p) \/ Zero(p) \/ GetPointer(p)
  BY <1>8, SaveCalm, ZeroCalm, GetPointerCalm
<1>9. CASE PutPointer(p) \/ Data(p)
  BY <1>9, PutPointerCalm, DataCalm
<1> QED BY <1>1, <1>2, <1>3, <1>4, <1>5, <1>6, <1>7, <1>8, <1>9

\* On a new volume the one block in use is that of the root directory.
LEMMA InitCalm ==
  ASSUME DiskAssumption, Init
  PROVE  Calm
<1>0. /\ 0 \in Block /\ 1 \in Block /\ 0 \in Inum /\ Root \in Handle /\ Direct \in Nat \ {0}
  BY Constants
<1>1. /\ \A h \in Handle : dirent[h].live <=> h = Root
      /\ dirent[Root].live /\ dirent[Root].inum = 0 /\ dirent[Root].disk = RootInode
      /\ inode[0] = RootInode /\ bitmap = {0, 1} /\ \A p \in Proc : op[p] = NoOp
  BY <1>0 DEF Init, NoDirent
<1>2. \A p \in Proc : op[p].at = "user" /\ ~Strict(op[p])
  BY <1>1, Idle DEF Strict
<1>3. OneHandle /\ OnePlacer /\ Phases
  BY <1>1, <1>2 DEF OneHandle, OnePlacer, Phases
<1>4. Ahead
  <2>1. Behind(RootInode, RootInode)
    BY DEF Behind
  <2> QED BY <2>1, <1>1 DEF Ahead
<1>5. Kept
  <2>1. RootInode.direct[0] = 1
    <3>1. FreshInode.direct = [k \in 0..(Direct - 1) |-> 0]
      BY DEF FreshInode
    <3>2. RootInode.direct = [FreshInode.direct EXCEPT ![0] = 1]
      BY <3>1 DEF RootInode, FreshInode
    <3> QED BY <3>1, <3>2, <1>0
  <2>2. 0 \in 0..(Direct - 1)
    BY <1>0
  <2>3. Has(pointers, RootInode, 1)
    BY <2>1, <2>2 DEF Has
  <2> QED BY <2>3, <1>0, <1>1 DEF Kept
<1> QED BY <1>3, <1>4, <1>5 DEF Calm

\* A second invariant, until an entry is opened twice or two processes place blocks of one inode:
\* each copy of an inode in memory is ahead of the disk, and a block that is taken is kept.
CalmInv == DiskInv /\ (hurt \cap {"removed", "alias", "overlap"} = {} => Calm)
\* In every reachable state that no removal or race of placements preceded, no block is lost.
THEOREM CalmInvHolds == ASSUME DiskAssumption PROVE Spec => []CalmInv
<1>1. Init => CalmInv
  BY InitFacts, InitCalm DEF CalmInv, DiskInv
<1>2. DiskInv /\ DiskInv' /\ CalmInv /\ [Next]_vars => CalmInv'
  <2> SUFFICES ASSUME DiskInv, DiskInv', CalmInv, [Next]_vars, hurt' \cap {"removed", "alias", "overlap"} = {}
               PROVE  Calm'
    BY DEF CalmInv
  <2>1. hurt \cap {"removed", "alias", "overlap"} = {} /\ "removed" \notin hurt /\ Calm /\ Typed
    BY HurtGrows DEF CalmInv, DiskInv
  <2>2. PICK w : Sound(w)
    BY <2>1 DEF DiskInv
  <2>3. CASE Next
    BY <2>1, <2>2, <2>3, NextCalm
  <2>4. CASE UNCHANGED vars
    BY <2>1, <2>4 DEF vars, Calm, OneHandle, OnePlacer, Ahead, Phases, Kept
  <2> QED BY <2>3, <2>4
<1>3. Spec => []DiskInv
  BY DiskInvHolds
<1> QED BY <1>1, <1>2, <1>3, PTL DEF Spec

\* No block is lost: a block that is kept has a place.
LEMMA CalmInvImplies ==
  ASSUME DiskAssumption, CalmInv
  PROVE  NoLeak
<1> SUFFICES ASSUME hurt \subseteq {"full", "twice"}, NEW b \in bitmap \ {0}
             PROVE  \/ \E x \in OnDisk \cup InMemory : x[3] = b
                    \/ \E p \in Proc : op[p].b = b
  BY DEF NoLeak
<1>1. Calm /\ Typed
  BY DEF CalmInv, DiskInv
<1>2. pointers[0] = NoPointers
  <2>1. PICK w : Sound(w)
    BY DEF CalmInv, DiskInv
  <2> QED BY <2>1, <1>1, CalmFacts
<1>3. ASSUME NEW n, NEW d, Has(pointers, d, b) PROVE \E x \in Of(n, d) : x[3] = b
  <2>1. CASE \E k \in 0..(Direct - 1) : d.direct[k] = b
    <3>1. PICK k \in 0..(Direct - 1) : d.direct[k] = b
      BY <2>1
    <3>2. <<n, k, b>> \in Of(n, d)
      BY <3>1 DEF Of
    <3> QED BY <3>2
  <2>2. CASE d.indirect = b
    <3>1. <<n, -1, b>> \in Of(n, d)
      BY <2>2 DEF Of
    <3> QED BY <3>1
  <2>3. CASE \E j \in 0..(PerBlock - 1) : pointers[d.indirect][j] = b
    <3>1. PICK j \in 0..(PerBlock - 1) : pointers[d.indirect][j] = b
      BY <2>3
    <3>2. NoPointers[j] = 0
      BY DEF NoPointers
    <3>3. d.indirect # 0
      BY <3>1, <3>2, <1>2
    <3>4. PICK k \in Direct..(Direct + PerBlock - 1) : k - Direct = j
      <4>1. Direct + j \in Direct..(Direct + PerBlock - 1) /\ (Direct + j) - Direct = j
        BY Constants
      <4> QED BY <4>1
    <3>5. <<n, k, b>> \in Of(n, d)
      BY <3>1, <3>3, <3>4 DEF Of
    <3> QED BY <3>5
  <2> QED BY <1>3, <2>1, <2>2, <2>3 DEF Has
<1>4. ASSUME NEW h \in Handle, dirent[h].live, Has(pointers, dirent[h].disk, b)
      PROVE  \E x \in InMemory : x[3] = b
  <2>1. PICK x \in Of(dirent[h].inum, dirent[h].disk) : x[3] = b
    BY <1>3, <1>4
  <2> QED BY <2>1, <1>4 DEF InMemory
<1>5. ASSUME NEW n \in Inum, inode[n].inuse, Has(pointers, inode[n], b)
      PROVE  \E x \in OnDisk : x[3] = b
  <2>1. PICK x \in Of(n, inode[n]) : x[3] = b
    BY <1>3, <1>5
  <2> QED BY <2>1, <1>5 DEF OnDisk
<1>6. \/ \E h \in Handle : dirent[h].live /\ Has(pointers, dirent[h].disk, b)
      \/ \E n \in Inum : inode[n].inuse /\ Has(pointers, inode[n], b)
      \/ \E p \in Proc : op[p].at = "putptr" /\ op[p].b = b
  BY <1>1 DEF Calm, Kept
<1> QED BY <1>4, <1>5, <1>6

-----------------------------------------------------------------------------
(* A name is in a directory once, unless two processes were adding it as well *)

\* The items of an inode are the same, and its size is no less.
Alike(P, I, d, Q, J, e) ==
  /\ e.size >= d.size
  /\ \A k \in Slot, j \in 1..Items : Entry(Q, J, e, k, j) = Entry(P, I, d, k, j)

\* Places in a directory are natural numbers.
LEMMA PlaceInt ==
  ASSUME DiskAssumption
  PROVE  \A k \in Slot, j \in 1..Items : k \in Nat /\ j \in Nat /\ k * Items \in Nat /\ k * Items + j \in Nat
<1>1. Items \in Nat /\ \A k \in Slot : k \in Nat
  BY Constants DEF Slot
<1>2. \A x, y \in Nat : x * y \in Nat
  OBVIOUS
<1>3. \A k \in Slot : k * Items \in Nat
  BY <1>1, <1>2
<1> QED BY <1>1, <1>3

\* What holds of the items of an inode holds of one with the same items.
LEMMA AlikeFacts ==
  ASSUME DiskAssumption, NEW P, NEW I, NEW d \in InodeRecord, NEW Q, NEW J, NEW e \in InodeRecord,
         Alike(P, I, d, Q, J, e)
  PROVE  /\ Sized(P, I, d) => Sized(Q, J, e)
         /\ Unique(P, I, d) => Unique(Q, J, e)
         /\ \A name : Absent(P, I, d, name) => Absent(Q, J, e, name)
         /\ \A o \in Operation : Adding(P, I, o, d) => Adding(Q, J, o, e)
<1>1. /\ d.size \in Nat /\ e.size \in Nat /\ d.size <= e.size
      /\ \A k \in Slot, j \in 1..Items : Entry(Q, J, e, k, j) = Entry(P, I, d, k, j)
  BY Constants DEF Alike, InodeRecord
<1>2. ASSUME Sized(P, I, d) PROVE Sized(Q, J, e)
  <2> SUFFICES ASSUME NEW k \in Slot, NEW j \in 1..Items, Entry(Q, J, e, k, j).name # "none"
               PROVE  k * Items + j <= e.size
    BY DEF Sized
  <2>1. k * Items + j <= d.size /\ k * Items + j \in Nat
    BY <1>1, <1>2, PlaceInt DEF Sized
  <2> QED BY <2>1, <1>1
<1>3. ASSUME Unique(P, I, d) PROVE Unique(Q, J, e)
  BY <1>1, <1>3 DEF Unique
<1>4. ASSUME NEW name, Absent(P, I, d, name) PROVE Absent(Q, J, e, name)
  BY <1>1, <1>4 DEF Absent
<1>5. ASSUME NEW o \in Operation, Adding(P, I, o, d) PROVE Adding(Q, J, o, e)
  <2>1. o.at = "scan" => \A k \in Slot, j \in 1..Items :
                            k < o.i \/ k >= o.n => Entry(Q, J, e, k, j).name # o.name
    BY <1>1, <1>5 DEF Adding
  <2>2. o.at \in {"ialloc", "add"} \/ Strict(o) => Absent(Q, J, e, o.name)
    BY <1>4, <1>5 DEF Adding
  <2>3. ASSUME Strict(o) PROVE Carries(Q, J, o, e)
    <3>1. PICK t \in 1..Items :
            /\ o.buf[t] = TheItem(o)
            /\ \A j \in 1..Items \ {t} : o.buf[j] \in {Blank, Entry(P, I, d, o.i, j)}
            /\ o.size = -1 => t = 1 /\ o.i * Items + 1 <= d.size
            /\ o.size # -1 => o.size = o.i * Items + t
      BY <2>3, <1>5 DEF Adding, Carries
    <3>2. o.i \in Slot /\ 1 \in 1..Items
      BY Constants DEF Operation
    <3>3. o.i * Items + 1 \in Nat
      BY <3>2, PlaceInt
    <3>4. o.i * Items + 1 <= d.size => o.i * Items + 1 <= e.size
      BY <3>3, <1>1
    <3> QED BY <3>1, <3>2, <3>4, <1>1 DEF Carries
  <2> QED BY <2>1, <2>2, <2>3 DEF Adding
<1> QED BY <1>2, <1>3, <1>4, <1>5

\* The same blocks have the same items.
LEMMA AlikeSame ==
  ASSUME DiskAssumption, NEW P, NEW I, NEW d \in InodeRecord, NEW e \in InodeRecord,
         e.direct = d.direct, e.indirect = d.indirect, e.size >= d.size
  PROVE  Alike(P, I, d, P, I, e)
BY SameBlocks DEF Alike, Entry

\* A step that changes no item of a directory.
LEMMA ListsQuiet ==
  ASSUME DiskAssumption, Typed, Typed', Directories, AllAdding, NEW p \in Proc, NEW x, Goes(p, x),
         \A h \in Handle : /\ dirent'[h].live = dirent[h].live /\ dirent'[h].inum = dirent[h].inum
                           /\ dirent[h].live =>
                                Alike(pointers, items, dirent[h].disk, pointers', items', dirent'[h].disk),
         \A n \in Inum : \/ Alike(pointers, items, inode[n], pointers', items', inode'[n])
                         \/ Sized(pointers', items', inode'[n]) /\ Unique(pointers', items', inode'[n])
                         \/ \E h \in Handle : dirent[h].live /\ dirent[h].inum = n,
         x.at # "user" /\ Creates(x) => Adding(pointers', items', x, dirent'[x.h].disk)
  PROVE  Directories' /\ AllAdding'
<1>0. /\ \A h \in Handle : dirent[h].disk \in InodeRecord /\ dirent'[h].disk \in InodeRecord
      /\ \A n \in Inum : inode[n] \in InodeRecord /\ inode'[n] \in InodeRecord
  BY DEF Typed, Direntry
<1>1. ASSUME NEW h \in Handle, dirent'[h].live
      PROVE  Sized(pointers', items', dirent'[h].disk) /\ Unique(pointers', items', dirent'[h].disk)
  <2>1. Sized(pointers, items, dirent[h].disk) /\ Unique(pointers, items, dirent[h].disk)
    BY <1>1 DEF Directories
  <2>2. Alike(pointers, items, dirent[h].disk, pointers', items', dirent'[h].disk)
    BY <1>1
  <2> QED BY <2>1, <2>2, <1>0, AlikeFacts
<1>2. ASSUME NEW n \in Inum, \A h \in Handle : dirent'[h].live => dirent'[h].inum # n
      PROVE  Sized(pointers', items', inode'[n]) /\ Unique(pointers', items', inode'[n])
  <2>1. \A h \in Handle : dirent[h].live => dirent[h].inum # n
    BY <1>2
  <2>2. Sized(pointers, items, inode[n]) /\ Unique(pointers, items, inode[n])
    BY <2>1 DEF Directories
  <2>3. \/ Alike(pointers, items, inode[n], pointers', items', inode'[n])
        \/ Sized(pointers', items', inode'[n]) /\ Unique(pointers', items', inode'[n])
    BY <2>1
  <2> QED BY <2>2, <2>3, <1>0, AlikeFacts
<1>3. ASSUME NEW q \in Proc, op'[q].at # "user", Creates(op'[q])
      PROVE  Adding(pointers', items', op'[q], dirent'[op'[q].h].disk)
  <2>1. CASE q = p
    BY <2>1, <1>3 DEF Goes
  <2>2. CASE q # p
    <3>1. op'[q] = op[q] /\ op[q] \in Operation /\ op[q].h \in Handle /\ dirent[op[q].h].live
      BY <2>2, <1>3, OpFacts DEF Goes
    <3>2. Adding(pointers, items, op[q], dirent[op[q].h].disk)
      BY <3>1, <1>3 DEF AllAdding
    <3>3. Alike(pointers, items, dirent[op[q].h].disk, pointers', items', dirent'[op[q].h].disk)
      BY <3>1
    <3> QED BY <3>1, <3>2, <3>3, <1>0, AlikeFacts
  <2> QED BY <2>1, <2>2
<1> QED BY <1>1, <1>2, <1>3 DEF Directories, AllAdding

\* A step that leaves the disk alone, or takes an inode that was not in use.
LEMMA ListsKept ==
  ASSUME DiskAssumption, Typed, Typed', NEW w, Sound(w), Directories, AllAdding, NEW p \in Proc, NEW x, Goes(p, x),
         SameDirents, UNCHANGED <<items, pointers>>, \A n \in Inum : inode'[n] \in {inode[n], FreshInode},
         x.at # "user" /\ Creates(x) => Adding(pointers, items, x, dirent'[x.h].disk)
  PROVE  Directories' /\ AllAdding'
<1>0. /\ \A h \in Handle : dirent[h].disk \in InodeRecord /\ dirent'[h].disk \in InodeRecord
      /\ \A n \in Inum : inode[n] \in InodeRecord /\ inode'[n] \in InodeRecord
  BY DEF Typed, Direntry
<1>1. ASSUME NEW h \in Handle
      PROVE  /\ dirent'[h].live = dirent[h].live /\ dirent'[h].inum = dirent[h].inum
             /\ Alike(pointers, items, dirent[h].disk, pointers', items', dirent'[h].disk)
  BY <1>0, AlikeSame DEF SameDirents
<1>2. Sized(pointers, items, FreshInode) /\ Unique(pointers, items, FreshInode)
  <2>1. items[0] = BlankBlock /\ pointers[0] = NoPointers
    BY Constants DEF Sound, NewBlocks, Placed
  <2>2. \A k \in Slot : Where(pointers, FreshInode, k) = 0
    <3>1. FreshInode.direct = [k \in 0..(Direct - 1) |-> 0] /\ FreshInode.indirect = 0
      BY DEF FreshInode
    <3>2. \A k \in Slot : /\ k < Direct => k \in 0..(Direct - 1)
                          /\ ~(k < Direct) => k - Direct \in 0..(PerBlock - 1)
      BY Constants DEF Slot
    <3>3. \A j \in 0..(PerBlock - 1) : NoPointers[j] = 0
      BY DEF NoPointers
    <3> QED BY <3>1, <3>2, <3>3, <2>1 DEF Where
  <2>3. \A k \in Slot, j \in 1..Items : Entry(pointers, items, FreshInode, k, j).name = "none"
    <3>1. \A j \in 1..Items : BlankBlock[j].name = "none"
      BY DEF BlankBlock, Blank
    <3> QED BY <3>1, <2>1, <2>2 DEF Entry
  <2> QED BY <2>3 DEF Sized, Unique
<1>3. ASSUME NEW n \in Inum
      PROVE  \/ Alike(pointers, items, inode[n], pointers', items', inode'[n])
             \/ Sized(pointers', items', inode'[n]) /\ Unique(pointers', items', inode'[n])
  <2>1. CASE inode'[n] = inode[n]
    <3>1. inode[n].size >= inode[n].size
      BY <1>0, Constants DEF InodeRecord
    <3> QED BY <2>1, <3>1, <1>0, AlikeSame
  <2>2. CASE inode'[n] = FreshInode
    BY <2>2, <1>2
  <2> QED BY <2>1, <2>2
<1>4. x.at # "user" /\ Creates(x) => Adding(pointers', items', x, dirent'[x.h].disk)
  OBVIOUS
<1> QED BY <1>1, <1>3, <1>4, ListsQuiet

\* An operation that ends asks nothing of the items.
LEMMA AddingRest ==
  ASSUME NEW x, ~Strict(x), x.at \notin {"scan", "ialloc", "add"}, NEW P, NEW I, NEW d
  PROVE  Adding(P, I, x, d)
BY DEF Adding

\* The block of a new item is placed.
LEMMA AddingPlaced ==
  ASSUME DiskAssumption, NEW y \in Operation, y.h \in Handle, NEW d \in InodeRecord,
         Creates(y), y.name \in Name, NEW P, NEW I, NEW e, Absent(P, I, e, y.name), Carries(P, I, y, e)
  PROVE  Adding(P, I, Place(y, d), e) /\ Place(y, d).h = y.h
<1> DEFINE r == Place(y, d)
<1>1. y.kind \in {"mkfile", "mkdir", "write", "remove"}
  BY DEF Creates
<1>2. /\ Strict(r) /\ r.h = y.h /\ r.kind = y.kind /\ r.name = y.name /\ r.i = y.i /\ r.inum = y.inum
      /\ r.size = y.size /\ r.buf = y.buf
  BY <1>1, PlaceFacts
<1>3. r.at \notin {"scan"}
  BY <1>2 DEF Strict
<1> HIDE DEF r
<1>4. TheItem(r) = TheItem(y)
  BY <1>2 DEF TheItem
<1>5. Carries(P, I, r, e)
  BY <1>2, <1>4 DEF Carries
<1>6. Adding(P, I, r, e)
  BY <1>2, <1>3, <1>5 DEF Adding
<1> QED BY <1>2, <1>6 DEF r

\* Beginning to read a directory, no block was passed by yet.
LEMMA BeginScanLists ==
  ASSUME DiskAssumption, Typed, NEW w, Sound(w), Directories, AllAdding, NEW p \in Proc,
         NEW kind \in Ops, NEW h \in Handle, NEW name \in Name, BeginScan(p, kind, h, name)
  PROVE  Directories' /\ AllAdding'
<1> DEFINE o == ScanOp(kind, h, name)
           d == dirent[h].disk
<1>1. /\ Typed' /\ o \in Operation /\ dirent[h].live /\ o.i = 0 /\ o.at = "scan" /\ o.h = h /\ o.name = name
      /\ o.n = Blocks(d.size) /\ UNCHANGED <<bitmap, inode, items, pointers, dirent>>
      /\ \/ Goes(p, o)
         \/ o.n = 0 /\ Goes(p, [o EXCEPT !.at = "ialloc"])
         \/ Goes(p, NoOp)
  BY BeginScanFacts
<1>2. SameDirents /\ d \in InodeRecord /\ name # "none"
  BY <1>1, SameDirentsKept DEF Typed, Direntry, DiskAssumption
<1>3. \A k \in Slot, j \in 1..Items : k >= Blocks(d.size) => Entry(pointers, items, d, k, j).name # name
  <2> SUFFICES ASSUME NEW k \in Slot, NEW j \in 1..Items, k >= Blocks(d.size),
                      Entry(pointers, items, d, k, j).name # "none"
               PROVE  FALSE
    BY <1>2
  <2>1. k * Items + j <= d.size /\ k \in Nat /\ k * Items \in Nat /\ j \in 1..Items /\ d.size \in 0..Capacity
    BY <1>1, <1>2, PlaceInt DEF Directories, Sized, InodeRecord
  <2>5. Blocks(d.size) \in 0..(Direct + PerBlock)
    BY <2>1, BlocksFacts
  <2>2. ~(k < Blocks(d.size))
    <3> HIDE DEF d
    <3>1. Blocks(d.size) \in Int
      BY <2>5, Constants
    <3> QED BY <2>1, <3>1
  <2>3. ~(k * Items < d.size)
    BY <2>1, <2>2, BlocksFacts
  <2>4. d.size \in Nat /\ j \in Nat /\ j > 0
    BY <2>1, Constants
  <2> QED BY <2>1, <2>3, <2>4
<1> HIDE DEF o, d
<1>4. PICK x : Goes(p, x) /\ (x.at # "user" => Adding(pointers, items, x, d) /\ x.h = h)
  <2>1. CASE Goes(p, o)
    <3>1. ~Strict(o)
      BY <1>1 DEF Strict
    <3>3. \A k \in Slot : ~(k < o.i)
      BY <1>1, Constants DEF Slot
    <3>2. Adding(pointers, items, o, d)
      BY <3>1, <3>3, <1>1, <1>3 DEF Adding
    <3> QED BY <2>1, <3>2, <1>1
  <2>2. CASE o.n = 0 /\ Goes(p, [o EXCEPT !.at = "ialloc"])
    <3> DEFINE x == [o EXCEPT !.at = "ialloc"]
    <3>1. x.at = "ialloc" /\ x.name = name /\ x.h = h
      BY <1>1 DEF Operation
    <3>2. Goes(p, x)
      BY <2>2
    <3> HIDE DEF x
    <3>3. ~Strict(x)
      BY <3>1 DEF Strict
    <3>4. Absent(pointers, items, d, name)
      <4>1. \A k \in Slot : k \in Nat
        BY PlaceInt, Constants DEF Slot
      <4>2. \A k \in Slot : k >= Blocks(d.size)
        BY <4>1, <1>1, <2>2
      <4> QED BY <4>2, <1>3 DEF Absent
    <3>5. Adding(pointers, items, x, d)
      BY <3>1, <3>3, <3>4 DEF Adding
    <3> QED BY <3>1, <3>2, <3>5
  <2>3. CASE Goes(p, NoOp)
    BY <2>3, Idle
  <2> QED BY <1>1, <2>1, <2>2, <2>3
<1>5. x.at # "user" /\ Creates(x) => Adding(pointers, items, x, dirent'[x.h].disk)
  BY <1>1, <1>4 DEF d
<1> QED BY <1>1, <1>2, <1>4, <1>5, ListsKept

\* Beginning to write a file changes no item.
LEMMA BeginWriteLists ==
  ASSUME DiskAssumption, Typed, NEW w, Sound(w), Directories, AllAdding, NEW p \in Proc,
         NEW h \in Handle, NEW k \in Slot, BeginWrite(p, h, k)
  PROVE  Directories' /\ AllAdding'
<1> DEFINE o == WriteOp(h, k)
           x == Place(o, dirent[h].disk)
<1>1. /\ Typed' /\ SameDirents /\ UNCHANGED <<bitmap, inode, items, pointers>>
      /\ o \in Operation /\ Goes(p, x)
      /\ o.kind = "write" /\ o.h = h /\ ~Creates(o)
  BY BeginWriteFacts
<1>2. dirent[h].disk \in InodeRecord
  BY DEF Typed, Direntry
<1> HIDE DEF o
<1>3. ~Creates(x)
  <2>1. x.kind = o.kind
    BY <1>1, <1>2, PlaceFacts
  <2> HIDE DEF x
  <2> QED BY <2>1, <1>1 DEF Creates
<1> HIDE DEF x
<1> QED BY <1>1, <1>3, ListsKept

\* The block that was read does not have the name, so it is in no block that was passed by.
LEMMA ScanLists ==
  ASSUME DiskAssumption, Typed, NEW w, Sound(w), Directories, AllAdding, NEW p \in Proc, Scan(p),
         "removed" \notin hurt'
  PROVE  Directories' /\ AllAdding'
<1> DEFINE o == op[p]
           d == dirent[o.h].disk
           b == Where(pointers, d, o.i)
<1>1. /\ Typed' /\ UNCHANGED <<bitmap, inode, items, pointers, dirent>> /\ o.at = "scan"
      /\ \/ Goes(p, NoOp)
         \/ \E j \in 1..Items, kind \in {"open", "opendir"} :
              Goes(p, [o EXCEPT !.at = "load", !.inum = items[b][j].inum, !.kind = kind])
         \/ \E j \in 1..Items :
              Goes(p, [o EXCEPT !.at = "rmdir", !.inum = items[b][j].inum,
                                !.buf = [items[b] EXCEPT ![j] = Blank]])
         \/ /\ \A j \in 1..Items : items[b][j].name # o.name
            /\ \/ Goes(p, [o EXCEPT !.i = o.i + 1])
               \/ o.i + 1 >= o.n /\ Goes(p, [o EXCEPT !.at = "ialloc"])
  BY ScanFacts, Zenon DEF DirOf
<1>2. o \in Operation /\ SameDirents
  BY <1>1, OpFacts, SameDirentsKept, Zenon
<1>3. Creates(o) => Adding(pointers, items, o, d)
  BY <1>1, Zenon DEF AllAdding
<1>4. Creates(o) => \A k \in Slot, j \in 1..Items :
                      k < o.i \/ k >= o.n => Entry(pointers, items, d, k, j).name # o.name
  BY <1>1, <1>3, Zenon DEF Adding
<1>5. \A k \in Slot : k \in Int /\ o.i \in Int /\ o.n \in Int
  BY <1>2, Constants, SMTT(20) DEF Operation, Slot
<1>6. \A j \in 1..Items : Entry(pointers, items, d, o.i, j) = items[b][j]
  BY DEF Entry
<1>7. d = dirent[o.h].disk
  OBVIOUS
<1> HIDE DEF b, d
<1>8. PICK x : Goes(p, x) /\ (x.at # "user" /\ Creates(x) => Adding(pointers, items, x, d) /\ x.h = o.h)
  <2> HIDE DEF o
  <2>1. CASE Goes(p, NoOp)
    BY <2>1, Idle
  <2>2. ASSUME NEW j, NEW kind, NEW x, x = [o EXCEPT !.at = "load", !.inum = items[b][j].inum, !.kind = kind]
        PROVE  Adding(pointers, items, x, d) /\ x.h = o.h
    <3>1. x.at = "load" /\ x.h = o.h
      BY <1>2, <2>2 DEF Operation
    <3> QED BY <3>1, AddingRest DEF Strict
  <2>3. ASSUME NEW j, NEW x, x = [o EXCEPT !.at = "rmdir", !.inum = items[b][j].inum,
                                           !.buf = [items[b] EXCEPT ![j] = Blank]]
        PROVE  Adding(pointers, items, x, d) /\ x.h = o.h
    <3>1. x.at = "rmdir" /\ x.h = o.h
      BY <1>2, <2>3 DEF Operation
    <3> QED BY <3>1, AddingRest DEF Strict
  <2>4. ASSUME NEW x, x = [o EXCEPT !.i = o.i + 1], Creates(x), \A j \in 1..Items : items[b][j].name # o.name
        PROVE  Adding(pointers, items, x, d) /\ x.h = o.h
    <3>1. x.at = "scan" /\ x.h = o.h /\ x.kind = o.kind /\ x.i = o.i + 1 /\ x.n = o.n /\ x.name = o.name
      BY <1>1, <1>2, <2>4, Zenon DEF Operation, o
    <3>2. Creates(o) /\ ~Strict(x)
      BY <3>1, <2>4 DEF Creates, Strict
    <3>3. \A k \in Slot, j \in 1..Items :
            k < x.i \/ k >= x.n => Entry(pointers, items, d, k, j).name # x.name
      <4> SUFFICES ASSUME NEW k \in Slot, NEW j \in 1..Items, k < x.i \/ k >= x.n
                   PROVE  Entry(pointers, items, d, k, j).name # x.name
        OBVIOUS
      <4>1. k < o.i \/ k >= o.n \/ k = o.i
        BY <3>1, <1>5
      <4> QED BY <4>1, <3>1, <3>2, <1>4, <1>6, <2>4
    <3> QED BY <3>1, <3>2, <3>3 DEF Adding
  <2>5. ASSUME NEW x, x = [o EXCEPT !.at = "ialloc"], Creates(x), \A j \in 1..Items : items[b][j].name # o.name,
               o.i + 1 >= o.n
        PROVE  Adding(pointers, items, x, d) /\ x.h = o.h
    <3>1. x.at = "ialloc" /\ x.h = o.h /\ x.kind = o.kind /\ x.name = o.name
      BY <1>2, <2>5 DEF Operation
    <3>2. Creates(o) /\ ~Strict(x)
      BY <3>1, <2>5 DEF Creates, Strict
    <3>3. Absent(pointers, items, d, x.name)
      <4> SUFFICES ASSUME NEW k \in Slot, NEW j \in 1..Items
                   PROVE  Entry(pointers, items, d, k, j).name # x.name
        BY DEF Absent
      <4>1. k < o.i \/ k >= o.n \/ k = o.i
        BY <2>5, <1>5
      <4> QED BY <4>1, <3>1, <3>2, <1>4, <1>6, <2>5
    <3> QED BY <3>1, <3>2, <3>3 DEF Adding
  <2>6. CASE \E j \in 1..Items, kind \in {"open", "opendir"} :
               Goes(p, [o EXCEPT !.at = "load", !.inum = items[b][j].inum, !.kind = kind])
    BY <2>2, <2>6, Zenon
  <2>7. CASE \E j \in 1..Items :
               Goes(p, [o EXCEPT !.at = "rmdir", !.inum = items[b][j].inum,
                                 !.buf = [items[b] EXCEPT ![j] = Blank]])
    BY <2>3, <2>7, Zenon
  <2>8. CASE /\ \A j \in 1..Items : items[b][j].name # o.name
             /\ Goes(p, [o EXCEPT !.i = o.i + 1])
    BY <2>4, <2>8
  <2>9. CASE /\ \A j \in 1..Items : items[b][j].name # o.name
             /\ o.i + 1 >= o.n /\ Goes(p, [o EXCEPT !.at = "ialloc"])
    BY <2>5, <2>9
  <2> QED BY <1>1, <2>1, <2>6, <2>7, <2>8, <2>9, Zenon DEF o
<1>9. x.at # "user" /\ Creates(x) => Adding(pointers, items, x, dirent'[x.h].disk)
  BY <1>1, <1>7, <1>8, Zenon
<1> QED BY <1>1, <1>2, <1>8, <1>9, ListsKept, Zenon

\* The directory grows by the item that is to be added.
LEMMA GrowLists ==
  ASSUME DiskAssumption, Typed, Typed', NEW w, Sound(w), Directories, AllAdding, NEW p \in Proc, NEW o \in Operation,
         o.h \in Handle, dirent[o.h].live, Creates(o), o.name \in Name, Grow(p, o),
         UNCHANGED <<items, pointers>>, \A n \in Inum : inode'[n] \in {inode[n], FreshInode},
         Absent(pointers, items, dirent[o.h].disk, o.name), o.n * Items <= dirent[o.h].disk.size
  PROVE  Directories' /\ AllAdding'
<1> DEFINE y == Grown(o)
           d == dirent[o.h].disk
           e == dirent'[o.h].disk
           x == Place(y, d)
<1>1. /\ SameDirents /\ Goes(p, x) /\ e.size = d.size + 1 /\ o.n \in Slot
      /\ y \in Operation /\ y.kind = o.kind /\ y.h = o.h /\ y.name = o.name /\ y.inum = o.inum /\ y.i = o.n
      /\ y.size = -1 /\ y.buf = [BlankBlock EXCEPT ![1] = TheItem(o)]
  BY GrowFacts DEF DirOf
<1>2. d \in InodeRecord /\ e \in InodeRecord /\ e.direct = d.direct /\ e.indirect = d.indirect
  BY <1>1 DEF Typed, Direntry, SameDirents
<1>3. d.size \in Nat /\ 1 \in 1..Items
  BY <1>2, Constants DEF InodeRecord
<1>4. Creates(y) /\ TheItem(y) = TheItem(o)
  BY <1>1 DEF Creates, TheItem
<1>5. /\ y.buf[1] = TheItem(y)
      /\ \A j \in 1..Items \ {1} : y.buf[j] = Blank
  BY <1>1, <1>3, <1>4 DEF BlankBlock
<1>6. y.i * Items + 1 <= e.size
  <2>1. o.n * Items \in Nat
    BY <1>1, PlaceInt, <1>3
  <2> QED BY <2>1, <1>1, <1>3
<1>d. d = dirent[o.h].disk /\ e = dirent'[o.h].disk
  OBVIOUS
<1> HIDE DEF y, d, e
<1>7. Carries(pointers, items, y, e)
  BY <1>1, <1>3, <1>5, <1>6 DEF Carries
<1>8. Absent(pointers, items, e, y.name)
  <2>1. Alike(pointers, items, d, pointers, items, e)
    <3>1. e.size >= d.size
      BY <1>1, <1>3
    <3> QED BY <3>1, <1>2, AlikeSame
  <2> QED BY <2>1, <1>1, <1>2, <1>d, AlikeFacts
<1>9. Adding(pointers, items, x, e) /\ x.h = o.h
  <2>1. Adding(pointers, items, Place(y, d), e) /\ Place(y, d).h = y.h
    BY <1>1, <1>2, <1>4, <1>7, <1>8, AddingPlaced
  <2> QED BY <2>1, <1>1
<1> HIDE DEF x
<1>10. x.at # "user" /\ Creates(x) => Adding(pointers, items, x, dirent'[x.h].disk)
  BY <1>9, <1>d
<1> QED BY <1>1, <1>10, ListsKept

\* The inode that is taken has no items, and the name is still not there.
LEMMA InodeAllocLists ==
  ASSUME DiskAssumption, Typed, NEW w, Sound(w), Directories, AllAdding, NEW p \in Proc, InodeAlloc(p)
  PROVE  Directories' /\ AllAdding'
<1>1. /\ Typed' /\ SameDirents /\ UNCHANGED <<bitmap, items, pointers>> /\ op[p].at = "ialloc"
      /\ \/ UNCHANGED <<inode, dirent, hurt>> /\ Goes(p, NoOp)
         \/ \E n \in Inum :
              LET o == [op[p] EXCEPT !.at = "add", !.inum = n, !.i = 0, !.n = Blocks(DirOf(op[p]).size)]
              IN  /\ ~inode[n].inuse /\ inode' = [inode EXCEPT ![n] = FreshInode] /\ o \in Operation
                  /\ \/ o.n # 0 /\ Goes(p, o) /\ UNCHANGED <<dirent, hurt>>
                     \/ o.n = 0 /\ Grow(p, o)
  BY InodeAllocFacts, Zenon
<1>2. CASE UNCHANGED <<inode, dirent, hurt>> /\ Goes(p, NoOp)
  <2>1. NoOp.at = "user" /\ \A n \in Inum : inode'[n] \in {inode[n], FreshInode}
    BY <1>2, Idle
  <2> QED BY <2>1, <1>1, <1>2, ListsKept
<1>3. ASSUME NEW n \in Inum, NEW o \in Operation,
             o = [op[p] EXCEPT !.at = "add", !.inum = n, !.i = 0, !.n = Blocks(DirOf(op[p]).size)],
             inode' = [inode EXCEPT ![n] = FreshInode],
             \/ o.n # 0 /\ Goes(p, o) /\ UNCHANGED <<dirent, hurt>>
             \/ o.n = 0 /\ Grow(p, o)
      PROVE  Directories' /\ AllAdding'
  <2>1. op[p] \in Operation /\ Shaped(op[p]) /\ op[p].h \in Handle /\ dirent[op[p].h].live
    BY <1>1, OpFacts, Zenon
  <2>2. o.at = "add" /\ o.h = op[p].h /\ o.name = op[p].name /\ o.kind = op[p].kind
    BY <1>3, <2>1 DEF Operation
  <2>3. Creates(o) /\ o.name \in Name /\ Creates(op[p])
    BY <2>1, <2>2, <1>1, Zenon DEF Shaped, Creates
  <2>4. \A m \in Inum : inode'[m] \in {inode[m], FreshInode}
    BY <1>3 DEF Typed
  <2>5. Absent(pointers, items, dirent[o.h].disk, o.name)
    <3>1. Adding(pointers, items, op[p], dirent[op[p].h].disk)
      BY <2>3, <1>1, Zenon DEF AllAdding
    <3> QED BY <3>1, <2>2, <1>1, Zenon DEF Adding
  <2>6. CASE o.n = 0 /\ Grow(p, o)
    <3>1. o.n * Items <= dirent[o.h].disk.size
      <4>1. dirent[o.h].disk.size \in Nat
        <5>1. dirent[op[p].h].disk \in InodeRecord
          BY <2>1 DEF Typed, Direntry
        <5> QED BY <5>1, <2>2, Constants DEF InodeRecord
      <4> QED BY <4>1, <2>6, Constants
    <3> QED BY <1>1, <2>1, <2>2, <2>3, <2>4, <2>5, <2>6, <3>1, GrowLists, Zenon
  <2>7. CASE Goes(p, o) /\ dirent' = dirent
    <3>1. ~Strict(o)
      BY <2>2 DEF Strict
    <3>2. Adding(pointers, items, o, dirent[o.h].disk)
      BY <3>1, <2>2, <2>5 DEF Adding
    <3>3. o.at # "user" /\ Creates(o) => Adding(pointers, items, o, dirent'[o.h].disk)
      BY <3>2, <2>7
    <3> QED BY <1>1, <2>4, <2>7, <3>3, ListsKept, Zenon
  <2> QED BY <1>3, <2>6, <2>7
<1> QED BY <1>1, <1>2, <1>3, Zenon

\* An operation that ends changes no item.
LEMMA IdleLists ==
  ASSUME DiskAssumption, Typed, Typed', NEW w, Sound(w), Directories, AllAdding, NEW p \in Proc, Goes(p, NoOp),
         SameDirents, UNCHANGED <<inode, items, pointers>>
  PROVE  Directories' /\ AllAdding'
<1>1. NoOp.at = "user" /\ \A n \in Inum : inode'[n] \in {inode[n], FreshInode}
  BY Idle
<1> QED BY <1>1, ListsKept

\* A removal that is given up changes no item.
LEMMA RemoveDirLists ==
  ASSUME DiskAssumption, Typed, NEW w, Sound(w), Directories, AllAdding, NEW p \in Proc, RemoveDir(p),
         "removed" \notin hurt'
  PROVE  Directories' /\ AllAdding'
BY RemoveDirFacts, SameDirentsKept, IdleLists

\* An entry that is closed leaves its items to the inode on the disk.
LEMMA CloseLists ==
  ASSUME DiskAssumption, Typed, Typed', Calm, Directories, AllAdding, NEW p \in Proc, NEW h \in Handle, Close(p, h)
  PROVE  Directories' /\ AllAdding'
<1> DEFINE n == dirent[h].inum
           d == dirent[h].disk
<1>1. /\ dirent[h].live /\ inode' = [inode EXCEPT ![n] = d] /\ dirent' = [dirent EXCEPT ![h] = NoDirent]
      /\ \A q \in Proc : op[q].h # h
      /\ UNCHANGED <<bitmap, items, pointers, op, hurt>>
  BY CloseFacts
<1>2. /\ n \in Inum /\ inode'[n] = d /\ \A m \in Inum : m # n => inode'[m] = inode[m]
      /\ ~dirent'[h].live /\ \A g \in Handle : g # h => dirent'[g] = dirent[g]
  BY <1>1 DEF Typed, Direntry, NoDirent
<1>3. Directories'
  <2>1. ASSUME NEW g \in Handle, dirent'[g].live
        PROVE  Sized(pointers, items, dirent'[g].disk) /\ Unique(pointers, items, dirent'[g].disk)
    BY <2>1, <1>2 DEF Directories
  <2>2. ASSUME NEW m \in Inum, \A g \in Handle : dirent'[g].live => dirent'[g].inum # m
        PROVE  Sized(pointers, items, inode'[m]) /\ Unique(pointers, items, inode'[m])
    <3>1. CASE m = n
      BY <3>1, <1>1, <1>2 DEF Directories
    <3>2. CASE m # n
      <4>1. \A g \in Handle : dirent[g].live => dirent[g].inum # m
        BY <2>2, <3>2, <1>2
      <4> QED BY <4>1, <3>2, <1>2 DEF Directories
    <3> QED BY <3>1, <3>2
  <2> QED BY <2>1, <2>2, <1>1 DEF Directories
<1>4. AllAdding'
  <2> SUFFICES ASSUME NEW q \in Proc, op'[q].at # "user", Creates(op'[q])
               PROVE  Adding(pointers', items', op'[q], dirent'[op'[q].h].disk)
    BY DEF AllAdding
  <2>1. op[q].h \in Handle /\ op[q].h # h /\ op'[q] = op[q]
    BY <1>1, OpFacts
  <2> QED BY <2>1, <1>1, <1>2 DEF AllAdding
<1> QED BY <1>3, <1>4

\* A new copy of an inode has the items of the inode.
LEMMA LoadLists ==
  ASSUME DiskAssumption, Typed, NEW w, Sound(w), Calm, Directories, AllAdding, NEW p \in Proc, Load(p),
         "alias" \notin hurt'
  PROVE  Directories' /\ AllAdding'
<1> DEFINE n == op[p].inum
<1>1. /\ Typed' /\ UNCHANGED <<bitmap, inode, items, pointers>> /\ Goes(p, NoOp) /\ op[p].at = "load"
      /\ \A h \in Handle : ~(dirent[h].live /\ dirent[h].inum = n)
      /\ \/ dirent' = dirent
         \/ \E h \in Handle, dir \in BOOLEAN :
              /\ ~dirent[h].live
              /\ dirent' = [dirent EXCEPT ![h] = [live |-> TRUE, inum |-> n, dir |-> dir, disk |-> inode[n]]]
  BY LoadFacts DEF Noted
<1>0. n \in Inum
  BY <1>1, OpFacts DEF Operation
<1> HIDE DEF n
<1>2. CASE dirent' = dirent
  BY <1>1, <1>2, SameDirentsKept, IdleLists
<1>3. ASSUME NEW h \in Handle, NEW dir \in BOOLEAN, ~dirent[h].live,
             dirent' = [dirent EXCEPT ![h] = [live |-> TRUE, inum |-> n, dir |-> dir, disk |-> inode[n]]]
      PROVE  Directories' /\ AllAdding'
  <2>1. /\ dirent'[h].live /\ dirent'[h].inum = n /\ dirent'[h].disk = inode[n]
        /\ \A g \in Handle \ {h} : dirent'[g] = dirent[g]
    BY <1>3 DEF Typed
  <2>2. Sized(pointers, items, inode[n]) /\ Unique(pointers, items, inode[n])
    BY <1>0, <1>1 DEF Directories
  <2>3. \A g \in Handle : dirent'[g].live =>
          Sized(pointers, items, dirent'[g].disk) /\ Unique(pointers, items, dirent'[g].disk)
    BY <2>1, <2>2 DEF Directories
  <2>4. ASSUME NEW m \in Inum, \A g \in Handle : dirent'[g].live => dirent'[g].inum # m
        PROVE  Sized(pointers, items, inode[m]) /\ Unique(pointers, items, inode[m])
    <3>1. \A g \in Handle : dirent[g].live => dirent[g].inum # m
      BY <2>1, <2>4, <1>3
    <3> QED BY <3>1 DEF Directories
  <2>5. Directories'
    BY <2>3, <2>4, <1>1 DEF Directories
  <2>6. AllAdding'
    <3> SUFFICES ASSUME NEW q \in Proc, op'[q].at # "user", Creates(op'[q])
                 PROVE  Adding(pointers', items', op'[q], dirent'[op'[q].h].disk)
      BY DEF AllAdding
    <3>1. q # p /\ op'[q] = op[q]
      BY <1>1, Idle DEF Goes
    <3>2. op[q].h \in Handle /\ op[q].h # h
      BY <3>1, <1>3, OpFacts
    <3> QED BY <3>1, <3>2, <2>1, <1>1 DEF AllAdding
  <2> QED BY <2>5, <2>6
<1> QED BY <1>1, <1>2, <1>3

\* An operation that goes on with the same aim.
LEMMA AddingSame ==
  ASSUME NEW o, NEW x, SameAim(o, x), x.at \notin {"scan", "ialloc", "add"}, Strict(x) => Strict(o),
         NEW P, NEW I, NEW d, Adding(P, I, o, d)
  PROVE  Adding(P, I, x, d)
<1>1. TheItem(x) = TheItem(o)
  BY DEF SameAim, TheItem
<1>2. ASSUME Strict(x) PROVE Absent(P, I, d, x.name) /\ Carries(P, I, x, d)
  <2>1. Absent(P, I, d, o.name) /\ Carries(P, I, o, d)
    BY <1>2 DEF Adding
  <2> QED BY <2>1, <1>1 DEF Carries, SameAim
<1> QED BY <1>2 DEF Adding

\* diskfs_inode_write goes on, and no item changes.
LEMMA OnwardLists ==
  ASSUME DiskAssumption, Typed, Typed', Directories, AllAdding, NEW p \in Proc, op[p].at # "user",
         NEW x, Goes(p, x), SameAim(op[p], x), x.at \notin {"scan", "ialloc", "add"}, Strict(x) => Strict(op[p]),
         \A h \in Handle : /\ dirent'[h].live = dirent[h].live /\ dirent'[h].inum = dirent[h].inum
                           /\ dirent[h].live =>
                                Alike(pointers, items, dirent[h].disk, pointers', items', dirent'[h].disk),
         \A n \in Inum : \/ Alike(pointers, items, inode[n], pointers', items', inode'[n])
                         \/ \E h \in Handle : dirent[h].live /\ dirent[h].inum = n
  PROVE  Directories' /\ AllAdding'
<1>1. x.at # "user" /\ Creates(x) => Adding(pointers', items', x, dirent'[x.h].disk)
  <2> SUFFICES ASSUME Creates(x) PROVE Adding(pointers', items', x, dirent'[x.h].disk)
    OBVIOUS
  <2>1. Creates(op[p]) /\ x.h = op[p].h
    BY DEF SameAim, Creates
  <2>2. op[p].h \in Handle /\ dirent[op[p].h].live /\ x \in Operation
    BY OpFacts DEF Goes, OpsTyped
  <2> DEFINE d == dirent[op[p].h].disk
             e == dirent'[op[p].h].disk
  <2>3. Adding(pointers, items, op[p], d)
    BY <2>1 DEF AllAdding
  <2>4. d \in InodeRecord /\ e \in InodeRecord /\ Alike(pointers, items, d, pointers', items', e)
    BY <2>2 DEF Typed, Direntry
  <2>5. Adding(pointers, items, x, d)
    <3> HIDE DEF d
    <3> QED BY <2>3, AddingSame
  <2> HIDE DEF d, e
  <2>6. Adding(pointers', items', x, e)
    BY <2>2, <2>4, <2>5, AlikeFacts
  <2> QED BY <2>6, <2>1 DEF e
<1> QED BY <1>1, ListsQuiet

\* An inode has the items it has.
LEMMA AlikeSelf ==
  ASSUME DiskAssumption, Typed
  PROVE  /\ \A h \in Handle : Alike(pointers, items, dirent[h].disk, pointers, items, dirent[h].disk)
         /\ \A n \in Inum : Alike(pointers, items, inode[n], pointers, items, inode[n])
<1>1. ASSUME NEW d \in InodeRecord PROVE Alike(pointers, items, d, pointers, items, d)
  <2>1. d.size >= d.size
    BY Constants DEF InodeRecord
  <2> QED BY <2>1, AlikeSame
<1> QED BY <1>1 DEF Typed, Direntry

\* The block that is taken is blank, so it changes no item.
LEMMA AllocLists ==
  ASSUME DiskAssumption, Typed, NEW w, Sound(w), Calm, Directories, AllAdding, NEW p \in Proc, Alloc(p)
  PROVE  Directories' /\ AllAdding'
<1> DEFINE o == op[p]
           h == o.h
<1>1. /\ UNCHANGED <<inode, items, pointers>> /\ o.at = "alloc" /\ h \in Handle
      /\ \/ /\ bitmap' = bitmap /\ dirent' = dirent
            /\ \/ Creates(o) /\ Goes(p, Finally(o))
               \/ Goes(p, NoOp)
         \/ \E b \in Block \ (bitmap \cup {0}), e \in InodeRecord : \E x :
              /\ bitmap' = bitmap \cup {b} /\ Relinked(h, e)
              /\ Goes(p, x) /\ SameAim(o, x) /\ Enters(dirent[h].disk, e, b, x)
              /\ x.at = "putptr" \/ (x.at = "save" /\ x.slot # "final")
  BY AllocCases
<1>2. Typed'
  BY AllocFacts, Zenon
<1>3. CASE dirent' = dirent /\ (Goes(p, Finally(o)) \/ Goes(p, NoOp))
  <2>1. o \in Operation /\ SameDirents
    BY <1>1, <1>3, OpFacts, SameDirentsKept
  <2>2. Finally(o).at = "save" /\ ~Strict(Finally(o))
    BY <2>1, EndFacts DEF Strict
  <2>3. \A P, I, d : Adding(P, I, Finally(o), d)
    BY <2>2, AddingRest
  <2>4. PICK x : Goes(p, x) /\ (x.at # "user" => \A d : Adding(pointers, items, x, d))
    BY <2>3, <1>3, Idle
  <2>5. \A n \in Inum : inode'[n] \in {inode[n], FreshInode}
    BY <1>1
  <2> QED BY <1>1, <1>2, <2>1, <2>4, <2>5, ListsKept
<1>4. ASSUME NEW b, NEW e \in InodeRecord, NEW x, Relinked(h, e), Goes(p, x), SameAim(o, x),
             Enters(dirent[h].disk, e, b, x), x.at = "putptr" \/ (x.at = "save" /\ x.slot # "final")
      PROVE  Directories' /\ AllAdding'
  <2>1. /\ dirent'[h].disk = e /\ \A g \in Handle \ {h} : dirent'[g] = dirent[g]
        /\ \A g \in Handle : dirent'[g].live = dirent[g].live /\ dirent'[g].inum = dirent[g].inum
    BY <1>1, <1>4, RelinkFacts
  <2>2. Alike(pointers, items, dirent[h].disk, pointers', items', e)
    <3>1. e.size \in Nat
      BY Constants DEF InodeRecord
    <3> QED BY <3>1, <1>1, <1>4 DEF Alike, Enters
  <2>3. \A g \in Handle : Alike(pointers, items, dirent[g].disk, pointers', items', dirent'[g].disk)
    BY <1>1, <2>1, <2>2, AlikeSelf
  <2>4. \A n \in Inum : Alike(pointers, items, inode[n], pointers', items', inode'[n])
    BY <1>1, AlikeSelf
  <2>5. o.at # "user" /\ x.at \notin {"scan", "ialloc", "add"} /\ Strict(o)
    BY <1>1, <1>4 DEF Strict
  <2> QED BY <1>2, <1>4, <2>1, <2>3, <2>4, <2>5, OnwardLists
<1> QED BY <1>1, <1>3, <1>4

\* Saving the copy of an inode changes no item.
LEMMA SaveLists ==
  ASSUME DiskAssumption, Typed, NEW w, Sound(w), Calm, Directories, AllAdding, NEW p \in Proc, Save(p)
  PROVE  Directories' /\ AllAdding'
<1> DEFINE o == op[p]
           h == o.h
           n == dirent[h].inum
<1>1. /\ Typed' /\ UNCHANGED <<bitmap, items, pointers, dirent>> /\ o.at = "save"
      /\ inode' = [inode EXCEPT ![n] = dirent[h].disk]
      /\ \/ o.slot = "direct" /\ Goes(p, Moved(o, "data"))
         \/ o.slot = "indirect" /\ Goes(p, Moved(o, "zero"))
         \/ o.slot = "final" /\ Goes(p, Moved(o, "load"))
  BY SaveFacts DEF Moved
<1>2. o \in Operation /\ h \in Handle /\ dirent[h].live /\ n \in Inum
  BY <1>1, OpFacts
<1>3. PICK at \in {"data", "zero", "load"} :
        /\ Goes(p, Moved(o, at))
        /\ at # "load" => o.slot # "final"
  BY <1>1
<1> DEFINE x == Moved(o, at)
<1>4. Goes(p, x) /\ x.at = at /\ SameAim(o, x)
  BY <1>2, <1>3, MovedFacts DEF SameAim
<1> HIDE DEF x
<1>5. x.at \notin {"scan", "ialloc", "add"} /\ (Strict(x) => Strict(o)) /\ o.at # "user"
  BY <1>1, <1>3, <1>4 DEF Strict
<1>6. \A m \in Inum : \/ Alike(pointers, items, inode[m], pointers', items', inode'[m])
                      \/ \E g \in Handle : dirent[g].live /\ dirent[g].inum = m
  <2>1. \A m \in Inum : m # n => inode'[m] = inode[m]
    BY <1>1 DEF Typed
  <2> QED BY <2>1, <1>1, <1>2, AlikeSelf
<1>7. \A g \in Handle : /\ dirent'[g].live = dirent[g].live /\ dirent'[g].inum = dirent[g].inum
                        /\ Alike(pointers, items, dirent[g].disk, pointers', items', dirent'[g].disk)
  BY <1>1, AlikeSelf
<1> QED BY <1>1, <1>4, <1>5, <1>6, <1>7, OnwardLists

\* A cleared indirect block is as good as none: it changes no item.
LEMMA ZeroLists ==
  ASSUME DiskAssumption, Typed, NEW w, Sound(w), Calm, Directories, AllAdding, NEW p \in Proc, Zero(p)
  PROVE  Directories' /\ AllAdding'
<1> DEFINE o == op[p]
           x == Moved(o, "getptr")
<1>1. /\ Typed' /\ UNCHANGED <<bitmap, inode, items, dirent>> /\ o.at = "zero"
      /\ pointers' = [pointers EXCEPT ![o.b] = NoPointers] /\ Goes(p, x)
  BY ZeroFacts DEF Moved
<1>2. o \in Operation /\ pointers \in [Block -> [0..(PerBlock - 1) -> Block]]
  BY <1>1, OpFacts DEF Typed
<1>3. x.at = "getptr" /\ SameAim(o, x)
  BY <1>2, MovedFacts DEF SameAim
<1> HIDE DEF x
<1>4. pointers[o.b] = NoPointers
  BY <1>1, CalmFacts DEF Phase
<1>5. pointers' = pointers
  BY <1>1, <1>2, <1>4
<1>6. x.at \notin {"scan", "ialloc", "add"} /\ Strict(o) /\ o.at # "user"
  BY <1>1, <1>3 DEF Strict
<1>7. /\ \A h \in Handle : /\ dirent'[h].live = dirent[h].live /\ dirent'[h].inum = dirent[h].inum
                           /\ Alike(pointers, items, dirent[h].disk, pointers', items', dirent'[h].disk)
      /\ \A n \in Inum : Alike(pointers, items, inode[n], pointers', items', inode'[n])
  BY <1>1, <1>5, AlikeSelf, Zenon
<1> QED BY <1>1, <1>3, <1>6, <1>7, OnwardLists

\* Reading an indirect block changes no item.
LEMMA GetPointerLists ==
  ASSUME DiskAssumption, Typed, NEW w, Sound(w), Calm, Directories, AllAdding, NEW p \in Proc, GetPointer(p)
  PROVE  Directories' /\ AllAdding'
<1> DEFINE o == op[p]
           P == pointers[dirent[o.h].disk.indirect]
           j == o.i - Direct
<1>1. /\ Typed' /\ UNCHANGED <<bitmap, inode, items, pointers, dirent>> /\ o.at = "getptr"
      /\ \/ P[j] = 0 /\ Goes(p, [o EXCEPT !.at = "alloc", !.slot = "pointer", !.ptr = P])
         \/ P[j] # 0 /\ Goes(p, [o EXCEPT !.at = "data", !.b = P[j]])
  BY GetPointerFacts, Zenon
<1>2. o \in Operation
  BY <1>1, OpFacts, Zenon
<1>3. ASSUME NEW x,
             \/ x = [o EXCEPT !.at = "alloc", !.slot = "pointer", !.ptr = P]
             \/ x = [o EXCEPT !.at = "data", !.b = P[j]]
      PROVE  SameAim(o, x) /\ x.at \in {"alloc", "data"}
  <2> HIDE DEF o, P, j
  <2> QED BY <1>2, <1>3, Zenon DEF Operation, SameAim
<1>4. PICK x : Goes(p, x) /\ SameAim(o, x) /\ x.at \in {"alloc", "data"}
  BY <1>1, <1>3, Zenon
<1>5. x.at \notin {"scan", "ialloc", "add"} /\ Strict(o) /\ o.at # "user"
  BY <1>1, <1>4 DEF Strict
<1>6. /\ \A h \in Handle : /\ dirent'[h].live = dirent[h].live /\ dirent'[h].inum = dirent[h].inum
                           /\ Alike(pointers, items, dirent[h].disk, pointers', items', dirent'[h].disk)
      /\ \A n \in Inum : Alike(pointers, items, inode[n], pointers', items', inode'[n])
  BY <1>1, AlikeSelf
<1> QED BY <1>1, <1>4, <1>5, <1>6, OnwardLists, Zenon

\* The block that is now pointed to is blank, so it changes no item.
LEMMA PutPointerLists ==
  ASSUME DiskAssumption, Typed, NEW w, Sound(w), Calm, Directories, AllAdding, NEW p \in Proc, PutPointer(p)
  PROVE  Directories' /\ AllAdding'
<1> DEFINE o == op[p]
           x == Moved(o, "data")
<1>1. /\ Typed' /\ UNCHANGED <<bitmap, inode, items, dirent>> /\ o.at = "putptr" /\ Goes(p, x)
  BY PutPointerFacts DEF Moved
<1>2. o \in Operation
  BY <1>1, OpFacts
<1>3. x.at = "data" /\ SameAim(o, x)
  BY <1>2, MovedFacts DEF SameAim
<1> HIDE DEF x
<1>4. x.at \notin {"scan", "ialloc", "add"} /\ Strict(o) /\ o.at # "user"
  BY <1>1, <1>3 DEF Strict
<1>5. ASSUME NEW n \in Inum, NEW e \in InodeRecord, Conforms(w, bitmap, e, n)
      PROVE  Alike(pointers, items, e, pointers', items', e)
  <2>1. e.size >= e.size
    BY Constants DEF InodeRecord
  <2>2. \A k \in Slot, j \in 1..Items : Entry(pointers', items, e, k, j) = Entry(pointers, items, e, k, j)
    BY <1>5, PutPointerCalm
  <2> QED BY <2>1, <2>2, <1>1 DEF Alike
<1>6. /\ \A h \in Handle : /\ dirent'[h].live = dirent[h].live /\ dirent'[h].inum = dirent[h].inum
                           /\ Alike(pointers, items, dirent[h].disk, pointers', items', dirent'[h].disk)
      /\ \A n \in Inum : Alike(pointers, items, inode[n], pointers', items', inode'[n])
  <2>1. \A h \in Handle : dirent[h].disk \in InodeRecord /\ dirent[h].inum \in Inum
                          /\ Conforms(w, bitmap, dirent[h].disk, dirent[h].inum)
    BY SoundFacts DEF Typed, Direntry
  <2>2. \A n \in Inum : inode[n] \in InodeRecord /\ Conforms(w, bitmap, inode[n], n)
    BY SoundFacts DEF Typed
  <2> QED BY <2>1, <2>2, <1>1, <1>5
<1> QED BY <1>1, <1>3, <1>4, <1>6, OnwardLists

\* An item is new, and the others are as before or blank.
Written(P, I, d, J, e, i, t, r) ==
  /\ e.size >= d.size /\ i * Items + t <= e.size
  /\ Entry(P, J, e, i, t) = r
  /\ \A k \in Slot, j \in 1..Items :
       k # i \/ j # t => Entry(P, J, e, k, j) \in {Blank, Entry(P, I, d, k, j)}

\* An operation that adds another name, and is not at a block that was changed elsewhere.
Undisturbed(P, I, d, J, e, i, t, r, o) ==
  /\ Adding(P, I, o, d) /\ o.name # r.name /\ o.name \in Name
  /\ \/ ~Strict(o)
     \/ /\ Entry(P, I, d, i, t) = Blank
        /\ \A k \in Slot, j \in 1..Items :
             k # i \/ j # t => Entry(P, J, e, k, j) = Entry(P, I, d, k, j)

\* One item was written, with a name that was not there: it is there once.
LEMMA WrittenFacts ==
  ASSUME DiskAssumption, NEW P, NEW I, NEW d \in InodeRecord, NEW J, NEW e \in InodeRecord,
         NEW i \in Slot, NEW t \in 1..Items, NEW r, Written(P, I, d, J, e, i, t, r)
  PROVE  /\ Sized(P, I, d) => Sized(P, J, e)
         /\ Unique(P, I, d) /\ Absent(P, I, d, r.name) => Unique(P, J, e)
         /\ \A o \in Operation : Undisturbed(P, I, d, J, e, i, t, r, o) => Adding(P, J, o, e)
<1>1. /\ d.size \in Nat /\ e.size \in Nat /\ d.size <= e.size /\ i * Items + t <= e.size
      /\ Entry(P, J, e, i, t) = r /\ Blank.name = "none" /\ "none" \notin Name
      /\ \A k \in Slot, j \in 1..Items :
           k # i \/ j # t => Entry(P, J, e, k, j) = Blank \/ Entry(P, J, e, k, j) = Entry(P, I, d, k, j)
  BY Constants DEF Written, InodeRecord, Blank, DiskAssumption
<1>2. ASSUME Sized(P, I, d) PROVE Sized(P, J, e)
  <2> SUFFICES ASSUME NEW k \in Slot, NEW j \in 1..Items, Entry(P, J, e, k, j).name # "none"
               PROVE  k * Items + j <= e.size
    BY DEF Sized
  <2>1. CASE k = i /\ j = t
    BY <2>1, <1>1
  <2>2. CASE k # i \/ j # t
    <3>1. Entry(P, I, d, k, j).name # "none"
      BY <2>2, <1>1
    <3>2. k * Items + j <= d.size /\ k * Items + j \in Nat
      BY <3>1, <1>2, PlaceInt DEF Sized
    <3> QED BY <3>2, <1>1
  <2> QED BY <2>1, <2>2
<1>3. ASSUME Unique(P, I, d), Absent(P, I, d, r.name) PROVE Unique(P, J, e)
  <2> SUFFICES ASSUME NEW k \in Slot, NEW l \in Slot, NEW j \in 1..Items, NEW m \in 1..Items,
                      Entry(P, J, e, k, j).name = Entry(P, J, e, l, m).name, Entry(P, J, e, k, j).name # "none"
               PROVE  k = l /\ j = m
    BY DEF Unique
  <2>1. ASSUME NEW a \in Slot, NEW c \in 1..Items, a # i \/ c # t, Entry(P, J, e, a, c).name # "none"
        PROVE  Entry(P, J, e, a, c) = Entry(P, I, d, a, c) /\ Entry(P, J, e, a, c).name # r.name
    BY <2>1, <1>1, <1>3 DEF Absent
  <2>2. CASE (k = i /\ j = t) /\ (l = i /\ m = t)
    BY <2>2
  <2>3. CASE (k = i /\ j = t) /\ (l # i \/ m # t)
    BY <2>1, <2>3, <1>1
  <2>4. CASE (k # i \/ j # t) /\ (l = i /\ m = t)
    BY <2>1, <2>4, <1>1
  <2>5. CASE (k # i \/ j # t) /\ (l # i \/ m # t)
    <3>1. Entry(P, J, e, k, j) = Entry(P, I, d, k, j) /\ Entry(P, J, e, l, m) = Entry(P, I, d, l, m)
      BY <2>1, <2>5
    <3> QED BY <3>1, <1>3 DEF Unique
  <2> QED BY <2>2, <2>3, <2>4, <2>5
<1>4. ASSUME NEW o \in Operation, Undisturbed(P, I, d, J, e, i, t, r, o)
      PROVE  Adding(P, J, o, e)
  <2>0. /\ Adding(P, I, o, d) /\ o.name # r.name /\ o.name \in Name
        /\ Strict(o) => /\ Entry(P, I, d, i, t) = Blank
                        /\ \A k \in Slot, j \in 1..Items :
                             k # i \/ j # t => Entry(P, J, e, k, j) = Entry(P, I, d, k, j)
    BY <1>4 DEF Undisturbed
  <2>1. \A k \in Slot, j \in 1..Items :
          Entry(P, I, d, k, j).name # o.name => Entry(P, J, e, k, j).name # o.name
    BY <1>1, <2>0
  <2>2. o.at = "scan" => \A k \in Slot, j \in 1..Items :
                            k < o.i \/ k >= o.n => Entry(P, J, e, k, j).name # o.name
    BY <2>1, <2>0 DEF Adding
  <2>3. o.at \in {"ialloc", "add"} \/ Strict(o) => Absent(P, J, e, o.name)
    BY <2>1, <2>0 DEF Adding, Absent
  <2>4. ASSUME Strict(o) PROVE Carries(P, J, o, e)
    <3>1. PICK s \in 1..Items :
            /\ o.buf[s] = TheItem(o)
            /\ \A j \in 1..Items \ {s} : o.buf[j] \in {Blank, Entry(P, I, d, o.i, j)}
            /\ o.size = -1 => s = 1 /\ o.i * Items + 1 <= d.size
            /\ o.size # -1 => o.size = o.i * Items + s
      BY <2>4, <2>0 DEF Adding, Carries
    <3>2. o.i \in Slot /\ 1 \in 1..Items
      BY Constants DEF Operation
    <3>3. o.i * Items + 1 \in Nat
      BY <3>2, PlaceInt
    <3>4. o.i * Items + 1 <= d.size => o.i * Items + 1 <= e.size
      BY <3>3, <1>1
    <3>5. \A j \in 1..Items \ {s} : o.buf[j] \in {Blank, Entry(P, J, e, o.i, j)}
      BY <3>1, <3>2, <2>4, <2>0
    <3> QED BY <3>1, <3>4, <3>5 DEF Carries
  <2> QED BY <2>2, <2>3, <2>4 DEF Adding
<1> QED BY <1>2, <1>3, <1>4

\* No other process has a buffer for the directory, or no other item of the block changes.
Apart(p, h, b, t, f) ==
  \/ Alone(p, h)
  \/ items[b][t] = Blank /\ \A j \in 1..Items \ {t} : f[j] = items[b][j]

\* The block with the new item is written, and no other process was adding that name.
LEMMA WrittenLists ==
  ASSUME DiskAssumption, Typed, Typed', NEW w, Sound(w), Calm, Directories, AllAdding, NEW p \in Proc,
         op[p].at # "user", Creates(op[p]), NEW h \in Handle, op[p].h = h, NEW i \in Slot,
         NEW b \in Block \ {0}, b = Where(pointers, dirent[h].disk, i), NEW f, items' = [items EXCEPT ![b] = f],
         NEW t \in 1..Items, f[t] = TheItem(op[p]), \A j \in 1..Items \ {t} : f[j] \in {Blank, items[b][j]},
         i * Items + t <= dirent'[h].disk.size, Absent(pointers, items, dirent[h].disk, op[p].name),
         SameDirents, UNCHANGED <<inode, pointers>>, ~Rival(p, op[p]),
         Apart(p, h, b, t, f),
         NEW x, Goes(p, x), ~Strict(x), x.at \notin {"scan", "ialloc", "add"}
  PROVE  Directories' /\ AllAdding'
<1> DEFINE n == dirent[h].inum
           d == dirent[h].disk
           e == dirent'[h].disk
           r == TheItem(op[p])
<1>0. /\ \A g \in Handle : dirent[g].disk \in InodeRecord /\ dirent'[g].disk \in InodeRecord /\ dirent[g].inum \in Inum
      /\ \A m \in Inum : inode[m] \in InodeRecord
      /\ dirent[h].live /\ r.name = op[p].name /\ Placed(w)
  BY OpFacts DEF Typed, Direntry, TheItem, Sound
<1>1. ASSUME NEW c \in InodeRecord, NEW m, Conforms(w, bitmap, c, m), NEW k \in Slot, Where(pointers, c, k) = b
      PROVE  w[b] = <<m, k>>
  BY <1>0, <1>1, WhereFacts
<1>2. w[b] = <<n, i>> /\ Conforms(w, bitmap, d, n)
  BY <1>0, <1>1, SoundFacts
<1>3. \A c \in Block : c # b => items'[c] = items[c]
  BY DEF Typed
<1>4. items'[b] = f
  BY DEF Typed
<1>5. ASSUME NEW c \in InodeRecord, NEW m, Conforms(w, bitmap, c, m), m # n, NEW z,
             z.direct = c.direct, z.indirect = c.indirect, z.size >= c.size
      PROVE  Alike(pointers, items, c, pointers', items', z)
  <2>1. ASSUME NEW k \in Slot PROVE items'[Where(pointers', z, k)] = items[Where(pointers, c, k)]
    <3>1. Where(pointers', z, k) = Where(pointers, c, k)
      BY <1>5, SameBlocks
    <3>2. Where(pointers, c, k) # b
      BY <1>1, <1>2, <1>5
    <3>3. Where(pointers, c, k) \in Block
      BY BlockOfIn
    <3> QED BY <3>1, <3>2, <3>3, <1>3
  <2> QED BY <2>1, <1>5 DEF Alike, Entry
<1>d. d = dirent[h].disk /\ e = dirent'[h].disk /\ d \in InodeRecord /\ e \in InodeRecord
  BY <1>0
<1>s. \A k : Where(pointers, e, k) = Where(pointers, d, k)
  <2>1. e.direct = d.direct /\ e.indirect = d.indirect
    BY DEF SameDirents
  <2> HIDE DEF d, e
  <2> QED BY <2>1, SameBlocks
<1>6. Written(pointers, items, d, items', e, i, t, r)
  <2>1. \A k : Where(pointers, e, k) = Where(pointers, d, k)
    BY <1>s
  <2>2. Entry(pointers, items', e, i, t) = r
    BY <2>1, <1>4 DEF Entry
  <2>3. ASSUME NEW k \in Slot, NEW j \in 1..Items, k # i \/ j # t
        PROVE  Entry(pointers, items', e, k, j) \in {Blank, Entry(pointers, items, d, k, j)}
    <3>1. CASE k = i
      BY <2>1, <2>3, <3>1, <1>4 DEF Entry
    <3>2. CASE k # i
      <4>1. Where(pointers, d, k) # b
        BY <1>0, <1>1, <1>2, <3>2
      <4>2. Where(pointers, d, k) \in Block
        BY <1>0, BlockOfIn
      <4> QED BY <2>1, <4>1, <4>2, <1>3 DEF Entry
    <3> QED BY <3>1, <3>2
  <2>4. e.size >= d.size
    BY DEF SameDirents
  <2> QED BY <2>2, <2>3, <2>4 DEF Written
<1>7. ASSUME items[b][t] = Blank, \A j \in 1..Items \ {t} : f[j] = items[b][j]
      PROVE  /\ Entry(pointers, items, d, i, t) = Blank
             /\ \A k \in Slot, j \in 1..Items :
                  k # i \/ j # t => Entry(pointers, items', e, k, j) = Entry(pointers, items, d, k, j)
  <2>1. \A k : Where(pointers, e, k) = Where(pointers, d, k)
    BY <1>s
  <2>2. ASSUME NEW k \in Slot, NEW j \in 1..Items, k # i \/ j # t
        PROVE  Entry(pointers, items', e, k, j) = Entry(pointers, items, d, k, j)
    <3>1. CASE k = i
      BY <2>1, <2>2, <3>1, <1>4, <1>7 DEF Entry
    <3>2. CASE k # i
      <4>1. Where(pointers, d, k) # b
        BY <1>0, <1>1, <1>2, <3>2
      <4>2. Where(pointers, d, k) \in Block
        BY <1>0, BlockOfIn
      <4> QED BY <2>1, <4>1, <4>2, <1>3 DEF Entry
    <3> QED BY <3>1, <3>2
  <2>3. Entry(pointers, items, d, i, t) = Blank
    BY <1>7 DEF Entry
  <2> QED BY <2>2, <2>3
<1>8. ASSUME NEW g \in Handle \ {h}, dirent[g].live
      PROVE  Alike(pointers, items, dirent[g].disk, pointers', items', dirent'[g].disk)
  <2>1. dirent[g].inum # n
    BY <1>0, <1>8 DEF Calm, OneHandle
  <2>2. Conforms(w, bitmap, dirent[g].disk, dirent[g].inum)
    BY SoundFacts
  <2>3. /\ dirent'[g].disk.direct = dirent[g].disk.direct /\ dirent'[g].disk.indirect = dirent[g].disk.indirect
        /\ dirent'[g].disk.size >= dirent[g].disk.size
    BY DEF SameDirents
  <2> HIDE DEF n
  <2> QED BY <2>1, <2>2, <2>3, <1>0, <1>5
<1>9. ASSUME NEW g \in Handle, dirent'[g].live
      PROVE  Sized(pointers', items', dirent'[g].disk) /\ Unique(pointers', items', dirent'[g].disk)
  <2>0. dirent[g].live /\ Sized(pointers, items, dirent[g].disk) /\ Unique(pointers, items, dirent[g].disk)
    BY <1>9 DEF SameDirents, Directories
  <2>1. CASE g = h
    <3>1. Sized(pointers, items, d) /\ Unique(pointers, items, d) /\ Absent(pointers, items, d, r.name)
      BY <2>0, <2>1, <1>0
    <3> HIDE DEF d, e, r
    <3>2. Sized(pointers, items', e) /\ Unique(pointers, items', e)
      BY <3>1, <1>6, <1>d, WrittenFacts
    <3> QED BY <3>2, <2>1, <1>d
  <2>2. CASE g # h
    <3>1. Alike(pointers, items, dirent[g].disk, pointers', items', dirent'[g].disk)
      BY <2>0, <2>2, <1>8
    <3> QED BY <3>1, <2>0, <1>0, AlikeFacts
  <2> QED BY <2>1, <2>2
<1>10. ASSUME NEW m \in Inum, \A g \in Handle : dirent'[g].live => dirent'[g].inum # m
       PROVE  Sized(pointers', items', inode'[m]) /\ Unique(pointers', items', inode'[m])
  <2>1. \A g \in Handle : dirent[g].live => dirent[g].inum # m
    BY <1>10 DEF SameDirents
  <2>2. Sized(pointers, items, inode[m]) /\ Unique(pointers, items, inode[m]) /\ m # n
    BY <2>1, <1>0 DEF Directories
  <2>3. Alike(pointers, items, inode[m], pointers', items', inode[m])
    <3>1. Conforms(w, bitmap, inode[m], m) /\ inode[m].size >= inode[m].size
      BY <1>0, SoundFacts, Constants DEF InodeRecord
    <3> HIDE DEF n
    <3> QED BY <3>1, <2>2, <1>0, <1>5
  <2> QED BY <2>2, <2>3, <1>0, AlikeFacts
<1>11. ASSUME NEW q \in Proc, op'[q].at # "user", Creates(op'[q])
       PROVE  Adding(pointers', items', op'[q], dirent'[op'[q].h].disk)
  <2>1. CASE q = p
    BY <2>1, AddingRest DEF Goes
  <2>2. CASE q # p
    <3>1. /\ op'[q] = op[q] /\ op[q] \in Operation /\ Shaped(op[q]) /\ op[q].h \in Handle /\ dirent[op[q].h].live
          /\ op[q].name \in Name
      BY <2>2, <1>11, OpFacts DEF Goes, Shaped
    <3>2. Adding(pointers, items, op[q], dirent[op[q].h].disk)
      BY <3>1, <1>11 DEF AllAdding
    <3>3. CASE op[q].h # h
      <4>1. PICK c \in InodeRecord, z \in InodeRecord :
              c = dirent[op[q].h].disk /\ z = dirent'[op[q].h].disk
        BY <3>1, <1>0
      <4>2. Alike(pointers, items, c, pointers', items', z)
        BY <3>1, <3>3, <1>8, <4>1
      <4>3. Adding(pointers', items', op[q], z)
        BY <3>1, <3>2, <4>1, <4>2, AlikeFacts
      <4> QED BY <3>1, <4>1, <4>3
    <3>4. CASE op[q].h = h
      <4>1. op[q].name # r.name
        BY <2>2, <3>1, <3>4, <1>0, <1>11 DEF Rival
      <4>2. Strict(op[q]) => ~Alone(p, h)
        BY <2>2, <3>4 DEF Alone
      <4>3. Adding(pointers, items, op[q], d)
        BY <3>2, <3>4
      <4> HIDE DEF d, e, r
      <4>4. Undisturbed(pointers, items, d, items', e, i, t, r, op[q])
        BY <4>1, <4>2, <4>3, <3>1, <1>7 DEF Undisturbed, Apart
      <4>5. Adding(pointers, items', op[q], e)
        BY <4>4, <3>1, <1>6, <1>d, WrittenFacts
      <4> QED BY <4>5, <3>1, <3>4, <1>d
    <3> QED BY <3>3, <3>4
  <2> QED BY <2>1, <2>2
<1> QED BY <1>9, <1>10, <1>11 DEF Directories, AllAdding

\* An item is filled with a name that is not there, or the buffer to be written has it.
LEMMA AddLists ==
  ASSUME DiskAssumption, Typed, NEW w, Sound(w), Calm, Directories, AllAdding, NEW p \in Proc, Add(p),
         "twice" \notin hurt'
  PROVE  Directories' /\ AllAdding'
<1> DEFINE o == op[p]
           d == dirent[o.h].disk
           b == Where(pointers, d, o.i)
<1>0. Typed' /\ UNCHANGED <<bitmap, inode, pointers>> /\ SameDirents /\ o.at = "add"
  BY AddFacts
<1>1. \/ \E j \in 1..Items : AddFill(p, j)
      \/ \E j \in 1..Items : AddPlace(p, j)
      \/ ToNextBlock(p)
      \/ AllFull(p)
  BY AddFacts
<1>2. /\ o \in Operation /\ Shaped(o) /\ o.h \in Handle /\ dirent[o.h].live /\ d \in InodeRecord
      /\ b \in Block /\ Creates(o) /\ o.name \in Name /\ o.i \in Slot /\ o.i < o.n
  BY <1>0, OpFacts DEF DirOf, Shaped, Operation
<1>3. ASSUME NEW j \in 1..Items
      PROVE  LET y == Filled(o, pointers, items, j)
             IN  /\ y \in Operation /\ y.kind = o.kind /\ y.h = o.h /\ y.name = o.name /\ y.i = o.i /\ y.inum = o.inum
                 /\ y.buf = [items[b] EXCEPT ![j] = TheItem(o)] /\ y.size = o.i * Items + j /\ y.size \in 1..Capacity
  BY <1>0, FilledFacts DEF DirOf
<1>4. Absent(pointers, items, d, o.name)
  <2>1. Adding(pointers, items, o, d)
    BY <1>0, <1>2 DEF AllAdding
  <2> QED BY <2>1, <1>0 DEF Adding
<1>5. /\ \A j \in 1..Items : Entry(pointers, items, d, o.i, j) = items[b][j]
      /\ items[b] \in ItemBlock
      /\ \A n \in Inum : inode'[n] \in {inode[n], FreshInode}
  BY <1>0, <1>2 DEF Entry, Typed
<1>b. ASSUME NEW j \in 1..Items
      PROVE  LET f == [items[b] EXCEPT ![j] = TheItem(o)]
             IN  f[j] = TheItem(o) /\ \A m \in 1..Items \ {j} : f[m] = items[b][m]
  BY <1>5, Zenon DEF ItemBlock
<1>6. ASSUME NEW j \in 1..Items, AddFill(p, j) PROVE Directories' /\ AllAdding'
  <2> DEFINE y == Filled(o, pointers, items, j)
  <2>1. /\ b # 0 /\ o.i < Direct /\ items' = [items EXCEPT ![b] = y.buf] /\ items[b][j] = Blank
        /\ o.i * Items + j <= dirent'[o.h].disk.size
        /\ Goes(p, Finally(y)) \/ Goes(p, Loading(y))
        /\ Noted("twice", Rival(p, o))
    BY <1>6 DEF AddFill, DirOf
  <2>2. y \in Operation /\ y.buf = [items[b] EXCEPT ![j] = TheItem(o)]
    BY <1>3
  <2> HIDE DEF y
  <2>3. /\ ~Strict(Finally(y)) /\ ~Strict(Loading(y))
        /\ Finally(y).at \notin {"scan", "ialloc", "add"} /\ Loading(y).at \notin {"scan", "ialloc", "add"}
    BY <2>2, EndFacts DEF Strict
  <2>4. PICK x : Goes(p, x) /\ ~Strict(x) /\ x.at \notin {"scan", "ialloc", "add"}
    BY <2>1, <2>3
  <2>5. PICK f : /\ f[j] = TheItem(op[p]) /\ \A m \in 1..Items \ {j} : f[m] = items[b][m]
                 /\ items' = [items EXCEPT ![b] = f]
    BY <2>1, <2>2, <1>b, Zenon
  <2>6. ~Rival(p, op[p])
    BY <2>1 DEF Noted
  <2>7. PICK h \in Handle, c \in Block \ {0} : h = op[p].h /\ c = b
    BY <1>2, <2>1
  <2>8. PICK i \in Slot : i = op[p].i
    BY <1>2
  <2>9. /\ c = Where(pointers, dirent[h].disk, i) /\ items' = [items EXCEPT ![c] = f]
        /\ items[c][j] = Blank /\ \A m \in 1..Items \ {j} : f[m] = items[c][m]
        /\ \A m \in 1..Items \ {j} : f[m] \in {Blank, items[c][m]}
        /\ i * Items + j <= dirent'[h].disk.size
        /\ Absent(pointers, items, dirent[h].disk, op[p].name)
        /\ op[p].at # "user" /\ Creates(op[p])
    BY <2>1, <2>5, <2>7, <2>8, <1>0, <1>2, <1>4, Zenon
  <2>10. Apart(p, h, c, j, f)
    BY <2>9 DEF Apart
  <2> HIDE DEF b, d, o
  <2> QED BY <1>0, <2>4, <2>5, <2>6, <2>7, <2>9, <2>10, WrittenLists, Zenon
<1>7. ASSUME NEW j \in 1..Items, AddPlace(p, j) PROVE Directories' /\ AllAdding'
  <2> DEFINE y == Filled(o, pointers, items, j)
  <2>1. items' = items /\ dirent' = dirent /\ Goes(p, Place(y, d))
    BY <1>7 DEF AddPlace, DirOf
  <2>2. /\ y \in Operation /\ y.kind = o.kind /\ y.h = o.h /\ y.name = o.name /\ y.i = o.i /\ y.inum = o.inum
        /\ y.buf = [items[b] EXCEPT ![j] = TheItem(o)] /\ y.size = o.i * Items + j /\ y.size \in 1..Capacity
    BY <1>3
  <2> HIDE DEF y
  <2>3. TheItem(y) = TheItem(o) /\ Creates(y)
    BY <2>2, <1>2 DEF TheItem, Creates
  <2>4. Carries(pointers, items, y, d)
    <3>1. y.buf[j] = TheItem(y) /\ \A m \in 1..Items \ {j} : y.buf[m] = Entry(pointers, items, d, y.i, m)
      BY <2>2, <2>3, <1>b, <1>5, SMTT(20)
    <3>2. y.size # -1 /\ y.size = y.i * Items + j
      BY <2>2
    <3> HIDE DEF d
    <3> QED BY <3>1, <3>2 DEF Carries
  <2>5. Adding(pointers, items, Place(y, d), d) /\ Place(y, d).h = y.h
    <3>1. Absent(pointers, items, d, y.name) /\ y.h \in Handle /\ y.name \in Name /\ d \in InodeRecord
      BY <2>2, <1>2, <1>4
    <3> HIDE DEF d
    <3> QED BY <2>2, <2>3, <2>4, <3>1, AddingPlaced
  <2>6. PICK x : x = Place(y, d)
    OBVIOUS
  <2>7. x.at # "user" /\ Creates(x) => Adding(pointers, items, x, dirent'[x.h].disk)
    BY <2>1, <2>2, <2>5, <2>6
  <2>8. Goes(p, x)
    BY <2>1, <2>6
  <2> HIDE DEF d
  <2> QED BY <1>0, <1>5, <2>1, <2>7, <2>8, ListsKept
<1>8. CASE ToNextBlock(p)
  <2>1. items' = items /\ dirent' = dirent /\ Goes(p, [o EXCEPT !.i = o.i + 1])
    BY <1>8 DEF ToNextBlock
  <2>2. PICK x : x = [o EXCEPT !.i = o.i + 1]
    OBVIOUS
  <2>3. x.at = "add" /\ x.h = o.h /\ x.name = o.name
    BY <1>0, <1>2, <2>2 DEF Operation
  <2>4. Adding(pointers, items, x, d)
    BY <2>3, <1>4 DEF Adding, Strict
  <2>5. Goes(p, x) /\ (x.at # "user" /\ Creates(x) => Adding(pointers, items, x, dirent'[x.h].disk))
    BY <2>1, <2>2, <2>3, <2>4
  <2> QED BY <1>0, <1>5, <2>1, <2>5, ListsKept
<1>9. CASE AllFull(p)
  <2>1. o.i + 1 >= o.n /\ (\A j \in 1..Items : items[b][j] # Blank) /\ items' = items /\ Grow(p, o)
    BY <1>9 DEF AllFull, DirOf
  <2>2. Items \in 1..Items /\ Items \in Nat /\ o.i \in Nat /\ o.n \in Nat /\ d.size \in Nat
    <3>1. Items \in 1..Items /\ Items \in Nat /\ o.i \in Nat
      <4>1. Items \in Nat /\ Items >= 1
        BY Constants
      <4>2. o.i \in Nat
        BY <1>2, Constants DEF Slot
      <4> QED BY <4>1, <4>2
    <3>2. o.n \in Nat
      BY <1>2, Constants DEF Operation
    <3>3. d.size \in Nat
      BY <1>2, Constants DEF InodeRecord
    <3> QED BY <3>1, <3>2, <3>3
  <2>3. Entry(pointers, items, d, o.i, Items).name # "none"
    BY <2>1, <2>2, <1>5 DEF ItemBlock, Item
  <2>4. o.i * Items + Items <= d.size
    BY <2>2, <2>3, <1>2 DEF Directories, Sized
  <2>5. o.n = o.i + 1
    BY <2>1, <2>2, <1>2
  <2>6. (o.i + 1) * Items = o.i * Items + Items
    BY <2>2
  <2>7. o.n * Items <= d.size
    BY <2>4, <2>5, <2>6
  <2>8. PICK z \in Operation : z = o
    BY <1>2
  <2>9. /\ z.h \in Handle /\ dirent[z.h].live /\ Creates(z) /\ z.name \in Name /\ Grow(p, z)
        /\ Absent(pointers, items, dirent[z.h].disk, z.name) /\ z.n * Items <= dirent[z.h].disk.size
    BY <2>1, <2>7, <2>8, <1>2, <1>4
  <2> HIDE DEF o, b, d
  <2> QED BY <1>0, <1>5, <2>1, <2>9, GrowLists
<1> QED BY <1>1, <1>6, <1>7, <1>8, <1>9

\* The block that is written brings the new item, with a name that is not there.
LEMMA DataLists ==
  ASSUME DiskAssumption, Typed, NEW w, Sound(w), Calm, Directories, AllAdding, NEW p \in Proc, Data(p),
         "twice" \notin hurt'
  PROVE  Directories' /\ AllAdding'
<1> DEFINE o == op[p]
           d == dirent[o.h].disk
<1>1. /\ Typed' /\ UNCHANGED <<bitmap, inode, pointers>> /\ SameDirents /\ o.at = "data"
      /\ \/ o.kind = "remove"
         \/ o.kind = "write" /\ Goes(p, NoOp) /\ items' = items
         \/ /\ Creates(o) /\ items' = [items EXCEPT ![o.b] = o.buf]
            /\ o.size <= dirent'[o.h].disk.size
            /\ \/ Goes(p, Finally(o))
               \/ Goes(p, Loading(o))
      /\ Noted("twice", Creates(o) /\ Rival(p, o))
  BY DataFacts, Zenon DEF Finally, Loading
<1>2. /\ o.kind # "remove" /\ o \in Operation /\ OpAt(w, bitmap, o, d, dirent[o.h].inum)
      /\ o.h \in Handle /\ dirent[o.h].live /\ d \in InodeRecord /\ dirent'[o.h].disk \in InodeRecord
      /\ o.i \in Slot /\ o.b \in Block
  BY <1>1, OpFacts, SoundFacts DEF Typed, Direntry, Operation
<1>3. CASE o.kind = "write" /\ Goes(p, NoOp) /\ items' = items
  BY <1>1, <1>3, IdleLists
<1>4. CASE /\ Creates(o) /\ items' = [items EXCEPT ![o.b] = o.buf]
           /\ o.size <= dirent'[o.h].disk.size
           /\ \/ Goes(p, Finally(o))
              \/ Goes(p, Loading(o))
  <2>1. Strict(o) /\ o.at # "user"
    BY <1>1 DEF Strict
  <2>2. Absent(pointers, items, d, o.name) /\ Carries(pointers, items, o, d)
    <3>1. Adding(pointers, items, o, d)
      BY <2>1, <1>4 DEF AllAdding
    <3> QED BY <2>1, <3>1 DEF Adding
  <2>3. o.b # 0 /\ o.b = Where(pointers, d, o.i)
    <3>1. Phase(pointers, items, o, d)
      BY <2>1, CalmFacts
    <3> QED BY <1>1, <1>2, <3>1 DEF OpAt, Phase
  <2>4. PICK t \in 1..Items :
          /\ o.buf[t] = TheItem(o)
          /\ \A j \in 1..Items \ {t} : o.buf[j] \in {Blank, Entry(pointers, items, d, o.i, j)}
          /\ o.size = -1 => t = 1 /\ o.i * Items + 1 <= d.size
          /\ o.size # -1 => o.size = o.i * Items + t
    BY <2>2 DEF Carries
  <2>5. o.i * Items + t <= dirent'[o.h].disk.size
    <3>1. d.size \in Nat /\ dirent'[o.h].disk.size \in Nat /\ d.size <= dirent'[o.h].disk.size
      <4>1. dirent'[o.h].disk.size >= dirent[o.h].disk.size
        BY <1>1, <1>2 DEF SameDirents
      <4>2. \A z \in InodeRecord : z.size \in Nat
        BY Constants DEF InodeRecord
      <4> QED BY <4>1, <4>2, <1>2
    <3>2. o.i * Items + 1 \in Nat /\ t \in Nat
      <4>1. o.i * Items \in Nat
        BY <1>2, PlaceInt
      <4> QED BY <4>1
    <3> QED BY <3>1, <3>2, <2>4, <1>4
  <2>6. \A j \in 1..Items \ {t} : o.buf[j] \in {Blank, items[o.b][j]}
    BY <2>3, <2>4 DEF Entry
  <2>7. ~Rival(p, op[p])
    BY <1>1, <1>4 DEF Noted
  <2>8. Alone(p, o.h)
    BY <2>1, CalmFacts
  <2>9. PICK x : Goes(p, x) /\ ~Strict(x) /\ x.at \notin {"scan", "ialloc", "add"}
    BY <1>2, <1>4, EndFacts DEF Strict
  <2>10. PICK h \in Handle, b \in Block \ {0}, i \in Slot, f \in {o.buf} : h = o.h /\ b = o.b /\ i = o.i
    BY <1>2, <2>3
  <2>11. Apart(p, h, b, t, f)
    BY <2>8, <2>10 DEF Apart
  <2>12. /\ b = Where(pointers, dirent[h].disk, i) /\ items' = [items EXCEPT ![b] = f]
         /\ f[t] = TheItem(op[p]) /\ \A j \in 1..Items \ {t} : f[j] \in {Blank, items[b][j]}
         /\ i * Items + t <= dirent'[h].disk.size
         /\ Absent(pointers, items, dirent[h].disk, op[p].name) /\ op[p].h = h
         /\ op[p].at # "user" /\ Creates(op[p])
    BY <1>4, <2>1, <2>2, <2>3, <2>4, <2>5, <2>6, <2>10, Zenon
  <2> HIDE DEF o, d
  <2> QED BY <1>1, <2>7, <2>9, <2>10, <2>11, <2>12, WrittenLists
<1> QED BY <1>1, <1>2, <1>3, <1>4

\* Every step keeps the names of a directory apart.
LEMMA NextLists ==
  ASSUME DiskAssumption, Typed, NEW w, Sound(w), Calm, Calm', Directories, AllAdding, Next, hurt' \subseteq {"full"}
  PROVE  Directories' /\ AllAdding'
<1>1. PICK p \in Proc :
        \/ \E kind \in Ops, h \in Handle, name \in Name : BeginScan(p, kind, h, name)
        \/ \E h \in Handle : Close(p, h) \/ \E k \in Slot : BeginWrite(p, h, k)
        \/ Scan(p) \/ InodeAlloc(p) \/ Add(p) \/ Load(p)
        \/ RemoveDir(p) \/ Free(p) \/ Wipe(p)
        \/ Alloc(p) \/ Save(p) \/ Zero(p) \/ GetPointer(p) \/ PutPointer(p) \/ Data(p)
  BY DEF Next
<1>0. "removed" \notin hurt' /\ "alias" \notin hurt' /\ "overlap" \notin hurt' /\ "twice" \notin hurt' /\ Typed'
  BY NextTyped
<1>2. CASE \E kind \in Ops, h \in Handle, name \in Name : BeginScan(p, kind, h, name)
  BY <1>2, BeginScanLists
<1>3. CASE \E h \in Handle : Close(p, h) \/ \E k \in Slot : BeginWrite(p, h, k)
  BY <1>0, <1>3, CloseLists, BeginWriteLists
<1>4. CASE Scan(p) \/ InodeAlloc(p) \/ Add(p) \/ Load(p)
  BY <1>0, <1>4, ScanLists, InodeAllocLists, AddLists, LoadLists
<1>5. CASE RemoveDir(p)
  BY <1>0, <1>5, RemoveDirLists
<1>6. CASE Free(p) \/ Wipe(p)
  <2>1. op[p].at \in {"free", "wipe"}
    BY <1>6, FreeFacts
  <2> QED BY <2>1 DEF Sound, InUse
<1>7. CASE Alloc(p)
  BY <1>0, <1>7, AllocLists
<1>8. CASE Save(p) \/ Zero(p) \/ GetPointer(p)
  BY <1>0, <1>8, SaveLists, ZeroLists, GetPointerLists
<1>9. CASE PutPointer(p) \/ Data(p)
  BY <1>0, <1>9, PutPointerLists, DataLists
<1> QED BY <1>1, <1>2, <1>3, <1>4, <1>5, <1>6, <1>7, <1>8, <1>9

\* A new volume has one item, the root directory's ".".
LEMMA InitLists ==
  ASSUME DiskAssumption, Init
  PROVE  Directories /\ AllAdding
<1> DEFINE dot == [name |-> ".", inum |-> 0, dir |-> TRUE]
           rootBlock == [BlankBlock EXCEPT ![1] = dot]
<1>0. /\ 0 \in Block /\ 1 \in Block /\ 0 \in Inum /\ Root \in Handle /\ Direct \in Nat \ {0} /\ Items \in Nat \ {0}
  BY Constants
<1>1. /\ \A h \in Handle : dirent[h].live <=> h = Root
      /\ dirent[Root].live /\ dirent[Root].inum = 0 /\ dirent[Root].disk = RootInode
      /\ \A n \in Inum : n # 0 => inode[n] = NoInode
      /\ items[0] = BlankBlock /\ items[1] = rootBlock
      /\ pointers[0] = NoPointers /\ \A p \in Proc : op[p] = NoOp
  BY <1>0 DEF Init, NoDirent
<1>2. AllAdding
  BY <1>1, Idle DEF AllAdding
<1>3. \A j \in 1..Items : BlankBlock[j].name = "none" /\ rootBlock[j].name = (IF j = 1 THEN "." ELSE "none")
  <2>1. \A j \in 1..Items : BlankBlock[j] = Blank /\ rootBlock[j] = (IF j = 1 THEN dot ELSE Blank)
    BY DEF BlankBlock
  <2>2. Blank.name = "none" /\ dot.name = "."
    BY DEF Blank
  <2> HIDE DEF dot, rootBlock
  <2> QED BY <2>1, <2>2
<1> HIDE DEF rootBlock, dot
<1>4. /\ RootInode.indirect = 0 /\ NoInode.indirect = 0 /\ RootInode.size = 1
      /\ \A k \in 0..(Direct - 1) : RootInode.direct[k] = (IF k = 0 THEN 1 ELSE 0) /\ NoInode.direct[k] = 0
  <2>1. FreshInode.direct = [k \in 0..(Direct - 1) |-> 0] /\ FreshInode.indirect = 0
    BY DEF FreshInode
  <2>2. RootInode.direct = [FreshInode.direct EXCEPT ![0] = 1] /\ RootInode.indirect = 0 /\ RootInode.size = 1
    BY <2>1 DEF RootInode, FreshInode
  <2>3. NoInode.direct = FreshInode.direct /\ NoInode.indirect = 0
    BY <2>1 DEF NoInode, FreshInode
  <2> QED BY <2>1, <2>2, <2>3, <1>0
<1>5. \A k \in Slot : /\ Where(pointers, NoInode, k) = 0
                      /\ Where(pointers, RootInode, k) = (IF k = 0 THEN 1 ELSE 0)
  <2>1. \A k \in Slot : /\ k < Direct => k \in 0..(Direct - 1)
                        /\ ~(k < Direct) => k - Direct \in 0..(PerBlock - 1) /\ k # 0
    BY Constants DEF Slot
  <2>2. \A j \in 0..(PerBlock - 1) : NoPointers[j] = 0
    BY DEF NoPointers
  <2> QED BY <2>1, <2>2, <1>1, <1>4 DEF Where
<1>6. \A k \in Slot, j \in 1..Items :
        /\ Entry(pointers, items, NoInode, k, j).name = "none"
        /\ Entry(pointers, items, RootInode, k, j).name = (IF k = 0 /\ j = 1 THEN "." ELSE "none")
  BY <1>1, <1>3, <1>5 DEF Entry
<1>7. Sized(pointers, items, NoInode) /\ Unique(pointers, items, NoInode)
  BY <1>6 DEF Sized, Unique
<1>8. Sized(pointers, items, RootInode)
  <2>1. 0 * Items + 1 <= RootInode.size
    BY <1>0, <1>4
  <2> QED BY <2>1, <1>6 DEF Sized
<1>9. Unique(pointers, items, RootInode)
  BY <1>6 DEF Unique
<1>10. \A h \in Handle : dirent[h].live => Sized(pointers, items, dirent[h].disk) /\ Unique(pointers, items, dirent[h].disk)
  BY <1>1, <1>8, <1>9
<1>11. \A n \in Inum : (\A h \in Handle : dirent[h].live => dirent[h].inum # n) =>
                          Sized(pointers, items, inode[n]) /\ Unique(pointers, items, inode[n])
  <2> SUFFICES ASSUME NEW n \in Inum, \A h \in Handle : dirent[h].live => dirent[h].inum # n
               PROVE  Sized(pointers, items, inode[n]) /\ Unique(pointers, items, inode[n])
    OBVIOUS
  <2>1. inode[n] = NoInode
    BY <1>0, <1>1
  <2> QED BY <2>1, <1>7
<1> QED BY <1>2, <1>10, <1>11 DEF Directories

\* A third invariant, when the disk may be full but nothing else went wrong: no name is in a
\* directory twice, an item is within the size, and what an operation will add is not there yet.
NamesInv == CalmInv /\ (hurt \subseteq {"full"} => Directories /\ AllAdding)
\* In every reachable state before which at most the disk was full, names are unique.
THEOREM NamesInvHolds == ASSUME DiskAssumption PROVE Spec => []NamesInv
<1>1. Init => NamesInv
  BY InitFacts, InitCalm, InitLists DEF NamesInv, CalmInv, DiskInv
<1>2. CalmInv /\ CalmInv' /\ NamesInv /\ [Next]_vars => NamesInv'
  <2> SUFFICES ASSUME CalmInv, CalmInv', NamesInv, [Next]_vars, hurt' \subseteq {"full"}
               PROVE  Directories' /\ AllAdding'
    BY DEF NamesInv
  <2>0. DiskInv /\ DiskInv'
    BY DEF CalmInv
  <2>1. hurt \subseteq {"full"} /\ Directories /\ AllAdding /\ Typed /\ "removed" \notin hurt
    BY <2>0, HurtGrows DEF NamesInv, DiskInv
  <2>2. Calm /\ Calm'
    BY <2>1 DEF CalmInv
  <2>3. PICK w : Sound(w)
    BY <2>0, <2>1 DEF DiskInv
  <2>4. CASE Next
    BY <2>1, <2>2, <2>3, <2>4, NextLists
  <2>5. CASE UNCHANGED vars
    BY <2>1, <2>5 DEF vars, Directories, AllAdding
  <2> QED BY <2>4, <2>5
<1>3. Spec => []CalmInv
  BY CalmInvHolds
<1> QED BY <1>1, <1>2, <1>3, PTL DEF Spec

\* The names on the disk are those of the copy in memory, where there is one.
LEMMA NamesInvImplies ==
  ASSUME DiskAssumption, NamesInv
  PROVE  NamesUnique
<1> SUFFICES ASSUME hurt \subseteq {"full"}, NEW n \in DirInums, NEW e \in Entries(n), NEW f \in Entries(n),
                    ItemAt(n, e).name = ItemAt(n, f).name
             PROVE  e = f
  BY DEF NamesUnique
<1>0. Directories /\ Calm /\ Typed
  BY DEF NamesInv, CalmInv, DiskInv
<1>1. PICK w : Sound(w)
  BY DEF NamesInv, CalmInv, DiskInv
<1>2. n \in Inum
  BY <1>0, Constants DEF DirInums, Typed, Direntry
<1>3. Slot = 0..(Direct + PerBlock - 1) /\ pointers[0] = NoPointers
  BY <1>0, <1>1, CalmFacts DEF Slot
<1>4. ASSUME NEW g \in Entries(n)
      PROVE  /\ g[1] \in Slot /\ g[2] \in 1..Items /\ g = <<g[1], g[2]>>
             /\ Where(pointers, inode[n], g[1]) \in Block \ {0}
             /\ ItemAt(n, g) = Entry(pointers, items, inode[n], g[1], g[2])
             /\ ItemAt(n, g).name # "none"
  <2>1. /\ g \in Slot \X (1..Items)
        /\ BlockOf(inode[n], g[1]) # 0 /\ items[BlockOf(inode[n], g[1])][g[2]] # Blank
    BY <1>3 DEF Entries
  <2>2. g[1] \in Slot /\ g[2] \in 1..Items /\ g = <<g[1], g[2]>>
    BY <2>1
  <2>3. BlockOf(inode[n], g[1]) = Where(pointers, inode[n], g[1])
    BY DEF BlockOf, Where
  <2>4. Where(pointers, inode[n], g[1]) \in Block
    <3>1. inode[n] \in InodeRecord
      BY <1>0, <1>2 DEF Typed
    <3> QED BY <3>1, <2>2, <1>0, BlockOfIn
  <2>5. ItemAt(n, g) = Entry(pointers, items, inode[n], g[1], g[2])
    BY <2>3 DEF ItemAt, Entry
  <2>6. ItemAt(n, g) \in Item
    <3>1. items[Where(pointers, inode[n], g[1])] \in ItemBlock
      BY <2>4, <1>0 DEF Typed
    <3>2. ItemAt(n, g) = items[Where(pointers, inode[n], g[1])][g[2]]
      BY <2>5 DEF Entry
    <3> QED BY <3>1, <3>2, <2>2 DEF ItemBlock
  <2>7. ItemAt(n, g).name # "none"
    BY <2>1, <2>6 DEF ItemAt, Item
  <2> QED BY <2>1, <2>2, <2>3, <2>4, <2>5, <2>7
<1>5. CASE \A h \in Handle : dirent[h].live => dirent[h].inum # n
  <2>1. Unique(pointers, items, inode[n])
    BY <1>0, <1>2, <1>5 DEF Directories
  <2>2. e[1] = f[1] /\ e[2] = f[2]
    BY <2>1, <1>4 DEF Unique
  <2>3. e = <<e[1], e[2]>> /\ f = <<f[1], f[2]>>
    BY <1>4
  <2> QED BY <2>2, <2>3
<1>6. ASSUME NEW h \in Handle, dirent[h].live, dirent[h].inum = n PROVE e = f
  <2> DEFINE d == dirent[h].disk
  <2>1. Unique(pointers, items, d) /\ Behind(inode[n], d)
    BY <1>0, <1>6 DEF Directories, Calm, Ahead
  <2>2. ASSUME NEW g \in Entries(n)
        PROVE  ItemAt(n, g) = Entry(pointers, items, d, g[1], g[2])
    <3>1. /\ g[1] < Direct => g[1] \in 0..(Direct - 1)
          /\ ~(g[1] < Direct) => g[1] - Direct \in 0..(PerBlock - 1)
      BY <1>4, Constants DEF Slot
    <3>2. \A j \in 0..(PerBlock - 1) : NoPointers[j] = 0
      BY DEF NoPointers
    <3>3. Where(pointers, inode[n], g[1]) # 0
      BY <1>4
    <3> HIDE DEF d
    <3>4. Where(pointers, d, g[1]) = Where(pointers, inode[n], g[1])
      BY <3>1, <3>2, <3>3, <2>1, <1>3 DEF Where, Behind
    <3> QED BY <3>4, <1>4 DEF Entry
  <2>3. e[1] = f[1] /\ e[2] = f[2]
    <3> HIDE DEF d
    <3> QED BY <2>1, <2>2, <1>4 DEF Unique
  <2>4. e = <<e[1], e[2]>> /\ f = <<f[1], f[2]>>
    BY <1>4
  <2> QED BY <2>3, <2>4
<1> QED BY <1>5, <1>6

=============================================================================
