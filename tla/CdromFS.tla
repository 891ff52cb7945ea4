------------------------------- MODULE CdromFS ------------------------------
(***************************************************************************)
(* The CD-ROM file system, kernel/cdromfs.c: mounting a disc, looking a    *)
(* name up in a directory and listing one.                                 *)
(*                                                                         *)
(* Each of them reads one sector after the other into a page that          *)
(* page_alloc does not clear, and does not look at the result of the read: *)
(* after a read that fails the page holds what it held before.  A name is  *)
(* its length with the final zero, so different names differ.  fix_filename*)
(* ends a name with a zero in place; when nothing follows the name of a    *)
(* directory of odd length this is the length of the next record, which    *)
(* ends the sector.                                                        *)
(***************************************************************************)
EXTENDS Integers, Sequences, SequencesExt, FiniteSetsExt

CONSTANTS
  Name,          \* names of files and directories
  Tight,         \* whether a record may end with its name
  PerSector,     \* records of a sector at most
  MaxSectors,    \* sectors of a directory at most
  Descriptors,   \* volume descriptors looked at, 16 in the code
  Space,         \* lengths of the buffers for a list
  Failures,      \* whether reads may fail
  MaxCalls       \* bound: calls

CdromAssumption ==
  /\ Name \subseteq Nat \ {0, 1} /\ {PerSector, MaxSectors, Descriptors} \subseteq Nat \ {0}
  /\ {Tight, Failures} \subseteq BOOLEAN /\ Space \subseteq Nat /\ MaxCalls \in Nat

CDROMFS_BLOCK_SIZE == 4                             \* scaled
Record == [name : Name, tight : IF Tight THEN BOOLEAN ELSE {FALSE}, sector : Nat]
Volume == {"boot", "primary", "terminator", "bad"}
Dir == {1, 2}
Nothing == [name |-> 0, tight |-> FALSE, sector |-> 0]

VARIABLES
  disc,       \* the records of each sector of each directory
  size,       \* dir->size, in bytes
  area,       \* the volume descriptors
  page,       \* records in the page
  descriptor, \* the volume descriptor in the page
  call,       \* the running call, or "none"
  dir, name, i,            \* its directory, name and sector
  space, copied, total,    \* of a list: room left, names copied, the result
  result,     \* of the last call
  asked,      \* of the last call: what, in which directory, which name or space
  calls

vars == <<disc, size, area, page, descriptor, call, dir, name, i, space, copied, total, result,
          asked, calls>>
fixed == <<disc, size, area>>

TypeOK ==
  /\ call \in {"none", "lookup", "list", "open"} /\ dir \in Dir /\ name \in Name \cup {0}
  /\ i \in Nat /\ space \in Nat /\ total \in Nat
  /\ Len(page) <= PerSector /\ calls \in 0..MaxCalls

\* The records of a directory are numbered, so that each has another first sector.
Init ==
  /\ disc \in [Dir -> UNION {[1..n -> SeqOf({[name |-> m, tight |-> t, sector |-> 0] :
                                              m \in Name, t \in (IF Tight THEN BOOLEAN ELSE {FALSE})},
                                            PerSector)] : n \in 1..MaxSectors}]
  /\ \A d \in Dir : \A s \in DOMAIN disc[d] :
       /\ disc[d][s] # << >>
       /\ \A t \in DOMAIN disc[d] : \A a \in DOMAIN disc[d][s], b \in DOMAIN disc[d][t] :
            disc[d][s][a].name = disc[d][t][b].name => s = t /\ a = b
  /\ size \in [Dir -> {CDROMFS_BLOCK_SIZE * n - r : n \in 1..MaxSectors, r \in {0, 1}}]
  /\ \A d \in Dir : (size[d] + CDROMFS_BLOCK_SIZE - 1) \div CDROMFS_BLOCK_SIZE = Len(disc[d])
  /\ area \in [1..Descriptors -> Volume]
  /\ page = << >> /\ descriptor = "bad" /\ call = "none" /\ dir = 1 /\ name = 0 /\ i = 0
  /\ space = 0 /\ copied = << >> /\ total = 0 /\ result = Nothing
  /\ asked = <<"none", 1, 0>> /\ calls = 0

-----------------------------------------------------------------------------
\* Mutant: only the sectors that are full.
nsectors_Full(d) == size[d] \div CDROMFS_BLOCK_SIZE
nsectors(d) ==
  size[d] \div CDROMFS_BLOCK_SIZE + (IF size[d] % CDROMFS_BLOCK_SIZE # 0 THEN 1 ELSE 0)

\* cdrom_dirent_read_block into the page, or a failure nobody looks at.
Read(d, s) ==
  \/ page' = [k \in DOMAIN disc[d][s] |-> [disc[d][s][k] EXCEPT !.sector = (100 * d) + (10 * s) + k]]
  \/ Failures /\ page' = page

\* The records that a walk over page p meets: fix_filename cuts the page after a tight one.
Walked(p) ==
  LET cut == {k \in DOMAIN p : p[k].tight}
  IN  IF cut = {} THEN p ELSE SubSeq(p, 1, Min(cut))

Begin(op, d, n, sp) ==
  /\ call = "none" /\ calls < MaxCalls /\ calls' = calls + 1
  /\ call' = op /\ dir' = d /\ name' = n /\ i' = 0
  /\ space' = sp /\ copied' = << >> /\ total' = 0 /\ asked' = <<op, d, n + sp>>
  /\ result' = Nothing
  /\ UNCHANGED <<fixed, page, descriptor>>

End(r) == call' = "none" /\ result' = r /\ UNCHANGED <<dir, name, space, copied, total, i>>

\* A sector of cdrom_dirent_lookup: read, and searched for the name.
cdrom_dirent_lookup ==
  /\ call = "lookup"
  /\ IF i = nsectors(dir) THEN End(Nothing) /\ page' = page
     ELSE /\ Read(dir, i + 1)
          /\ LET found == {k \in DOMAIN Walked(page') : page'[k].name = name}
             IN  IF found = {} THEN i' = i + 1 /\ UNCHANGED <<call, dir, name, space, copied, total, result>>
                 ELSE End(page'[Min(found)])
  /\ UNCHANGED <<fixed, descriptor, asked, calls>>

\* Whether a name is copied to a list.  Mutant: also one that fills the buffer.
Fits_Exactly(n, left) == left >= n
Fits(n, left) == left > n

\* The names of records p added to a list, one at a time, while there is room.
Listed(p, l) ==
  FoldLeft(LAMBDA acc, r : IF acc.left <= 0 THEN acc
                           ELSE [left |-> IF Fits(r.name, acc.left) THEN acc.left - r.name ELSE acc.left,
                                 names |-> IF Fits(r.name, acc.left) THEN Append(acc.names, r.name)
                                           ELSE acc.names,
                                 sum |-> acc.sum + r.name],
           l, p)

cdrom_dirent_list ==
  /\ call = "list"
  /\ IF i = nsectors(dir) THEN End(Nothing) /\ page' = page
     ELSE /\ Read(dir, i + 1) /\ i' = i + 1
          /\ LET l == Listed(Walked(page'), [left |-> space, names |-> copied, sum |-> total])
             IN  space' = l.left /\ copied' = l.names /\ total' = l.sum
          /\ UNCHANGED <<call, dir, name, result>>
  /\ UNCHANGED <<fixed, descriptor, asked, calls>>

\* cdrom_volume_open looks at one volume descriptor.
Terminates(d) == d = "terminator"

cdrom_volume_open ==
  /\ call = "open"
  /\ IF i = Descriptors THEN End(Nothing) /\ descriptor' = descriptor
     ELSE /\ \/ descriptor' = area[i + 1]
             \/ Failures /\ descriptor' = descriptor
          /\ IF descriptor' = "primary" THEN End([Nothing EXCEPT !.sector = i + 1])
             ELSE IF Terminates(descriptor') THEN End(Nothing)
             ELSE i' = i + 1 /\ UNCHANGED <<call, dir, name, space, copied, total, result>>
  /\ UNCHANGED <<fixed, page, asked, calls>>

Done == call = "none" /\ calls = MaxCalls /\ UNCHANGED vars

Next ==
  \/ \E d \in Dir, n \in Name : Begin("lookup", d, n, 0)
  \/ \E d \in Dir, sp \in Space : Begin("list", d, 0, sp)
  \/ Begin("open", 1, 0, 0)
  \/ cdrom_dirent_lookup \/ cdrom_dirent_list \/ cdrom_volume_open
  \/ Done

Spec == Init /\ [][Next]_vars

-----------------------------------------------------------------------------
Records(d) == FlattenSeq([s \in DOMAIN disc[d] |->
                [k \in DOMAIN disc[d][s] |-> <<disc[d][s][k].name, (100 * d) + (10 * s) + k>>]])
Sum(s) == FoldLeft(LAMBDA a, b : a + b, 0, s)
Names(d) == [k \in DOMAIN Records(d) |-> Records(d)[k][1]]
Returned(op) == call = "none" /\ asked[1] = op

\* "A fs_dirent represents one directory entry [...]  It contains the basic information about
\* the object" (kernel/fs.h): a lookup gives the record of that name in that directory, in
\* whichever of its sectors it is, and nothing when there is none; but the result of reading a
\* sector is not looked at ("XXX check result here!").
LookupRight ==
  Returned("lookup") /\ ~Failures =>
    LET is == {k \in DOMAIN Records(asked[2]) : Records(asked[2])[k][1] = asked[3]}
    IN  result.sector = IF is = {} THEN 0 ELSE Records(asked[2])[Min(is)][2]

\* A list counts every name of the directory, "If there is enough space, keep copying items. If
\* not, count them up to return the value." (kernel/cdromfs.c); it copies all of them when
\* they fit, and never more than fits.  A name that fills its record is cut off by a zero in the
\* length of the next record (fix_filename), which ends the sector.
ListRight ==
  Returned("list") /\ asked[3] > 0 =>
    /\ Sum(copied) < asked[3]
    /\ ~Failures /\ ~Tight =>
         /\ total = Sum(Names(asked[2]))
         /\ total < asked[3] => copied = Names(asked[2])

\* The volume that is mounted is the first primary one before the last descriptor, and a disc
\* without one is not mounted (cdrom_volume_open).
OpenRight ==
  Returned("open") =>
    LET ends == {k \in DOMAIN area : area[k] \in {"primary", "terminator"}}
    IN  result.sector =
          IF ends = {} THEN 0 ELSE IF area[Min(ends)] = "primary" THEN Min(ends) ELSE 0
=============================================================================
