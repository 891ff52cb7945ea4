------------------------------ MODULE Resources ------------------------------
(***************************************************************************)
(* The instances of the kernel's objects, memory and tables that TLC       *)
(* checks: KObject, FSLayer, CdromFS twice, AddressSpace, PageMap, and the *)
(* lists and hash sets of Tables.  A behaviour is one of a single part,    *)
(* which is chosen at the beginning.  A step is one of Tables: its part is *)
(* one of the two there, or it leaves their variables alone.               *)
(***************************************************************************)
EXTENDS Tables

VARIABLES
  v1, v2, v3, v4, v5, v6, v7, v8, v9, v10, v11, v12, v13, v14, v15   \* of the other parts; the rest is 0

KObject == INSTANCE KObject WITH
  Proc <- {1, 2}, Shell <- 1, MaxFd <- 2, MaxObj <- 4, MaxRes <- 4, MaxCalls <- 4,
  state <- v1, ktable <- v2, obj <- v3, res <- v4, call <- v5, fault <- v6, calls <- v7
FSLayer == INSTANCE FSLayer WITH
  Proc <- {"kshell", "user"}, Shell <- "kshell",
  Kinds <- {"open", "list", "mkdir", "remove", "format", "install"}, MaxFd <- 2,
  MaxDirents <- 4, MaxVolumes <- 3, MaxDevices <- 3, MaxCalls <- 4,
  heap <- v1, ktable <- v2, walk <- v3, oldword <- v4, lost <- v5, answer <- v6, calls <- v7,
  hurt <- v8
CdromFS == INSTANCE CdromFS WITH
  Name <- {2, 5}, Tight <- FALSE, PerSector <- 2, MaxSectors <- 2, Descriptors <- 2,
  Space <- {0, 3, 5, 7}, Failures <- FALSE, MaxCalls <- 2,
  disc <- v1, size <- v2, area <- v3, page <- v4, descriptor <- v5, call <- v6, dir <- v7,
  name <- v8, i <- v9, space <- v10, copied <- v11, total <- v12, result <- v13, asked <- v14,
  calls <- v15
WornDisc == INSTANCE CdromFS WITH
  Name <- {2, 3}, Tight <- TRUE, PerSector <- 2, MaxSectors <- 2, Descriptors <- 2,
  Space <- {0, 5}, Failures <- TRUE, MaxCalls <- 1,
  disc <- v1, size <- v2, area <- v3, page <- v4, descriptor <- v5, call <- v6, dir <- v7,
  name <- v8, i <- v9, space <- v10, copied <- v11, total <- v12, result <- v13, asked <- v14,
  calls <- v15
AddressSpace == INSTANCE AddressSpace WITH
  Proc <- {1, 2, 3}, Init1 <- 1, NPages <- 50, HeapMax <- 4,
  Ops <- {"run", "fork", "exec", "heap", "fault", "write", "reap", "kill"}, MaxOps <- 4,
  free <- v1, content <- v2, proc <- v3, used <- v4, ops <- v5, hurt <- v6
PageMap == INSTANCE PageMap WITH
  PagesTotal <- 8, ByteBits <- 2, CellBits <- 4, PageBytes <- 4,
  freemap <- v1, pages_free <- v2, used <- v3, halted <- v4

shared == <<v1, v2, v3, v4, v5, v6, v7, v8, v9, v10, v11, v12, v13, v14, v15>>
resourcesVars == <<part, listsVars, setVars, shared>>

-----------------------------------------------------------------------------
NothingShared ==
  /\ v1 = 0 /\ v2 = 0 /\ v3 = 0 /\ v4 = 0 /\ v5 = 0 /\ v6 = 0 /\ v7 = 0 /\ v8 = 0
  /\ v9 = 0 /\ v10 = 0 /\ v11 = 0 /\ v12 = 0 /\ v13 = 0 /\ v14 = 0 /\ v15 = 0
ResourcesInit ==
  \/ part = "objects" /\ KObject!Init /\ OthersStart
      /\ v8 = 0 /\ v9 = 0 /\ v10 = 0 /\ v11 = 0 /\ v12 = 0 /\ v13 = 0 /\ v14 = 0 /\ v15 = 0
  \/ part = "files" /\ FSLayer!Init /\ OthersStart
      /\ v9 = 0 /\ v10 = 0 /\ v11 = 0 /\ v12 = 0 /\ v13 = 0 /\ v14 = 0 /\ v15 = 0
  \/ part = "disc" /\ CdromFS!Init /\ OthersStart
  \/ part = "worn" /\ WornDisc!Init /\ OthersStart
  \/ part = "space" /\ AddressSpace!Init /\ OthersStart
      /\ v7 = 0 /\ v8 = 0 /\ v9 = 0 /\ v10 = 0 /\ v11 = 0 /\ v12 = 0 /\ v13 = 0 /\ v14 = 0 /\ v15 = 0
  \/ part = "pages" /\ PageMap!Init /\ OthersStart
      /\ v5 = 0 /\ v6 = 0 /\ v7 = 0 /\ v8 = 0 /\ v9 = 0 /\ v10 = 0 /\ v11 = 0 /\ v12 = 0 /\ v13 = 0
      /\ v14 = 0 /\ v15 = 0
  \/ NothingShared /\ (ListsStart \/ SetsStart)

InKObject == part = "objects" /\ OthersStep /\ UNCHANGED <<v8, v9, v10, v11, v12, v13, v14, v15>>
InFSLayer == part = "files" /\ OthersStep /\ UNCHANGED <<v9, v10, v11, v12, v13, v14, v15>>
InCdromFS == part = "disc" /\ OthersStep
InWornDisc == part = "worn" /\ OthersStep
InAddressSpace == part = "space" /\ OthersStep /\ UNCHANGED <<v7, v8, v9, v10, v11, v12, v13, v14, v15>>
InPageMap == part = "pages" /\ OthersStep /\ UNCHANGED <<v5, v6, v7, v8, v9, v10, v11, v12, v13, v14, v15>>

ResourcesNext ==
  \/ InKObject /\ KObject!Next
  \/ InFSLayer /\ FSLayer!Next
  \/ InCdromFS /\ CdromFS!Next
  \/ InWornDisc /\ WornDisc!Next
  \/ InAddressSpace /\ AddressSpace!Next
  \/ InPageMap /\ PageMap!Next
  \/ ListsStep /\ UNCHANGED shared
  \/ SetsStep /\ UNCHANGED shared

ASSUME ResourcesAssumption ==
  /\ KObject!ObjectAssumption /\ FSLayer!FSAssumption /\ CdromFS!CdromAssumption
  /\ WornDisc!CdromAssumption /\ AddressSpace!SpaceAssumption /\ PageMap!MapAssumption

ResourcesSpec == ResourcesInit /\ [][ResourcesNext]_resourcesVars

-----------------------------------------------------------------------------
\* Counts of references are exact and nothing freed is used: objects, windows, consoles and
\* pipes behind descriptors (kobject.c), directory entries, volumes and devices (fs.c), while
\* descriptors are copied, inherited and closed and processes are killed and reaped.
ReferencesExact ==
  /\ part = "objects" => /\ KObject!TypeOK /\ KObject!Private
                         /\ KObject!RefsExact /\ KObject!NoDangling
  /\ part = "files" => FSLayer!TypeOK /\ FSLayer!RefsExact /\ FSLayer!NoDangling

\* Names lead where they say: paths, unless two processes walk one at the same time and share
\* the place of strtok (fs.c), and the records of a disc (cdromfs.c).
NamesRight ==
  /\ part = "files" => FSLayer!PathRight
  /\ part = "disc" => /\ CdromFS!TypeOK /\ CdromFS!LookupRight
                      /\ CdromFS!ListRight /\ CdromFS!OpenRight
  /\ part = "worn" => WornDisc!TypeOK /\ WornDisc!ListRight

\* A page has one use, what a program uses is mapped, and a program starts in clear memory
\* (process.c, pagetable.c, loader.c); pages are counted, and those behind the end of memory
\* are given out last (page.c).
MemoryRight ==
  /\ [](part = "space" => AddressSpace!TypeOK /\ AddressSpace!OneUse /\ AddressSpace!UsedMapped)
  /\ [](part = "pages" => PageMap!TypeOK /\ PageMap!CounterExact)
  /\ [][/\ part = "space" => AddressSpace!StartsClean
        /\ part = "pages" => PageMap!RealFirst]_resourcesVars
=============================================================================
