------------------------------ MODULE Storage ------------------------------
(***************************************************************************)
(* The disk driver, the buffer cache, the disk file system and the reading *)
(* and writing of files as TLC checks them: DiskFS itself, two instances   *)
(* of Ata and BufferCache and one of FileIO.  Each is an abstraction of    *)
(* what is below it, so a behaviour is one of a single part, which is      *)
(* chosen at the beginning.  The disk file system has its own variables,   *)
(* the instances share v1, v2, ...                                         *)
(***************************************************************************)
EXTENDS DiskProofs, TLC

CONSTANTS
  Two, Three   \* interchangeable values: processes, and processes or blocks

VARIABLES
  part,   \* the part that runs, chosen at the beginning
  v1, v2, v3, v4, v5, v6, v7, v8, v9, v10, v11   \* its variables, unless it is the disk file system; the rest is 0

Ata == INSTANCE AtaProofs WITH
  Proc <- Three, MaxCount <- 2, MaxBlocks <- 3, Kinds <- {"read", "write"}, MaxJobs <- 3,
  locked <- v1, waitqueue <- v2, at <- v3, job <- v4, got <- v5, result <- v6, drive <- v7,
  disk <- v8, jobs <- v9, mixed <- v10, lost <- v11
Probed == INSTANCE AtaProofs WITH
  Proc <- Two, MaxCount <- 2, MaxBlocks <- 1, Kinds <- {"read", "write", "packet", "identify"},
  MaxJobs <- 3,
  locked <- v1, waitqueue <- v2, at <- v3, job <- v4, got <- v5, result <- v6, drive <- v7,
  disk <- v8, jobs <- v9, mixed <- v10, lost <- v11
Cache == INSTANCE BufferCacheProofs WITH
  Proc <- Two, Device <- {1}, Block <- Three, CacheSize <- 2, Failing <- {"read", "write"},
  MaxEntries <- 3, MaxWrites <- 1,
  cache <- v1, size <- v2, entry <- v3, disk <- v4, call <- v5, answer <- v6, writes <- v7,
  truth <- v8, raced <- v9, fault <- v10
SoleCache == INSTANCE BufferCacheProofs WITH
  Proc <- {1}, Device <- {1, 2, 3}, Block <- {1}, CacheSize <- 2, Failing <- {"read"},
  MaxEntries <- 3, MaxWrites <- 2,
  cache <- v1, size <- v2, entry <- v3, disk <- v4, call <- v5, answer <- v6, writes <- v7,
  truth <- v8, raced <- v9, fault <- v10
FileIO == INSTANCE FileIO WITH
  Fd <- {1, 2}, Byte <- {"u", "v"}, Unknown <- "?", BlockSize <- 3, MaxBlocks <- 2, Word <- 16,
  Lengths <- {1, 2, 5, 15}, MaxCalls <- 4,
  block <- v1, size <- v2, offset <- v3, got <- v4, calls <- v5, wrapped <- v6

shared == <<v1, v2, v3, v4, v5, v6, v7, v8, v9, v10, v11>>
storageVars == <<part, shared, vars>>

-----------------------------------------------------------------------------
NoVolume ==
  /\ bitmap = 0 /\ inode = 0 /\ items = 0 /\ pointers = 0 /\ dirent = 0 /\ op = 0 /\ ops = 0 /\ hurt = 0
StorageInit ==
  \/ part = "ata" /\ Ata!Init /\ NoVolume
  \/ part = "probe" /\ Probed!Init /\ NoVolume
  \/ part = "cache" /\ Cache!Init /\ v11 = 0 /\ NoVolume
  \/ part = "sole" /\ SoleCache!Init /\ v11 = 0 /\ NoVolume
  \/ /\ part = "diskfs" /\ Init
     /\ v1 = 0 /\ v2 = 0 /\ v3 = 0 /\ v4 = 0 /\ v5 = 0 /\ v6 = 0 /\ v7 = 0 /\ v8 = 0 /\ v9 = 0
     /\ v10 = 0 /\ v11 = 0
  \/ part = "file" /\ FileIO!Init /\ v7 = 0 /\ v8 = 0 /\ v9 = 0 /\ v10 = 0 /\ v11 = 0 /\ NoVolume

InAta == part = "ata" /\ UNCHANGED <<part, vars>>
InProbed == part = "probe" /\ UNCHANGED <<part, vars>>
InCache == part = "cache" /\ UNCHANGED <<part, v11, vars>>
InSoleCache == part = "sole" /\ UNCHANGED <<part, v11, vars>>
InVolume == part = "diskfs" /\ UNCHANGED <<part, shared>>
InFileIO == part = "file" /\ UNCHANGED <<part, v7, v8, v9, v10, v11, vars>>

StorageNext ==
  \/ InAta /\ Ata!Next
  \/ InProbed /\ Probed!Next
  \/ InCache /\ Cache!Next
  \/ InSoleCache /\ SoleCache!Next
  \/ InVolume /\ Next
  \/ InFileIO /\ FileIO!Next

ASSUME StorageAssumption ==
  /\ Ata!AtaAssumption /\ Probed!AtaAssumption /\ Cache!CacheAssumption
  /\ SoleCache!CacheAssumption /\ DiskAssumption /\ FileIO!IOAssumption

StorageSpec == StorageInit /\ [][StorageNext]_storageVars

Symmetry == Permutations(Two) \cup Permutations(Three)

-----------------------------------------------------------------------------
\* The mutex keeps commands apart and, unless a kill hit the holder or the process just woken,
\* leaves nobody asleep, while drives fail, time out and are probed (ata.c, mutex.c).
DriveRight ==
  /\ part = "ata" => Ata!TypeOK /\ Ata!Exclusive /\ Ata!NoneStranded
  /\ part = "probe" => Probed!TypeOK /\ Probed!Exclusive /\ Probed!NoneStranded

\* However calls overlap, the cache has one entry for a block, keeps to its size and, up to
\* the races recorded in raced, loses nothing that was written; when calls do not overlap no
\* freed entry is used (bcache.c).
CacheRight ==
  /\ part = "cache" => Cache!TypeOK /\ Cache!OneEntry /\ Cache!Bounded /\ Cache!NothingLost
  /\ part = "sole" => SoleCache!NeverFaults

\* Two processes that create, write and remove files, interleaved at every block they read
\* or write, leave each block with one owner, names unique, entries with inodes and no block
\* lost, up to what is recorded in hurt (diskfs.c).
VolumeRight ==
  part = "diskfs" => TypeOK /\ OneOwner /\ NamesUnique /\ EntriesLive /\ NoLeak

\* The layers implement what is above them: a transfer that is reported as done moved the
\* sectors it was asked for, the cache used by one process is a store of blocks (BlockStore),
\* and the blocks of a file are a sequence of bytes (FileStep).
StorageImplements ==
  /\ part = "sole" => SoleCache!Store!Init
  /\ part = "file" => FileIO!Content = <<>>
  /\ [](part = "file" => FileIO!TypeOK /\ FileIO!InFile)
  /\ [][/\ part = "ata" => Ata!TransferRight
        /\ part = "probe" => Probed!TransferRight
        /\ part = "sole" => SoleCache!StoreStep
        /\ part = "file" => FileIO!FileStep]_storageVars

-----------------------------------------------------------------------------
(* What the parts are proved to do, they do here *)

\* The part that was chosen stays.
LEMMA PartStays == [StorageNext]_storageVars => part' = part
BY DEF StorageNext, storageVars, InAta, InProbed, InCache, InSoleCache, InVolume, InFileIO

\* A step of the suite is a step of the part that was chosen.
LEMMA StepOfPart ==
  ASSUME [StorageNext]_storageVars
  PROVE  /\ part = "ata" => [Ata!Next]_Ata!vars
         /\ part = "probe" => [Probed!Next]_Probed!vars
         /\ part = "cache" => [Cache!Next]_Cache!vars
         /\ part = "sole" => [SoleCache!Next]_SoleCache!vars
         /\ part = "diskfs" => [Next]_vars
BY DEF StorageNext, storageVars, shared, InAta, InProbed, InCache, InSoleCache, InVolume, InFileIO,
       Ata!vars, Probed!vars, Cache!vars, SoleCache!vars

\* The suite begins as the part that was chosen.
LEMMA StartOfPart ==
  ASSUME StorageInit
  PROVE  /\ part = "ata" => Ata!Init
         /\ part = "probe" => Probed!Init
         /\ part = "cache" => Cache!Init
         /\ part = "sole" => SoleCache!Init
         /\ part = "diskfs" => Init
BY DEF StorageInit

\* The driver and its mutex (ata.c, mutex.c), whatever the processes are: one command at a time,
\* and nobody asleep for a mutex that no one will unlock.
THEOREM DriveRightHolds == StorageSpec => []DriveRight
<1> DEFINE A == part = "ata"
           P == part = "probe"
<1>1. Ata!Spec => []Ata!AInv
  BY StorageAssumption, Ata!AtaInv
<1>2. Probed!Spec => []Probed!AInv
  BY StorageAssumption, Probed!AtaInv
<1>3. StorageInit => (A => Ata!Init) /\ (P => Probed!Init)
  BY StartOfPart
<1>4. [StorageNext]_storageVars => (A => [Ata!Next]_Ata!vars) /\ (P => [Probed!Next]_Probed!vars)
  BY StepOfPart
<1>5. [StorageNext]_storageVars => (A' <=> A) /\ (P' <=> P)
  BY PartStays
<1>6. (A => Ata!AInv) /\ (P => Probed!AInv) => DriveRight
  BY DEF DriveRight, Ata!AInv, Probed!AInv
<1> HIDE DEF A, P
<1> QED BY <1>1, <1>2, <1>3, <1>4, <1>5, <1>6, PTL DEF StorageSpec, Ata!Spec, Probed!Spec

\* The buffer cache (bcache.c), whatever the processes and the blocks are: one entry for a block,
\* a list within its limit, nothing lost but for the recorded races, and no freed entry used
\* when calls do not overlap.
THEOREM CacheRightHolds == StorageSpec => []CacheRight
<1> DEFINE C == part = "cache"
           S == part = "sole"
<1>1. /\ Cache!Spec => []Cache!CacheInv
      /\ Cache!Spec => []Cache!OneEntry
      /\ Cache!Spec => []Cache!Bounded
      /\ Cache!Spec => []Cache!NothingLost
  BY StorageAssumption, Cache!BufferCacheInv, Cache!OneEntryHolds, Cache!BoundedHolds,
     Cache!NothingLostHolds
<1>2. SoleCache!Spec => []SoleCache!NeverFaults
  <2>1. SoleCache!SoleClient
    BY DEF SoleCache!SoleClient
  <2> QED BY <2>1, StorageAssumption, SoleCache!NeverFaultsHolds
<1>3. StorageInit => (C => Cache!Init) /\ (S => SoleCache!Init)
  BY StartOfPart
<1>4. [StorageNext]_storageVars => (C => [Cache!Next]_Cache!vars) /\ (S => [SoleCache!Next]_SoleCache!vars)
  BY StepOfPart
<1>5. [StorageNext]_storageVars => (C' <=> C) /\ (S' <=> S)
  BY PartStays
<1>6. /\ C => Cache!CacheInv /\ Cache!OneEntry /\ Cache!Bounded /\ Cache!NothingLost
      /\ S => SoleCache!NeverFaults
      => CacheRight
  BY DEF CacheRight, Cache!CacheInv
<1> HIDE DEF C, S
<1> QED BY <1>1, <1>2, <1>3, <1>4, <1>5, <1>6, PTL DEF StorageSpec, Cache!Spec, SoleCache!Spec

\* The disk file system (diskfs.c), whatever the volume and the processes are: a block has one
\* owner and an entry an inode in use until a removal, a name is in a directory once, and no
\* block is lost, up to the races recorded in hurt.
THEOREM VolumeRightHolds == StorageSpec => []VolumeRight
<1> DEFINE V == part = "diskfs"
<1>0. DiskAssumption
  BY StorageAssumption
<1>1. Spec => []TypeOK /\ []OneOwner /\ []NamesUnique /\ []EntriesLive /\ []NoLeak
  <2>1. DiskInv => TypeOK /\ OneOwner /\ EntriesLive
    BY <1>0, DiskInvImplies
  <2>2. NamesInv => DiskInv /\ NoLeak /\ NamesUnique
    BY <1>0, CalmInvImplies, NamesInvImplies DEF NamesInv, CalmInv
  <2>3. Spec => []NamesInv
    BY <1>0, NamesInvHolds
  <2> QED BY <2>1, <2>2, <2>3, PTL
<1>3. StorageInit => (V => Init)
  BY StartOfPart
<1>4. [StorageNext]_storageVars => (V => [Next]_vars)
  BY StepOfPart
<1>5. [StorageNext]_storageVars => (V' <=> V)
  BY PartStays
<1>6. (V => TypeOK /\ OneOwner /\ NamesUnique /\ EntriesLive /\ NoLeak) => VolumeRight
  BY DEF VolumeRight
<1> HIDE DEF V
<1> QED BY <1>1, <1>3, <1>4, <1>5, <1>6, PTL DEF StorageSpec, Spec
=============================================================================
