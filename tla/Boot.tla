-------------------------------- MODULE Boot --------------------------------
(***************************************************************************)
(* Booting: the bootblock (kernel/bootblock.S) has the BIOS load the       *)
(* kernel one sector at a time from the disk it came from, walking over    *)
(* sectors, heads and cylinders, and jumps there; the kernel's 16 bit      *)
(* start (kernel/kernelcore.S) asks the BIOS for the size of memory and    *)
(* for a video mode and enters kernel_main.  The BIOS is external.         *)
(* Hardware adds its other parts to this one.                              *)
(***************************************************************************)
EXTENDS Integers, Sequences

CONSTANTS
  MaxSector, MaxHead, MaxCylinder,  \* the geometries: the largest number of each
  KernelSize,                       \* sizes of kernels, in bytes
  Megabytes,                        \* sizes of memory
  Modes                             \* sets of the video modes a card may have

SectorSize == 512

\* A sector number has six bits, a head number eight and a cylinder number ten; the 1152 sectors
\* behind 0x10000 end at the video memory, 0xa0000.
BootAssumption ==
  /\ MaxSector \subseteq 2..63 /\ MaxHead \subseteq 0..255 /\ MaxCylinder \subseteq 0..1023
  /\ KernelSize \subseteq Nat \ {0} /\ \A size \in KernelSize : size < 1152 * SectorSize
  /\ Megabytes \subseteq 3..4095 /\ Modes \subseteq SUBSET (1..4)

ASSUME BootAssumed == BootAssumption

KernelSegment == 4096            \* 0x1000
Unset == 65535                   \* the initial value of sectors_left

VARIABLES
  device,          \* "boot", or a part of Hardware
  disk,            \* the geometry: [sectors, heads, cylinders, size], size of the kernel on it
  ch, dh, cl,      \* cylinder, head and sector
  es, bx,          \* where the next sector goes
  sectors_left,
  memory,          \* what was loaded: from the address to the number of the sector on the disk
  machine,         \* [megabytes, modern, modes]: the rest of the machine
  total_memory,
  mode,            \* the video mode that is tried or set, 0 after the last
  stage            \* "load", "memory", "video", "main" or "halt"

bootVars == <<disk, ch, dh, cl, es, bx, sectors_left, memory, machine, total_memory, mode, stage>>

\* The number of a sector on the disk.
Lba(c, h, s) == (((c * (disk.heads + 1)) + h) * disk.sectors) + s - 1
Address(seg, off) == (seg * 16) + off

BootTypeOK ==
  /\ ch \in 0..255 /\ dh \in 0..255 /\ cl \in 1..disk.sectors
  /\ es \in {KernelSegment * i : i \in 1..9} /\ bx \in {SectorSize * i : i \in 0..127}
  /\ sectors_left \in 0..Unset /\ total_memory \in 0..4095 /\ mode \in 0..4
  /\ stage \in {"load", "memory", "video", "main", "halt"}

BootInit ==
  /\ disk \in [sectors : MaxSector, heads : MaxHead, cylinders : MaxCylinder, size : KernelSize]
  /\ machine \in [megabytes : Megabytes, modern : BOOLEAN, modes : Modes]
  /\ ch = 0 /\ dh = 0 /\ cl = 2 /\ es = KernelSegment /\ bx = 0 /\ sectors_left = Unset
  /\ memory = <<>> /\ total_memory = 0 /\ mode = 4 /\ stage = "load"

\* A byte as jle takes it.
Signed(b) == IF b >= 128 THEN b - 256 ELSE b

\* The sectors that are left once one more was loaded; the first holds the size of the kernel.
Remaining == (IF sectors_left = Unset THEN (disk.size \div SectorSize) + 1
              ELSE sectors_left) - 1

\* checksegment.  Mutant: the segment stays.
NextSegment_Same(off) == <<es, off % 65536>>
NextSegment(off) == IF off = 65536 THEN <<es + 4096, 0>> ELSE <<es, off>>

\* nextsector: cylinder, head and sector of the next one.
InTrack(s) == Signed(s) <= Signed(disk.sectors)
NextSector ==
  IF InTrack(cl + 1) THEN <<ch, dh, cl + 1>>
  ELSE IF Signed((dh + 1) % 256) <= Signed(disk.heads) THEN <<ch, (dh + 1) % 256, 1>>
  ELSE <<(ch + 1) % 256, 0, 1>>
\* There is a next sector.  The BIOS gives eight bits of the last cylinder in %ch.
Goes(next) == next[1] # ch => Signed(next[1]) <= Signed(disk.cylinders % 256)

\* loadsector, up to the jump into the kernel.
loadsector ==
  /\ stage = "load"
  /\ memory' = Append(memory, [at |-> Address(es, bx), lba |-> Lba(ch, dh, cl)])
  /\ sectors_left' = Remaining
  /\ LET segment == NextSegment(bx + SectorSize)
     IN  IF Remaining = 0 THEN stage' = "memory" /\ UNCHANGED <<ch, dh, cl, es, bx>>
         ELSE /\ es' = segment[1] /\ bx' = segment[2]
              /\ ch' = NextSector[1] /\ dh' = NextSector[2] /\ cl' = NextSector[3]
              /\ stage' = IF Goes(NextSector) THEN "load" ELSE "memory"
  /\ UNCHANGED <<disk, machine, total_memory, mode>>

Least(a, b) == IF a < b THEN a ELSE b
\* What the two BIOS calls give: kilobytes above 1 MB up to 16 MB, and 64 kilobyte blocks above
\* 16 MB; or kilobytes above 1 MB up to 64 MB.
Call_e801 == <<1024 * (Least(machine.megabytes, 16) - 1),
               16 * (IF machine.megabytes > 16 THEN machine.megabytes - 16 ELSE 0)>>
Call_88 == 1024 * (Least(machine.megabytes, 64) - 1)

\* memtest1, when the BIOS knows the call, or memtest2; in megabytes.  Mutant: the blocks are
\* taken for megabytes of eight.
memtest_Wide == IF machine.modern THEN (Call_e801[1] \div 1024) + (Call_e801[2] \div 8)
                ELSE (Call_88 \div 1024) + 1
memtest == IF machine.modern THEN (Call_e801[1] \div 1024) + (Call_e801[2] \div 16)
           ELSE (Call_88 \div 1024) + 1
Measure ==
  /\ stage = "memory" /\ total_memory' = memtest /\ stage' = "video"
  /\ UNCHANGED <<disk, ch, dh, cl, es, bx, sectors_left, memory, machine, mode>>

\* video1024 down to video640_lowcolor, 4 to 1: each is tried, the next one when the card does
\* not have it, and after the last the machine halts.
NextMode(n) == n - 1
Set ==
  /\ stage = "video" /\ mode \in machine.modes /\ stage' = "main"
  /\ UNCHANGED <<disk, ch, dh, cl, es, bx, sectors_left, memory, machine, total_memory, mode>>
TryNext ==
  /\ stage = "video" /\ mode \notin machine.modes
  /\ mode' = NextMode(mode) /\ stage' = IF mode' = 0 THEN "halt" ELSE stage
  /\ UNCHANGED <<disk, ch, dh, cl, es, bx, sectors_left, memory, machine, total_memory>>

Stopped == stage \in {"main", "halt"} /\ UNCHANGED bootVars
BootNext == loadsector \/ Measure \/ Set \/ TryNext \/ Stopped

\* The disks that the bootblock can read: it compares heads and cylinders as signed bytes, so
\* 128 comes before 127, and the kernel has to fit behind it.
FitsOn(size, sectors) == (size \div SectorSize) + 1 < sectors
SmallDisks ==
  /\ MaxHead \subseteq 0..127 /\ MaxCylinder \subseteq 0..127
  /\ \A s \in MaxSector, h \in MaxHead, c \in MaxCylinder, size \in KernelSize :
       FitsOn(size, (c + 1) * ((h + 1) * s)) /\ (h = 127 => FitsOn(size, (h + 1) * s))

-----------------------------------------------------------------------------
\* When control goes to the kernel, the whole of it is in memory, in order and without a gap,
\* from the sector after the bootblock (loadsector: three nested counters and a segment), for
\* SmallDisks.
Loaded ==
  stage # "load" =>
    /\ Len(memory) * SectorSize >= disk.size
    /\ \A i \in DOMAIN memory :
         memory[i] = [at |-> Address(KernelSegment, 0) + ((i - 1) * SectorSize), lba |-> i]

\* The kernel is not told of memory that the machine does not have, and loses at most one
\* megabyte when the machine has no more than the BIOS call can tell (memtest1, memtest2).
MemoryRight ==
  stage \in {"main", "halt"} =>
    /\ total_memory <= machine.megabytes
    /\ machine.modern \/ machine.megabytes <= 64 => total_memory >= machine.megabytes - 1

\* The kernel is entered with the best mode of the card, and not entered when it has none.
VideoRight ==
  /\ stage = "main" => mode \in machine.modes /\ \A n \in machine.modes : n <= mode
  /\ stage = "halt" => machine.modes = {}

\* The kernel was entered, or the machine has stopped for want of a video mode.
Booted == stage \in {"main", "halt"}

-----------------------------------------------------------------------------
(* Booting among other parts *)

NotBooting ==
  /\ disk = 0 /\ ch = 0 /\ dh = 0 /\ cl = 0 /\ es = 0 /\ bx = 0 /\ sectors_left = 0 /\ memory = 0
  /\ machine = 0 /\ total_memory = 0 /\ mode = 0 /\ stage = 0

BootStart == device = "boot" /\ BootInit
DevicesStart == device # "boot" /\ NotBooting
BootStep == device = "boot" /\ BootNext /\ UNCHANGED device
DevicesStep == device # "boot" /\ UNCHANGED <<device, bootVars>>

MachineInit == BootStart \/ DevicesStart
MachineNext == BootStep \/ DevicesStep
MachineSpec == MachineInit /\ [][MachineNext]_<<device, bootVars>>

\* The kernel is entered with all of its sectors in place, no more memory than there is, and
\* the best video mode (bootblock.S, kernelcore.S).
BootRight == device = "boot" => BootTypeOK /\ Loaded /\ MemoryRight /\ VideoRight
=============================================================================
