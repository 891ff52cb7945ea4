\* The disks, kernels, machines and cards that boot; the other bounds stand in the module.
CONSTANTS
  MaxSector = {9, 18, 63}
  MaxHead = {0, 1, 127}
  MaxCylinder = {79, 127}
  KernelSize = {1, 511, 512, 513, 65536, 66000}
  Megabytes = {4, 17, 100}
  Modes = {{}, {1}, {1, 2, 3}, {2, 4}}
SPECIFICATION HardwareSpec
INVARIANTS  BootRight TimeRight  OutputRight
