\* The values that are interchangeable; the bounds of the disk file system; the other bounds
\* stand in the module.
CONSTANTS
  Two = {p, q}
  Three = {a, b, c}
  Proc = {p, q}
  Name = {"m", "n"}
  NBlocks = 5
  NInodes = 3
  Direct = 1
  PerBlock = 1
  Items = 2
  MaxHandles = 2
  MaxOps = 4
  Ops = {"mkfile", "mkdir", "open", "write", "close", "remove"}
SPECIFICATION StorageSpec
SYMMETRY Symmetry
INVARIANTS DriveRight CacheRight 
PROPERTY StorageImplements
CHECK_DEADLOCK FALSE
