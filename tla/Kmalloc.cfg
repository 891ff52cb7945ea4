SPECIFICATION Spec
CONSTANTS
  Unit = 2
  Length = 16
  MaxRequest = 3
INVARIANTS TypeOK ListOK NoOverlap FreeOnce Coalesced
PROPERTY IsAllocator
