\* Three processes and four pids, so that pids wrap around and are used again.
CONSTANTS
  MaxPid = 5
  MaxProcs = 3
  MaxDepth = 4
  MaxTicks = 0
  LoadYields = TRUE
SPECIFICATION Spec
INVARIANTS TypeOK   NoStrandedParent KillFitsStack
PROPERTIES  KillComplete
\* The kernel stops for good when it faults.
CHECK_DEADLOCK FALSE
