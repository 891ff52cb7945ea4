\* Two processes at a time; every sleep lasts at most one clock interrupt more.
CONSTANTS
  MaxPid = 4
  MaxProcs = 2
  MaxDepth = 3
  MaxTicks = 1
  LoadYields = FALSE
SPECIFICATION FairSpec
PROPERTY SleepEnds
\* The kernel stops for good when it faults.
CHECK_DEADLOCK FALSE
