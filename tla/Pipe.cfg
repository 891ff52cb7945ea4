\* Three processes and a ring of three slots; a request fills it completely.
CONSTANTS
  Size = 3
  Proc = {p1, p2, p3}
  MaxTransfer = 2
  MaxBytes = 5
SPECIFICATION PipeSpec
INVARIANTS InOrder SleepJustified NoGridlock
PROPERTY OverrunAtStart
\* When MaxBytes are written a writer that wants to write more does not go on.
CHECK_DEADLOCK FALSE
