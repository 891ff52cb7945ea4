\* One reader, as every window of the window manager has.
CONSTANTS
  Size = 3
  Reader = {r1}
  MaxRequest = 2
  MaxPosts = 5
SPECIFICATION FairSpec
INVARIANT SoleReaderServed
PROPERTY ReadReturns
\* The devices stop after MaxPosts events and the reader may be asleep.
CHECK_DEADLOCK FALSE
