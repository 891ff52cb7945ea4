\* Two readers compete; four events go around a ring of three slots and may overflow it.
CONSTANTS
  Size = 3
  Reader = {r1, r2}
  MaxRequest = 2
  MaxPosts = 4
SPECIFICATION Spec
  
PROPERTY IsStream
\* The devices stop after MaxPosts events and the readers may all be asleep.
CHECK_DEADLOCK FALSE
