\* The bounds of lists and hash sets; those of the other parts stand in the module.
CONSTANTS
  List = {11, 12}
  Node = {1, 2, 3, 4}
  Priority = {1, 2}
  MaxStray = 2
  Keys = {1, 2, 3, 5, 7}
  Data = {1, 2}
  Buckets = 2
  MaxNodes = 5
SPECIFICATION ResourcesSpec
INVARIANTS   TablesRight
 
CHECK_DEADLOCK FALSE
