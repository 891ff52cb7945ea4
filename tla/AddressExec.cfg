CONSTANTS
  Proc = {p1, p2, p3}
  Init1 = p1
  NPages = 50
  HeapMax = 4
  Ops = {"run", "fork", "exec", "heap", "fault", "write", "reap", "kill"}
  MaxOps = 4
SPECIFICATION Spec
INVARIANT ExecSafe
CHECK_DEADLOCK FALSE
