\* Two processes, each with a cache of its own.
CONSTANTS
  w1 = w1  w2 = w2  p1 = p1  p2 = p2  o1 = o1  NoObj = NoObj
  Worker = {w1, w2}
  Process = {p1, p2}
  ProcessOf <- TwoProcesses
  Obj = {o1}
  MaxKeys = 4
  MaxDocs = 5
SPECIFICATION Spec
CHECK_DEADLOCK FALSE
INVARIANT SealedUnderItsRow
