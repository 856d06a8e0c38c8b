SPECIFICATION FairSpec
CONSTANTS
  Writer = {w1, w2}
  Content = {a}
  NoWriter = NoWriter
  MaxSeq = 3
  MaxAppends = 2
INVARIANTS
  NothingSkipped
  ObjectIsComplete
PROPERTIES
  ExportCatchesUp
