SPECIFICATION FairStreamSpec
CONSTANTS
  Writer = {w1, w2}
  Content = {a, b}
  NoWriter = NoWriter
  MaxSeq = 4
  MaxAppends = 2
INVARIANTS
  ChainVerifies
  BackstopNeverFires
  NothingSkipped
  ObjectMatchesKey
  NoFalseAlarm
PROPERTIES
  NumbersAppearInOrder
  IsAppendOnlyLog
  AppendsAreServed
  OnlyNewRecordsWritten
