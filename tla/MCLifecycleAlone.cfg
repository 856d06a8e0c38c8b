SPECIFICATION Spec
CONSTANTS
  w1 = w1  w2 = w2  d1 = d1  d2 = d2  d3 = d3
  digital = digital  scan = scan  ocr = ocr
  poor = poor  corrupt = corrupt  unreadable = unreadable
  Worker <- Workers1
  NoWorker = NoWorker
  Doc <- Docs3
  NoDoc = NoDoc
  Key <- AllKeys
  NoKey = NoKey
  Released = Released
  Kind <- MCKind
  OcrOf <- MCOcrOf
  Ops = {"deliver", "delete", "reanonymize", "event"}
  Crashes = TRUE
  MaxOps = 4
INVARIANTS HitIsServed DeletedIsGone
PROPERTIES DeletionRemovesObject
CHECK_DEADLOCK FALSE
SYMMETRY Symmetry
