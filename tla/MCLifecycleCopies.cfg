SPECIFICATION Spec
CONSTANTS
  w1 = w1  w2 = w2  d1 = d1  d2 = d2  d3 = d3
  digital = digital  scan = scan  ocr = ocr
  poor = poor  corrupt = corrupt  unreadable = unreadable
  Worker <- Workers2
  NoWorker = NoWorker
  Doc <- Docs3
  NoDoc = NoDoc
  Key <- DigitalAndScan
  NoKey = NoKey
  Released = Released
  Kind <- MCKind
  OcrOf <- MCOcrTwice
  Ops = {"deliver", "reanonymize", "event"}
  Crashes = TRUE
  MaxOps = 4
INVARIANTS OneEntryPerContent OnceIndexedIsServed
CHECK_DEADLOCK FALSE
SYMMETRY Symmetry
