SPECIFICATION ServicesSpec
CONSTANTS
  Text <- MCText
  Word <- MCWord
  Size <- MCSize
  Space = " "
  Newline = "nl"
  Slash = "/"
  Scheme = "https://"
  Number = "250"
  PoBox = "postbus"
  Digits <- MCDigits
  Signs <- MCSigns
  EmailPiece = {"j@x.nl"}
  PostcodePiece = {"1404GZ"}
  FirstName = {"jan"}
  Particle = {"van"}
  LastName = {"bos"}
  DenyList <- MCDeny
  AllowList <- MCAllow
  LabelsOf <- MCLabels
  MaxChars = 3
  Concurrency = 2
  MinLen = 3
  Attempts = 2
  Checker = {w1, w2, w3}
  Limited = {"/search"}
  ApiKey = {k1}
  Address = {a1}
  NoApiKey = none
  One = 2
  Burst <- MCBurst
  Rate <- MCRate
  MaxTime = 3
  MaxChecks = 5
  Entry = {"a", "b", "c"}
  Folder = {"f1", "f2"}
  Unknown = "other"
  Theme = {"t1"}
  NoTheme = "none"
  Recall = 2
  Multiple = 3782
  Asked = 2
  EmbedAttempts = 2
  MaxWrites = 1
  LexicalOrders <- MCLexical
  NearOrders <- MCNear
  Start <- MCStart
  Ask <- MCAsk
  Uploader = {c1}
  File = {"a", "b"}
  Bytes = {"d", "s", "o", "x", "e"}
  KindOf <- MCKind
  OcrOf <- MCOcr
  Case = {"A", "B"}
  NoCase = "none"
  Url = {"u"}
  NoUrl = "none"
  Manifests <- MCManifests
  Orders <- MCOrders
  BatchSize = 2
  MaxEdits = 1
  MaxFaults = 1
  FirstDisk <- MCDisk
  Edits <- MCEdits
  RunCase = {"B"}
  MaxHandlers = 2
  MaxRegistered = 4
  Doc = {"x", "y"}
  Pages <- MCPages
  Spelling <- MCSpelling
  Words <- MCWords
  CaseOf <- MCCase
  NormOf <- MCNormOf
  TypeOf <- MCTypeOf
  PageBreak = {"P./Jansen"}
  Folded = {"person"}
  Thin = {"stamp"}
  Found = {"Jansen", "jansen", "P. Jansen", "P./Jansen", "1-2-80", "80-02-01"}
  Shared = {"Jansen", "80-02-01"}
  Hash = {"a", "b"}
  Allow <- MCAllowIn
  Deny <- MCDenyIn
  Worker = {p1, p2}
  MaxRequests = 3
  MaxDeploys = 2
INVARIANTS PdfsHide OnlyValuesGo BudgetHolds AnswerIsTheScope ReportsAreTrue
\* every text and every request comes to an end, and so do the seconds
CHECK_DEADLOCK FALSE
SYMMETRY Swap
