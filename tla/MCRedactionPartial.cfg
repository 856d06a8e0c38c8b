SPECIFICATION Spec
CONSTANTS
  Doc = {"x", "y"}
  Pages <- MCPages
  Spelling <- MCSpelling
  Words <- MCWords
  CaseOf <- MCCase
  NormOf <- MCNormOf
  TypeOf <- MCTypeOf
  PageBreak = {"P./Jansen"}
  Folded = {"person"}
  Thin = {"stamp"}
  Found = {"Jansen", "jansen", "P. Jansen", "P./Jansen", "1-2-80", "80-02-01"}
  Shared = {}
  Hash = {"a", "b"}
  Allow <- MCAllowIn
  Deny <- MCDenyIn
  Worker = {w1, w2}
  MaxRequests = 3
  MaxDeploys = 2
INVARIANT NoPartialBoxMap
CHECK_DEADLOCK FALSE
