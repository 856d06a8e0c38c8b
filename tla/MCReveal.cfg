\* Two anonymizers of two documents and a dataset, one rotation, one deletion,
\* one reveal, three administrative requests.
CONSTANTS
  w1 = w1  w2 = w2  d1 = d1  d2 = d2  csv = csv
  Jansen = Jansen  jansen = jansen  number = number  n1 = n1  n2 = n2  and = and
  PERSON = PERSON  BSN = BSN  clerk = clerk  admin = admin  reader = reader
  Doc = {d1, d2, csv}
  Dataset = {csv}
  NoDoc = NoDoc
  SourceText <- Texts
  Spelling <- Spellings
  NormOf <- Norms
  TypeOf <- Types
  LayerOf <- Layers
  Type = {PERSON, BSN}
  Worker = {w1, w2}
  MaxKeys = 4
  MaxRotations = 1
  MaxRuns = 2
  MaxDeletions = 1
  Caller = {clerk, admin}
  NoCaller = NoCaller
  ADMIN = ADMIN
  Role = {ADMIN, reader}
  NoRole = NoRole
  PiiType = {PERSON, BSN}
  Document = {d1, d2}
  AnyDocument = AnyDocument
  Domain = {"default"}
  DomainOf <- DefaultDomain
  Issuers = {admin}
  AuthEnabled = TRUE
  AllowGlobal = FALSE
  VcKey = 1
  NoVcKey = 0
  VcRequired = FALSE
  MaxGrants = 1
  MaxChanges = 3
  GrantBodies <- Bodies
  RoleTypes <- RoleTypeSets
  Asks <- AsksMade
  Admin = admin
  Deleters = {clerk, admin}
  Kid = {1, 2}
  MaxRequests = 1
SPECIFICATION Spec
CONSTRAINT Apart
CHECK_DEADLOCK FALSE
INVARIANTS ReferencedTokensResolve MappingsOpen OneTokenPerRotation
  RevealsWhatWasThere RevealsWhatWasPermitted
