CONSTANTS
  w1 = w1  w2 = w2  c1 = c1  c2 = c2
  Worker = {w1, w2}
  Doc = {c1, c2}
  Name = {"A", "B"}
  NoWorker = NoWorker
  MaxDossiers = 4
  MaxTopics = 1
  MaxOperations = 3
  MinSize = 1
  Delivered = {c1}
  FirstName = "A"
SPECIFICATION FairSpec
CHECK_DEADLOCK FALSE
INVARIANTS DossiersAreSound TrailTellsMembership IndexKnowsDossiers
PROPERTIES HeldIsKept TopicsKept OperationsEnd
