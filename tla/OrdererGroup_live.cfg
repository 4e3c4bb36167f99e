CONSTANTS
  MaxBatchers = 2
  s1 = s1
  s2 = s2
  id1 = id1
  id2 = id2
  Settings = {s1, s2}
  Unset = Unset
  Ids = {id1, id2}
  Specs <- GrowingSpecs
  MaxUid = 1
  MaxEdits = 1
  MaxFaults = 2
  FaultKinds = {"object", "child", "crash"}
SPECIFICATION FairSpec
INVARIANTS QuietMeansConverged QuietMeansRunning
PROPERTIES Settles DeletionCompletes ChildrenFollowGroup
CHECK_DEADLOCK FALSE
