CONSTANTS
  MaxBatchers = 2
  s1 = s1
  s2 = s2
  id1 = id1
  id2 = id2
  Settings = {s1, s2}
  Unset = Unset
  Ids = {id1, id2}
  Specs <- ShrinkingSpecs
  MaxUid = 1
  MaxEdits = 1
  MaxFaults = 0
  FaultKinds = {"object", "child", "crash"}
SPECIFICATION Spec
INVARIANT QuietMeansNoSurplus
CHECK_DEADLOCK FALSE
