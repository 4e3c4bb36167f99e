CONSTANTS
  MaxBatchers = 2
  s1 = s1
  s2 = s2
  id1 = id1
  id2 = id2
  Settings = {s1, s2}
  Unset = Unset
  Ids = {id1, id2}
  Specs <- GrowingSpecs
  MaxUid = 2
  MaxEdits = 1
  MaxFaults = 1
  FaultKinds = {"status", "object", "child", "crash"}
SPECIFICATION Spec
INVARIANTS TypeOK IInv
PROPERTIES FollowsFinalizerProtocol CreatedForLiveGroup NoSpecRollback
CHECK_DEADLOCK FALSE
