CONSTANTS
  Last = 2
  s1 = s1
  s2 = s2
  Settings = {s1, s2}
  Unset = Unset
  Specs <- EditedSpecs
  Troubles = {"object", "status", "child", "crash", "edit", "recreate", "touch"}
  MaxTroubles = 1
SPECIFICATION FairSpec
INVARIANTS IInv
PROPERTIES FollowsFinalizerProtocol NoSpecRollback EventuallyConverged DeletionCompletes
CHECK_DEADLOCK FALSE
