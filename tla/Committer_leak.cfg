CONSTANTS
  Last = 1
  s1 = s1
  s2 = s2
  Settings = {s1, s2}
  Unset = Unset
  Specs <- OneSpec
  Troubles = {}
  MaxTroubles = 0
SPECIFICATION FairSpec
PROPERTIES ChildrenFollowCommitter
CHECK_DEADLOCK FALSE
