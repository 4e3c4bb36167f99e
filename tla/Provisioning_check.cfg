CONSTANTS
  Kinds = {"genesis", "identity", "caenrollment", "endorser", "ca"}
  c1 = c1
  c2 = c2
  Settings = {c1, c2}
  Unset = Unset
  Due = Due
  Specs <- MCSpecs
  Needs <- MCNeeds
  Object <- MCObject
  Input <- MCInput
  Serials = {1, 2, 3, 4, 5, 6, 7, 8}
  Lagging <- MCLagging
  Troubles <- MCTroubles
  MaxTroubles = 1
SPECIFICATION FairSpec
INVARIANTS IInv
PROPERTIES FollowsFinalizerProtocol DeletionCompletes BlockFollowsSpec IdentityVerdict EnrolmentKept EndorserRolledOut CARolledOut KeysStay
CHECK_DEADLOCK FALSE
