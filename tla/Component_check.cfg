CONSTANTS
  Kinds = {"consenter", "batcher", "assembler", "router", "sidecar", "coordinator", "validator", "verifier", "queryservice"}
  Settings = {1, 2}
  Unset = 0
  Specs <- MCSpecs
  Chosen <- MCChosen
  Serials = {1, 2, 3, 4, 5, 6, 7, 8, 9, 10, 11, 12, 13}
  Omitted <- MCOmitted
  Lagging <- MCLagging
  Troubles <- MCTroubles
  MaxTroubles = 1
SPECIFICATION FairSpec
INVARIANTS IInv
PROPERTIES FollowsFinalizerProtocol LiveObjectsStay CertificatesStay EventuallyDeployed DeployedWithInputs PodsCanStart FailureReported DeletionCompletes
CHECK_DEADLOCK FALSE
