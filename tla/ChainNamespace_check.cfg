CONSTANTS
  Specs <- MixedSpecs
  Flaky = {"identity"}
  MaxUid = 2
  MaxEdits = 1
  MaxFaults = 1
  MaxStale = 1
  FaultKinds = {"object", "status", "deploy", "broadcast", "crash"}
SPECIFICATION FairSpec
INVARIANTS IInv QuietMeansDeployed
PROPERTIES RecordsAcceptedTransaction EventuallyDeployed DeletionCompletes
CHECK_DEADLOCK FALSE
