CONSTANTS
  Specs <- MixedSpecs
  Flaky = {"orderer"}
  MaxUid = 1
  MaxEdits = 0
  MaxFaults = 0
  MaxStale = 1
  FaultKinds = {}
SPECIFICATION Spec
PROPERTIES OperatorKeepsSpec
CHECK_DEADLOCK FALSE
