CONSTANTS
  Kinds = {"assembler"}
  Settings = {1, 2}
  Unset = 0
  Specs <- MCSpecs
  Chosen <- JustStored
  Serials = {1, 2, 3, 4, 5, 6, 7, 8, 9, 10, 11, 12, 13}
  Omitted <- Nought
  Lagging <- Nought
  Troubles <- Nought
  MaxTroubles = 0
SPECIFICATION FairSpec
PROPERTIES StorageRuns
CHECK_DEADLOCK FALSE
