SPECIFICATION Spec
CONSTANTS
  Charges <- MCCharges
  Org = 1
  OtherSKU = 9
  Lookback = 1
  PerResource = FALSE
  MaxSeries = 2
  LastMonth = 1
  MaxFetches = 2
INVARIANTS
  TypeOK
  SnapshotWhole
  TotalExact
  KeptAreTheLargest
  LabelsUnique
  IncompleteIsCounted
CHECK_DEADLOCK FALSE
