SPECIFICATION Spec
CONSTANTS
  ConsumptionReports <- MCConsumptionReports
  TaxReports <- MCTaxReports
  Org = "org"
  Projects = {"p1"}
  Lookback = 1
  NoName = ""
  LastMonth = 1
  MaxFetches = 2
INVARIANTS
  TypeOK
  SnapshotWhole
  NeverSilentlyWrong
  CurrentNamesWin
CHECK_DEADLOCK FALSE
