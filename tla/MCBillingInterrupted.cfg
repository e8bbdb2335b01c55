SPECIFICATION Spec
CONSTANTS
  ConsumptionReports <- MCConsumptionReports
  TaxReports <- MCTaxReports
  Org = "org"
  Projects = {"p1"}
  Lookback = 1
  NoName = ""
  LastMonth = 1
  MaxFetches = 1
INVARIANT InterruptedNotRecorded
CHECK_DEADLOCK FALSE
