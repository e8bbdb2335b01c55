SPECIFICATION Spec
CONSTANTS
  Trees <- MCTrees
  FirstDay <- MCFirstDay
  Lookback = 1
  DailyOffsetDays = 2
  Nil = Nil
  MaxChildren = 3
  Reported = {2, 5}
  Days = {5, 6}
  MaxFetches = 2
INVARIANTS
  OnlyCompleteDays
  MonthsTile
  LabelledByMonth
  SeriesFollowTree
CHECK_DEADLOCK FALSE
