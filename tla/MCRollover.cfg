\* One source over the end of a month, at any time of its delays.
SPECIFICATION RolloverSpec
CONSTANTS
  finops = finops
  billing = billing
  Sources = {finops}
  Disabled = {billing}
  Errors <- MCErrors
  Interval <- MCInterval
  Timeout <- MCTimeout
  MinBackoff <- MCMinBackoff
  MaxBackoff <- MCMaxBackoff
  JitterNum = 1
  JitterDen = 4
  MaxObserved = 3
  Lookback <- MCLookback
  MonthLength = 14
  ScrapeTicks = 1
INVARIANTS
  FreshMeansCurrent
  CurrentInScrape
