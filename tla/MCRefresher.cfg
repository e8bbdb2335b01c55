\* One source through up to six attempts, several failures in a row.
SPECIFICATION Spec
CONSTANTS
  billing = billing
  Sources = {billing}
  Errors <- MCErrors
  Interval <- MCInterval
  Timeout <- MCTimeout
  MinBackoff <- MCMinBackoff
  MaxBackoff <- MCMaxBackoff
  JitterNum = 1
  JitterDen = 4
  MaxObserved = 6
INVARIANTS
  UpImpliesServing
  ShutdownNotCounted
  SettledStateAgrees
  ErrorsAddUp
  StalenessBounded
  IInv
PROPERTIES
  ShutdownCompletes
  KeepsRefreshing
  ServesLastGood
