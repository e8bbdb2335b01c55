SPECIFICATION Spec
CONSTANTS
  billing = billing
  finops = finops
  Sources = {billing, finops}
  Errors <- MCErrors
  Interval <- MCInterval
  Timeout <- MCTimeout
  MinBackoff <- MCInterval
  MaxBackoff <- MCInterval
  JitterNum = 1
  JitterDen = 4
  MaxObserved = 1
  Requests = {1}
INVARIANTS
  CleanExit
  FailureHasCause
PROPERTIES
  SignalEndsExporter
  ListenFailureEndsExporter
  RefresherSpec
