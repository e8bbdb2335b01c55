\* The cap of the backoff, as documented.
SPECIFICATION Spec
CONSTANTS
  billing = billing
  Sources = {billing}
  Errors <- MCErrors
  Interval <- MCInterval
  Timeout <- MCTimeout
  MinBackoff <- MCMinBackoff
  MaxBackoff <- MCMaxBackoff
  JitterNum = 1
  JitterDen = 4
  MaxObserved = 4
INVARIANT RetryWithinMaxBackoff
