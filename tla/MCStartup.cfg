\* What Validate accepts starts, as it was configured.
SPECIFICATION StartSpec
CONSTANTS
  Starts <- MCStarts
  Uuids = {"uuid"}
  Nil = Nil
INVARIANTS
  ValidatedNeverRejected
  RunsAsConfigured
CHECK_DEADLOCK FALSE
