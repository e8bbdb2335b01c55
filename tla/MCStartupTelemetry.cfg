\* A telemetry path Validate accepts may still be refused by ServeMux.
SPECIFICATION StartSpec
CONSTANTS
  Starts <- MCStarts
  Uuids = {"uuid"}
  Nil = Nil
INVARIANT EveryProblemReported
CHECK_DEADLOCK FALSE
