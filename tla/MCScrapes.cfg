\* One scraper and two sources, which may fail at any time.
SPECIFICATION Spec
CONSTANTS
  billing = billing
  finops = finops
  Sources = {billing, finops}
  Attempts <- MCAttempts
  Scrapers = {1}
  ReadyOrder <- MCReadyOrder
INVARIANTS
  ReadyMeansData
  OneSnapshotPerScrape
  ScrapesNeverGoBack
PROPERTIES
  NotReadyIsTrue
  ReadersNeverWait
