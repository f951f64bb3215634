SPECIFICATION FairSpec
CONSTANTS
  d1 = d1
  d2 = d2
  r1 = r1
  r2 = r2
  None = None
  Docs <- TwoDocs
  Requests <- OneRequest
  Verdicts = {"approve"}
  MaxRetry = 2
  BatchLimit = 1
  MaxDecisions = 0
  MaxFaults = 1
PROPERTY
  QueueDrains
