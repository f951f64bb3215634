SPECIFICATION Spec
CONSTANTS
  d1 = d1
  d2 = d2
  r1 = r1
  r2 = r2
  None = None
  Docs <- OneDoc
  Requests <- OneRequest
  Verdicts = {"approve"}
  MaxRetry = 2
  BatchLimit = 1
  MaxDecisions = 1
  MaxFaults = 0
PROPERTY
  PurgeLosesNothing
