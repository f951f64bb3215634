SPECIFICATION Spec
CONSTANTS
  d1 = d1
  d2 = d2
  r1 = r1
  r2 = r2
  None = None
  Docs <- OneDoc
  Requests <- TwoRequests
  Verdicts = {"approve"}
  MaxRetry = 2
  BatchLimit = 1
  MaxDecisions = 2
  MaxFaults = 2
INVARIANTS
  TypeOK
  AckedScanDurable
  QueuedTwiceOnlyAfterFault
  DecisionsReferToScans
  DuplicatesBoundedByFaults
SYMMETRY Symmetry
