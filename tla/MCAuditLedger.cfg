SPECIFICATION Spec
CONSTANTS
  c1 = c1
  c2 = c2
  c3 = c3
  p1 = p1
  p2 = p2
  s1 = s1
  NoScan = NoScan
  Genesis = Genesis
  Calls <- MCCalls
  Payloads <- MCPayloads
  Scans <- MCScans
INVARIANTS
  TypeOK
  Contiguous
  ChainVerifies
  AnswerNamesARow
PROPERTY
  ImplementsLog
