SPECIFICATION Spec
CONSTANTS
  None = None
  ann = ann
  eve = eve
  smith = smith
  jones = jones
  Scans <- MCScans
  LlmAnswers <- MCLlmAnswers
  Models = 2
  LlmKey = TRUE
  Batches <- MCBatches
  Passport <- MCPassport
  Numbers <- MCNumbers
  MaxReading = 2
  MaxNow = 6
INVARIANTS
  TypeOK
  FieldsHaveOneSource
  MisreadingIsRepaired
PROPERTY
  ProviderIsLeftAlone
