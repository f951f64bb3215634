SPECIFICATION Spec
CONSTANTS
  c1 = c1
  d1 = d1
  d2 = d2
  d3 = d3
  air = air
  sea = sea
  ann = ann
  eve = eve
  None = None
  Clusters <- MCClusters
  Documents <- MCDocuments
  Scans <- MCScans
  MaxScans = 3
  Similarities <- MCSimilarities
  AwsConfigured = TRUE
  DeepFaceInstalled = TRUE
  Images <- MCImages
  RuleNames <- MCRules
  IntegrityRules <- MCIntegrityRules
  CurrentScans <- MCCurrentScans
  ValidationResults <- MCValidationResults
  BlacklistResults <- MCBlacklistResults
INVARIANTS
  TypeOK
  ScoreTellsVerdict
  RepeatOffenderNeverRatedLower
  PriorOffenceIsTold
  SilenceMeansClean
  TripsAreFound
  NewScanHidesNothing
