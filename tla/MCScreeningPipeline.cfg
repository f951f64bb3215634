SPECIFICATION FairSpec
CONSTANTS
  listed = listed
  unlisted = unlisted
  None = None
  Identities <- MCIdentities
  Watchlist <- MCList
  OfflineList <- MCOffline
INVARIANTS
  TypeOK
  DecisionsSeeAllResults
  NodesRunOnce
  RunsEndDecided
  ClearedOnlyIfClean
  FailuresReported
  EveryFailureNamed
PROPERTY
  RunsEnd
