SPECIFICATION Spec
CONSTANTS
  listed = listed
  unlisted = unlisted
  None = None
  Identities <- MCIdentities
  Watchlist <- MCList
  OfflineList <- MCOffline
INVARIANT
  WatchlistHitIsInspected
