\* Two concurrent honors, fair, a lock that binds and one that does not: reorgs, reclaim, restart.
SPECIFICATION FairSpec
CONSTANTS
  Keys = {k1}
  Outpoints = {o1, o2}
  Calls = {c1, c2}
  k1 = k1
  o1 = o1
  o2 = o2
  NoRow = NoRow
  NULL = NULL
  Absent = Absent
  Forever = 99
  Expiry <- OneQuoteExpiry
  RecheckWindow = 0
  MaxTime = 0
  CallSpan = 0
  Lock <- MixedLocks
  Timeout <- MixedTimeouts
  HasPayer = TRUE
  ConfirmationDepth = 1
  MaxReorgDepth = 1
  MaxTip = 4
INVARIANTS
  TypeOK
  DeliveredOnBuriedClaim
  RecordedIsReserved
PROPERTIES
  RecordedClaimDelivers
