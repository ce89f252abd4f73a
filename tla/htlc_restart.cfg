\* A restart between the claim and its burial, past the timeout margin.
SPECIFICATION FairSpec
CONSTANTS
  Keys = {k1}
  Outpoints = {o1}
  Calls = {c1}
  k1 = k1
  o1 = o1
  o2 = o2
  NoRow = NoRow
  NULL = NULL
  Absent = Absent
  Forever = 99
  Expiry <- OneQuoteExpiry
  RecheckWindow = 0
  MaxTime = 0
  CallSpan = 0
  Lock <- OneLock
  Timeout <- OneTimeout
  HasPayer = TRUE
  ConfirmationDepth = 1
  MaxReorgDepth = 1
  MaxTip = 4
PROPERTIES
  ClaimedIsDelivered
