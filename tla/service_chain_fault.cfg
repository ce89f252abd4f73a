\* One chain read fails once.
SPECIFICATION Spec
CONSTANTS
  Keys = {k1}
  Outpoints = {o1}
  Calls = {l1}
  k1 = k1
  o1 = o1
  NoRow = NoRow
  NULL = NULL
  Forever = 99
  Expiry <- OneQuoteExpiry
  Settles <- OneQuoteSettles
  RecheckWindow = 1
  MaxTime = 3
  CallSpan = 1
INVARIANTS
  ChainFaultsRetry
