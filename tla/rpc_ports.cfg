SPECIFICATION Spec

CONSTANTS
  NULL = NULL
  t1 = t1
  t2 = t2
  Payer = Payer
  Base = 4
  IdLen = 2
  QuoteIdBytes = 2
  MaxAttempts = 5
  TxIds <- MCTxIds
  TxBody <- MCTxBody
  Listings <- MCListings

INVARIANTS
  TypeOK
  AbsenceWasTold
  DiscoveryIsWhole
  ReadsAreExact
PROPERTIES
  CallsEnd
