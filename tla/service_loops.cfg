\* Two onPaid loops race for one plain quote, fair: cancel, restart, sweep, reorg.
SPECIFICATION FairSpec
CONSTANTS
  Keys = {k1}
  Outpoints = {o1}
  Calls = {l1, l2}
  k1 = k1
  o1 = o1
  NoRow = NoRow
  NULL = NULL
  Forever = 99
  Expiry <- OneQuoteExpiry
  Settles <- OneQuoteSettles
  RecheckWindow = 0
  MaxTime = 2
  CallSpan = 1
INVARIANTS
  TypeOK
  NoTimerAfterSettling
  HonoredMeansDelivered
PROPERTIES
  DeliveredLoopsEnd
  FinalPaymentEnds
