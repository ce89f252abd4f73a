\* A plain quote and an HTLC quote that ages out first; o1 pays either, o2 only the plain one.
SPECIFICATION Spec
CONSTANTS
  Keys = {k1, k2}
  Outpoints = {o1, o2}
  Calls = {c1, c2}
  k1 = k1
  k2 = k2
  o1 = o1
  o2 = o2
  NoRow = NoRow
  NULL = NULL
  Forever = 99
  Expiry <- SharedExpiry
  Settles <- SharedSettles
  Form <- SharedForms
  RecheckWindow = 1
  MaxTime = 4
  CallSpan = 2
VIEW View
SYMMETRY CallSymmetry
INVARIANTS
  TypeOK
  OneDeliveryPerQuote
  OneDeliveryPerRetention
  GateMatchesGoods
  AnswersAreTrue
PROPERTIES
  DeliveredInWindow
  RecordIsWriteAhead
  ReservationHeld
  ImplementsPromise
  TestStoreAgrees
