SPECIFICATION FaucetSpec

CONSTANTS
  NoDrip = NoDrip
  Slots = {s1, s2}
  Addresses = {a1, a2}
  Ips = {i1, i2}
  Amount = 2
  DailyBudget = 3
  AddrCooldown = 3
  IpCooldown = 1
  Day = 1
  MaxClock = 3
  MaxPayments = 3

SYMMETRY Sym
INVARIANTS
  RecordedWasPaid
  OverrunIsBounded
  CooldownHolds
