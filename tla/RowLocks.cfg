SPECIFICATION FairSpec
CONSTANTS
  Call = {c1, c2, c3}
  c1 = c1
  c2 = c2
  c3 = c3
  Asked <- MCAsked
  Connections = 2
  User = {u1, u2}
  House = house
  Before <- MCBefore
  Market = {m1, m2, m3}
  Outcome = {a, b}
  BetId = {b1, b2, b3, b4, b5, b6, b7}
  ListingId = {l1, l2, l3, l4, l5}
  u1 = u1
  u2 = u2
  m1 = m1
  m2 = m2
  a = a
  b = b
  b1 = b1
  b2 = b2
  b3 = b3
  b4 = b4
  l1 = l1
  l2 = l2
  l3 = l3
  NoOutcome = NoOutcome
  NoUser = NoUser
  Absent = Absent
  HouseFunds = 20
  Stakes = {2}
  Seeds = {0, 2}
  Prices = {2}
  SyncBalances = {2}
  Deltas <- MCDeltas
  MaxBalance = 100
  MaxInt64 = 1000000
  Database <- MCDatabase
INVARIANTS TypeOK DeadlocksAreSettlements
PROPERTIES ActsAtomically CallsEnd
CHECK_DEADLOCK FALSE
