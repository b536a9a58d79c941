\* Two markets on which a user and the house bet, seeded or not, and every way to settle them.
SPECIFICATION FairSpec
CONSTANTS
  User = {u1}
  House = house
  Market = {m1, m2}
  Outcome = {a, b}
  BetId = {b1, b2, b3}
  ListingId = {}
  NoBet = NoBet
  NoListing = NoListing
  NoOutcome = NoOutcome
  NoUser = NoUser
  HouseFunds = 20
  Stakes = {33}
  Seeds = {0, 10}
  Prices = {}
  SyncBalances = {33}
  Deltas <- MCDeltas
  MaxBalance = 40
  MaxInt64 = 1000000
INVARIANTS TypeOK PoolsMatchBets PayoutsCovered
PROPERTIES FrozenOnceClosed ImplementsEscrow RefundCompletes
CHECK_DEADLOCK FALSE
