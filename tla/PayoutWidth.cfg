\* A unit stands for 10^8 reais: MaxSanityInt is 10, and 2^63 - 1 is 922 squares
\* of it.  One market, seeds and bets of that size.
SPECIFICATION Spec
CONSTANTS
  User = {u1}
  House = house
  Market = {m1}
  Outcome = {a, b}
  BetId <- MCTenBets
  ListingId = {}
  NoBet = NoBet
  NoListing = NoListing
  NoOutcome = NoOutcome
  NoUser = NoUser
  HouseFunds = 10000
  Stakes = {10}
  Seeds = {0, 10}
  Prices = {}
  SyncBalances = {10}
  Deltas = {}
  MaxBalance = 0
  MaxInt64 = 922
CONSTRAINT MCIdsInOrder
INVARIANTS PayoutsCovered
CHECK_DEADLOCK FALSE
