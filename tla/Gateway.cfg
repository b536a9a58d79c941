\* One post among the calls of everybody else, who trade a bet meanwhile, the house with them.
SPECIFICATION PostSpec
CONSTANTS
  User = {u1, u2}
  House = house
  Market = {m1}
  Outcome = {a, b}
  BetId = {b1}
  ListingId = {l1, l2}
  NoBet = NoBet
  NoListing = NoListing
  NoOutcome = NoOutcome
  NoUser = NoUser
  HouseFunds = 2
  Stakes = {1, 2}
  Seeds = {0}
  Prices = {1}
  SyncBalances = {0}
  Deltas = {1}
  MaxBalance = 1
  MaxInt64 = 1000000
  Post = {p1}
  NoAsk = NoAsk
  MaxSanity = 1
SYMMETRY MCSymmetry
INVARIANTS DoneMeansDone RefusedMeansNothing ListingsBacked SalesLeadToOwner
PROPERTIES HouseKeepsItsBets SaleIsPeerToPeer
CHECK_DEADLOCK FALSE
