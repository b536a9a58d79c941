SPECIFICATION PageSpec
CONSTANTS
  User = {u1}
  House = house
  Market = {m1}
  Outcome = {a, b}
  BetId = {b1, b2, b3}
  ListingId = {l1}
  NoBet = NoBet
  NoListing = NoListing
  NoOutcome = NoOutcome
  NoUser = NoUser
  HouseFunds = 2
  Stakes = {1}
  Seeds = {0, 1}
  Prices = {1}
  SyncBalances = {0}
  Deltas = {1}
  MaxBalance = 1
  MaxInt64 = 1000000
  Reader = {r1, r2}
  NoOdds = NoOdds
CONSTRAINT MCOneSort
SYMMETRY MCSymmetry
INVARIANTS OddsFollowBets ClosedPageIsFinal VolumeIsBacked LiveMeansBets HistoryAgrees
CHECK_DEADLOCK FALSE
