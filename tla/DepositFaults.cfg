\* Every kind of transaction and every fault.
SPECIFICATION FairSpec
CONSTANTS
  Accounts = 2
  Transfers <- Anything
  SwapMinOut = 7
  SwapReceipts = {7, 8}
  Routes = TRUE
  Unit = 10
  Rate = 3
  ScanLimit = 2
  MaxTransfers = 2
  Faults = {"rpc", "store", "ledger", "lost", "drop", "crash"}
  NoRow = NoRow
INVARIANTS CreditedAtMostOnce CreditsHaveRows NeverInventsUSDC
PROPERTIES CursorWaitsForIngest OnlyLostSwapsStall
CHECK_DEADLOCK FALSE
