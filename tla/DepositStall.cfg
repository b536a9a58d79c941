\* A swap whose transaction is dropped.
SPECIFICATION FairSpec
CONSTANTS
  Accounts = 2
  Transfers <- UsdcOrSol
  SwapMinOut = 7
  SwapReceipts = {7}
  Routes = TRUE
  Unit = 10
  Rate = 3
  ScanLimit = 3
  MaxTransfers = 2
  Faults = {"drop"}
  NoRow = NoRow
PROPERTIES EveryAddressScanned
CHECK_DEADLOCK FALSE
