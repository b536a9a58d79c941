\* The two addresses of an account, and the one cursor that they share.
SPECIFICATION Spec
CONSTANTS
  Accounts = 2
  Transfers <- UsdcOrSol
  SwapMinOut = 7
  SwapReceipts = {7}
  Routes = FALSE
  Unit = 10
  Rate = 3
  ScanLimit = 3
  MaxTransfers = 2
  Faults = {}
  NoRow = NoRow
INVARIANTS CursorPassesOnlyRecorded
CHECK_DEADLOCK FALSE
