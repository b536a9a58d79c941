\* Only the reply to a broadcast may be lost.
SPECIFICATION Spec
CONSTANTS
  Call = {c1, c2}
  Account = {a1, a2}
  Provisioned = {a1}
  Amounts = {1, 2, 3, 4}
  Funds = 4
  Unit = 9
  Rate = 2
  MinPayout = 6
  MaxPayout = 14
  ReviewOver = 10
  Faults = {"broadcast"}
  NoRequest = NoRequest
SYMMETRY Symmetry
INVARIANTS NeverPaidAndRefunded
CHECK_DEADLOCK FALSE
