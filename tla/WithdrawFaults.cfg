\* Two withdrawals, every fault at any step.
SPECIFICATION FairSpec
CONSTANTS
  Call = {c1, c2}
  Account = {a1, a2}
  Provisioned = {a1}
  Amounts = {1, 2, 3, 4}
  Funds = 4
  Unit = 9
  Rate = 2
  MinPayout = 6
  MaxPayout = 14
  ReviewOver = 10
  Faults <- EveryFault
  NoRequest = NoRequest
INVARIANTS LedgerExplained SentMeansPaid
PROPERTIES RowsMoveForward CallsEnd ImplementsCustody
CHECK_DEADLOCK FALSE
