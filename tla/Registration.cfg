\* Two people at two browsers, every fault.
SPECIFICATION Spec
CONSTANTS
  i1 = i1
  i2 = i2
  b1 = b1
  b2 = b2
  ana = ana
  Ana = Ana
  bia = bia
  Id = {i1, i2}
  Browser = {b1, b2}
  Spelling = {ana, Ana, bia}
  norm <- TwoAddresses
  Amount = {1}
  MaxBalance = 3
  MaxLate = 1
  Faults = {"timeout", "late"}
  NoRow = NoRow
SYMMETRY Symmetry
INVARIANTS AdminsTraceToBootstrap AddressesAreDistinct UsersHaveAccounts BalancesExplained
PROPERTIES RegistrationProvisions
CHECK_DEADLOCK FALSE
