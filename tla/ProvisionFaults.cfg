\* Three calls at once, every fault at any step.
SPECIFICATION Spec
CONSTANTS
  Account = {a1, a2}
  Call = {c1, c2, c3}
  Faults = {"store", "rpc", "broadcast", "reject", "drop", "cancel", "crash"}
  NoIndex = NoIndex
SYMMETRY Symmetry
INVARIANTS GivenAddressIsWatched KeysAreDistinct OneGrantHeardOf ClaimsAreGranted
CHECK_DEADLOCK FALSE
