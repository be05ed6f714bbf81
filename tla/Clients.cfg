SPECIFICATION FairSpec
CONSTANTS
  alice = alice
  bob = bob
  None = None
  Peers = {alice, bob}
  Lengths <- TwoLengths
  Payload = 128
  Ten = 1
  Budgets <- SevenBudgets
INVARIANTS
  LogsExact
  ScreenFollows
  GuiFresh
PROPERTIES
  NumberMeansDisplayed
  Surfaces
  ViewSettles
CHECK_DEADLOCK FALSE
