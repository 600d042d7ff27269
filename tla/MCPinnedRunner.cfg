\* An attempt from its baseline to a delivery, with a command of the validator, and a change from outside.
SPECIFICATION FairSpec
CONSTANTS
  Paths <- PathSet
  Readers <- Judges
  Plans <- PlanSet
  Texts = {1}
  Capacity = 2
  MaxTampers = 1
  MaxRuns = 1
  Inventory <- TwoTests
  Outputs <- OutputSet
INVARIANTS
  CustodyInv
  NothingLeftBehind
PROPERTIES
  EndIsSound
  PassIsEarned
  AllSettle
CHECK_DEADLOCK FALSE
