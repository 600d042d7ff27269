\* A run and its review compete for one slot, are deleted, disposed and lost in a crash.
SPECIFICATION DispatchSpec
CONSTANTS
  Runs = {r1, r2}
  Slots = 1
  QueueLimit = 1
  MaxRounds = 1
  Standby = 0
  Options <- PlainOrReview
  StopReasons = {"completed"}
  Perishable = {}
  Forces = {FALSE}
  MaxCrashes = 1
  Elsewhere = Elsewhere
  None = None
SYMMETRY Symmetry
INVARIANTS
  ChildrenOwned
  NoDanglingReview
CHECK_DEADLOCK FALSE
