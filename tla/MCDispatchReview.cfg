\* A review loads a run that has one more round to go.
SPECIFICATION DispatchSpec
CONSTANTS
  Runs = {r1, r2}
  Slots = 2
  QueueLimit = 0
  MaxRounds = 2
  Standby = 0
  Options <- PlainOrReview
  StopReasons <- LongOrDone
  Perishable = {}
  Forces = {}
  MaxCrashes = 0
  Elsewhere = Elsewhere
  None = None
INVARIANTS
  ReviewJudgesFinalText
CHECK_DEADLOCK FALSE
