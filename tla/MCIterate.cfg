\* A task, reviewed and revised in up to two cycles with compaction, while evidence and runs come and go.
SPECIFICATION FairLoopSpec
CONSTANTS
  Tasks <- TaskSet
  Replies <- ReplySet
  KnownKeys <- Keys3
  MaxCycles = 2
  Compact = TRUE
  Failover = TRUE
  Spread = 1
  Sizes = {7, 9}
  OriginalSize = 10
  Validity = 2
  LastTime = 1
  MaxChanges = 1
  Kept = 1
  Prose = Prose
INVARIANTS
  LoopInv
PROPERTIES
  LaunchesEarned
  ReviewsIndependent
  LoopEnds
CHECK_DEADLOCK FALSE
