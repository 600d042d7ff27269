\* A batch of two tasks that may crash, be deleted and be run again: safety, and every run ends.
SPECIFICATION FairSpec
CONSTANTS
  Workers = {w1, w2}
  Request <- TwoTasks
  Answers <- ReadableOrNot
  Forces = {FALSE}
  Main = Main
INVARIANTS
  DelegatedOnce
  BatchInv
PROPERTIES
  NothingAfterStop
  RunEnds
CHECK_DEADLOCK FALSE
