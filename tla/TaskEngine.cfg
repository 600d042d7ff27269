\* One engine: two rounds, a deletion, a failing file operation or a crash; safety, and every call returns.
SPECIFICATION FairSpec
CONSTANTS
  Engines = {e1}
  Tasks = {t1}
  MaxRounds = 2
  MaxRevisions = 10
  MaxPlans = 1
  MaxFaults = 1
  Capacity = 1
  MaxCheckpoints = 1
INVARIANTS
  EngineInv
PROPERTIES
  CallsOnRecord
  StoppedIsQuiet
  CallsReturn
CHECK_DEADLOCK FALSE
