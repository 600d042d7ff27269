\* One assignment or compaction in full: rounds, failover, failing saves, aborts, disposal and a crash.
SPECIFICATION FairDispatch
CONSTANTS
  Runs = {r1}
  Slots = 1
  QueueLimit = 0
  MaxRounds = 2
  Standby = 1
  Options <- PlainOrAlone
  StopReasons <- AllReasons
  Perishable = {0, 1}
  Forces = {TRUE, FALSE}
  MaxCrashes = 1
  Elsewhere = Elsewhere
  None = None
INVARIANTS
  RunInv
PROPERTIES
  NeverReplayed
  LaunchAuthorized
  RecordsGrow
  CallsReturn
CHECK_DEADLOCK FALSE
