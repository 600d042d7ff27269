\* Two callers, two records with room for one: safety, the refinement of RecordLog, liveness.
SPECIFICATION FairSpec
CONSTANTS
  Clients = {c1, c2}
  Keys = {k1, k2}
  Values = {v1}
  MaxRecords = 1
  MaxRevisions = 2
  MaxFailures = 2
  Torn = Torn
  Missing = Missing
PROPERTIES
  HonestStore
  LogSpec
  EveryCallSettles
