\* Six keys, two slots and a queue of three: callers hold, wait and are refused.
SPECIFICATION FairSpec
CONSTANTS
  Runs = {r1, r2, r3, r4, r5, r6}
  Slots = 2
  QueueLimit = 3
INVARIANTS
  IInv
PROPERTIES
  PoolSpec
  CallersResolve
CHECK_DEADLOCK FALSE
