\* A job of two attempts, its pauses, its delivery and its end, with one failure.
SPECIFICATION FairSpec
CONSTANTS
  Budget = 2
  MaxLaunches = 1
  MaxPauses = 1
  MaxControls = 2
  MaxFaults = 1
INVARIANTS
  ControlsOnRecord
  DeliveryIsEarned
PROPERTIES
  DeliveryHalts
  AllEnds
CHECK_DEADLOCK FALSE
