\* Two attempts with one command.
SPECIFICATION Spec
CONSTANTS
  Commands = {c1}
  Budget = 2
  Blockers = {"reviewer"}
INVARIANTS
  PipelineInv
  ReadyIsEarned
  NeverStuck
PROPERTIES
  JobSpec
CHECK_DEADLOCK FALSE
