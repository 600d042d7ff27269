\* Two qualifications of two routes, a deletion of evidence, aborts and disposal.
SPECIFICATION Spec
CONSTANTS
  Keys = {k1, k2}
  Probers = {p1, p2}
  Capabilities = {"image"}
  Attestations <- Attested
  Colours = {"red", "green"}
  Lifetime = 2
  Deadline = 1
  MaxTime = 1
  MaxQualified = 2
  MaxForgets = 1
SYMMETRY Symmetry
INVARIANTS
  EvidenceInv
  ResultsKept
CHECK_DEADLOCK FALSE
