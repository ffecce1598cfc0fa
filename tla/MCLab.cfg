SPECIFICATION Spec
CONSTANTS
  Payloads = {p1, p2, p3, p4, p5}
  Iterations = {0, 7, 101}
  BuiltIn = {b1}
  Foreign = {f1, f2}
  MaxOdd = 2
INVARIANTS
  PoolExhaustedFirst
  FailuresContained
  RatesFit
  EvidenceFirst
  LossesContained
  HeuristicNeverSilenced
  DeathsExplained
CHECK_DEADLOCK FALSE
SYMMETRY MCSymmetry
