SPECIFICATION FairSpec
CONSTANTS
  Kids = {k1, k2}
INVARIANTS
  AnswerMeansQuiet
  RefusalsReported
PROPERTIES
  AnsweredUnlessHeld
CHECK_DEADLOCK FALSE
