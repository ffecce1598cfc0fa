SPECIFICATION Spec
CONSTANTS
  Tasks = {t1, t2}
  Keys = {k1}
  Paths = {p1, p2}
  Contents = {whole1, whole2, damaged}
  Sound = {whole1, whole2}
  Absent = Absent
  Partial = Partial
  MaxWrites = 2
  MaxErrors = 1
INVARIANTS
  TypeOK
  OverwritesExplained
  TempsAccounted
  LateFailuresExplained
  AnswersHold
CHECK_DEADLOCK FALSE
SYMMETRY MCSymmetry
