SPECIFICATION Spec
CONSTANTS
  t1 = t1
  t2 = t2
  admin1 = admin1
  admin2 = admin2
  None = None
  Tenants = {t1, t2}
  Keys = {admin1}
  KeyTenant <- MCKeyTenant
  KeyRoles <- MCKeyRoles
  Projects = {p1, p2}
  Runs = {r1}
  IdemKeys = {i1}
  Names = {n1}
  Callers = {c1, c2}
  Operations = {"create_project", "create_run"}
  Fleeting = {}
  MaxVersion = 1
PROPERTY
  DuplicatesGetTheRun
CHECK_DEADLOCK FALSE
SYMMETRY MCSymmetry
