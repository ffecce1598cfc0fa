SPECIFICATION Spec
CONSTANTS
  t1 = t1
  t2 = t2
  admin1 = admin1
  admin2 = admin2
  None = None
  Tenants = {t1, t2}
  Keys = {admin1, admin2}
  KeyTenant <- MCKeyTenant
  KeyRoles <- MCKeyRoles
  Projects = {p1, p2}
  Runs = {r1, r2}
  IdemKeys = {i1}
  Names = {n1}
  Callers = {c1, c2}
  Operations = {"create_project", "list_projects", "create_run", "get_run", "cancel_run"}
  Fleeting = {}
  MaxVersion = 1
INVARIANTS
  TypeOK
  OneRunPerKey
  ReplaysAgree
  TenantsApart
PROPERTIES
  ImplementsService
CHECK_DEADLOCK FALSE
SYMMETRY MCSymmetry
