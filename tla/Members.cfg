SPECIFICATION Spec
CONSTANTS
  Users = {u1, u2, u3}
  Procs = {p1, p2}
  RolesAsked = {"owner", "admin", "member"}
  MaxLogins = 3
  MaxAdmin = 2
  None = None
PROPERTY LastOwnerStays
PROPERTY AuthorityIsCurrent
SYMMETRY Symmetry
CHECK_DEADLOCK FALSE
