SPECIFICATION Spec
CONSTANTS
  Users = {ann, bob, cy}
  Founder = ann
  Procs = {p1, p2}
  MaxRows = 3
  MaxCrashes = 1
SYMMETRY Symmetry
INVARIANTS
  TypeOK
  RegistrationAdoptsNobody
  NothingHalfRegistered
  OwnerKept
CHECK_DEADLOCK FALSE
