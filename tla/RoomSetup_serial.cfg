SPECIFICATION Spec
CONSTANTS
  Orgs = {customer, provider, third}
  Creator = customer
  Invites = {i1, i2}
  MaxVersions = 2
  Procs = {p1}
  MaxCrashes = 1
SYMMETRY Symmetry
INVARIANTS
  TypeOK
  ReadyIsAgreed
  OneSeatPerInvite
  ReadyWhenAgreed
  ClosedHasNoOpenInvite
CHECK_DEADLOCK FALSE
