SPECIFICATION Spec
CONSTANTS
  key = key
  address = address
  api_key = api_key
  pii = pii
  inventory = inventory
  Categories = {api_key, pii, inventory}
  HardDenyCategories = {api_key}
  Actions = {deploy}
  Participants = {p1, p2}
  Policies <- MCPolicies
  Contracts <- MCContracts
  Fields = {key, address}
  Found <- MCFound
  Declared <- MCDeclared
  Slots = {s1}
  MaxEvents = 2
  MaxTotal = 4
SYMMETRY Symmetry
INVARIANTS
  NothingBarredCrosses
  OnlyRequestedFields
  AutonomousIsAgreed
  ThirdSecretStops
CHECK_DEADLOCK FALSE
