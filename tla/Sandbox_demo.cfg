SPECIFICATION SandboxSpec
CONSTANTS
  Chosen <- MCChosen
  Window = 12
  TurnsPerPickup = 12
  MaxTurns = 18
  Settings <- MCSettings
  MaxIncidents = 1
INVARIANTS
  SandboxTypeOK
  RepeatsBounded
PROPERTY DemoFinishes
CHECK_DEADLOCK FALSE
