SPECIFICATION Spec
CONSTANTS
  Drives = {d1, d2, d3}
  Participants = 2
  TurnsPerPickup = 2
  MaxTurns = 2
  MaxEvents = 2
  MaxMoves = 1
  MaxIncidents = 1
INVARIANTS
  TypeOK
  DrivesBounded
  HeldTurnsBounded
PROPERTY NewEventIsServed
CHECK_DEADLOCK FALSE
