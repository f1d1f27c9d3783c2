SPECIFICATION Spec
CONSTANTS
  Drives = {d1}
  Participants = 2
  TurnsPerPickup = 2
  MaxTurns = 3
  MaxEvents = 1
  MaxMoves = 0
  MaxIncidents = 0
PROPERTY ActiveRoomIsDriven
CHECK_DEADLOCK FALSE
