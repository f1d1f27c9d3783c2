SPECIFICATION OutboxSpec
CONSTANTS
  Users = {alice}
  Dispatchers = {d1}
  BatchSize = 2
  MaxAttempts = 2
  MaxProposals = 2
  MaxTroubles = 1
INVARIANTS
  OutboxTypeOK
  DeliveredOnce
  FewLateReminders
PROPERTY EveryRowSettles
CHECK_DEADLOCK FALSE
