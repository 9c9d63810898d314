CONSTANTS
  r1 = r1
  r2 = r2
  s1 = s1
  Requests <- MCRequests
  Seeds <- MCSeeds
  MaxConns = 1
  RequestTimeout = TRUE
  StatementTimeout = 1500
SPECIFICATION FairSpec
INVARIANTS
  TypeOK
  SlowIsNotBroken
  DeletedForGood
  AcknowledgedStays
PROPERTIES
  HonoursStore
  EveryRequestAnswered
  EverySlotFreed
