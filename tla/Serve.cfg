CONSTANTS
  r1 = r1
  r2 = r2
  Requests <- MCRequests
  MaxConns = 1
  Bounded = TRUE
SPECIFICATION FairSpec
INVARIANTS
  TypeOK
  NoConnectionOutlivesPool
  DrainedMeansAnswered
  RefusedOnlyAfterFailedDrain
  FlushedMeansExported
  CutShortOnlyAfterBudget
PROPERTIES
  ShutdownTerminates
  AcceptedAnswered
