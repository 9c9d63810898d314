CONSTANTS
  t1 = t1
  t2 = t2
  Txs <- MCTxs
  MaxConns = 1
SPECIFICATION FairSpec
INVARIANTS
  TypeOK
  NilMeansCommitted
  FailureMeansNotCommitted
  NothingLeftOpen
PROPERTIES
  HonoursUnit
  EveryExecuteEnds
