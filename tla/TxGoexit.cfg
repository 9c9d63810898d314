CONSTANTS
  t1 = t1
  t2 = t2
  Txs <- MCTxs
  MaxConns = 1
SPECIFICATION Spec
INVARIANT
  OnlyReturningFnCommits
