CONSTANTS
  r1 = r1
  r2 = r2
  Requests <- MCRequests
  MaxConns = 1
  Bounded = TRUE
SPECIFICATION Spec
INVARIANT
  LastSpansFlushed
