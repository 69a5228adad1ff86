SPECIFICATION Spec
CONSTANTS
  NR_WP = 3
  NULL = NULL
  Exprs = {e1, e2}
  Values = {v0, v1}
INVARIANTS
  TypeOK
  PoolPartitioned
PROPERTY
  ImplementsWatchList
\* A process that has crashed takes no further step.
CHECK_DEADLOCK FALSE
