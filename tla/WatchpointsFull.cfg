SPECIFICATION Spec
CONSTANTS
  NR_WP = 2
  NULL = NULL
  Exprs = {e1}
  Values = {v0, v1}
INVARIANT
  FullPoolIsRefused
CHECK_DEADLOCK FALSE
