SPECIFICATION Spec
CONSTANTS
  CONFIG_DEBUG = TRUE
  NR_WP = 2
  MaxStep = 2
  Forever = Forever
  MaxEvents = 1
  KEY_QUEUE_LEN = 2
  Keymap <- MCKeymap
  Scancodes = {4}
  Exprs = {reg, clock}
  Volatile = {clock}
  Values = {0, 1}
INVARIANTS
  WatchStops
\* A process that has returned from main or died takes no further step.
CHECK_DEADLOCK FALSE
