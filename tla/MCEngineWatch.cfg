SPECIFICATION Spec
CONSTANTS
  CONFIG_DEBUG = FALSE
  NR_WP = 1
  MaxStep = 1
  Forever = Forever
  MaxEvents = 0
  KEY_QUEUE_LEN = 2
  Keymap <- MCKeymap
  Scancodes = {4}
  Exprs = {reg}
  Volatile = {}
  Values = {0, 1}
INVARIANT
  WatchStops
\* A process that has returned from main or died takes no further step.
CHECK_DEADLOCK FALSE
