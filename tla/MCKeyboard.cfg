SPECIFICATION Spec
CONSTANTS
  KEY_QUEUE_LEN = 4
  MaxKeys = 5
  Keymap <- MCKeymap
  Scancodes <- MCScancodes
INVARIANTS
  TypeOK
  RingHoldsPending
PROPERTY
  ImplementsFifo
\* An aborted process takes no further step.
CHECK_DEADLOCK FALSE
