SPECIFICATION Spec
CONSTANTS
  CONFIG_DEBUG = FALSE
  NR_WP = 1
  MaxStep = 2
  Forever = Forever
  MaxEvents = 2
  KEY_QUEUE_LEN = 2
  Keymap <- MCKeymap
  Scancodes = {4}
  Exprs = {reg}
  Volatile = {}
  Values = {0}
INVARIANTS
  TypeOK
  TrapIsFinal
  QuitLatency
  SteppedExactly
  NoStaleInput
PROPERTIES
  ImplementsSession
  ImplementsKeyboard
  QuitStops
  StepTerminates
  FrameTaken
\* A process that has returned from main or died takes no further step.
CHECK_DEADLOCK FALSE
