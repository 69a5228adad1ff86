SPECIFICATION Spec
CONSTANTS
  BYTE = 16
  WIDTH = 16
  Regs = {0, 1, 10}
  Asm <- MCAsm
  Junk <- MCJunk
  MSIZE = 8
  Starts <- MCStarts
  MaxSteps = 2
INVARIANT
  TypeOK
PROPERTY
  ImplementsIsa
\* The program may end, and MaxSteps stops it.
CHECK_DEADLOCK FALSE
