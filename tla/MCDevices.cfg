SPECIFICATION Spec
CONSTANTS
  ADDR_SPACE = 120
  MBASE = 80
  MSIZE = 20
  PAGE_SIZE = 32
  IO_SPACE_MAX = 168
  NR_MAP = 6
  BYTE = 4
  SECOND = 3
  SCREEN = 50
  Pixels = 6
  KeyCodes = {9}
  Boot <- MCBoot
  LEN <- MCLEN
  Probes <- MCProbes
  Machines <- MCMachines
  None = None
  BUILTIN = 6
  Data = {27, 228}
  Ticks = {300}
  MaxAccess = 2
  MaxKeys = 1
  MaxClock = 300
INVARIANTS
  TypeOK
  MapsDisjoint
PROPERTIES
  Isolation
  ImplementsPeripherals
\* The bounds on accesses, keys and time stop it.
CHECK_DEADLOCK FALSE
