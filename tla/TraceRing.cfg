SPECIFICATION Spec
CONSTANTS
  CONFIG_IRINGBUF_SIZE = 3
  Lines = {a, b}
  MaxLines = 9
INVARIANT
  TypeOK
PROPERTY
  DisplayShowsLatest
