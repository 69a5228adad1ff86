SPECIFICATION Spec
CONSTANTS
  WIDTH = 3
  Gpr <- MCGpr
  Mapped <- MCMapped
  Memory <- MCMemory
  Lexemes <- MCLexemes
  MaxTyped = 3
  MaxExpanded = 7
INVARIANTS
  TypeOK
  ExprValue
  ExprReads
\* A line of the largest size is not extended further.
CHECK_DEADLOCK FALSE
