SPECIFICATION FairSpec
CONSTANTS
  Type <- MCType
  Schema <- Shapes
  Roots <- MCRoots
  Input <- MCInput
  Safe = TRUE
  MaxInt <- MCMaxInt
  ReadUvarint <- MCUvarint
  DataLen = 4
  Bytes = {0, 1, 2, 4, 7}
INVARIANTS
  SafeInv
  SafeInBounds
  AllocBounded
  ErrorReported
PROPERTY
  ImplementsCursor
  Terminates
CHECK_DEADLOCK FALSE
