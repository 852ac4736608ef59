SPECIFICATION Spec
CONSTANTS
  Type <- MCType
  Schema <- Shapes
  Roots <- MCRoots
  Input <- MCInput
  Safe = FALSE
  MaxInt <- MCMaxInt
  ReadUvarint <- MCUvarint
  DataLen = 4
  Bytes = {0, 1, 2, 4, 7}
INVARIANTS
  UnknownTagReported
CHECK_DEADLOCK FALSE
