SPECIFICATION Spec
CONSTANTS
  Type <- MCType
  Schema <- Shapes
  Roots <- MCRoots
  Input <- MCInput
  MaxInt <- MCMaxInt
  ReadUvarint <- MCUvarint
  DataLen = 4
  Bytes = {0, 1, 2, 7}
INVARIANTS
  PrefixStable
  TruncatedIsShort
  FastAgrees
CHECK_DEADLOCK FALSE
