SPECIFICATION FairSpec
CONSTANTS
  Type <- MCType
  Schema <- Shapes
  Roots <- MCRoots
  Input <- MCInput
  Safe = FALSE
  MaxInt <- MCMaxInt
  ReadUvarint <- MCUvarint
  DataLen = 3
  Bytes = {0, 1, 2, 4, 7}
INVARIANTS
  TypeOK
PROPERTY
  ImplementsDecoder
  Terminates
CHECK_DEADLOCK FALSE
