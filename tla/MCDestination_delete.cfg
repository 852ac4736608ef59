SPECIFICATION SpecWithDelete
CONSTANTS
  Type <- MCType
  Schema <- Shapes
  Roots <- MCRoots
  Excluded <- MCExcluded
  Messages <- MCMessages
  Buffers <- MCBuffers
  MaxCalls = 2
  MaxInt <- MCMaxInt
  ReadUvarint <- MCUvarint
  DataLen = 4
  Bytes = {0, 1}
INVARIANTS
  DecodesAsFresh
CHECK_DEADLOCK FALSE
