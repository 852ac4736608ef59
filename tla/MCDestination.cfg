SPECIFICATION Spec
CONSTANTS
  Type <- MCType
  Schema <- Shapes
  Roots <- MCRoots
  Excluded <- MCExcluded
  Messages <- MCMessages
  Buffers <- MCBuffers
  MaxCalls = 3
  MaxInt <- MCMaxInt
  ReadUvarint <- MCUvarint
  DataLen = 4
  Bytes = {0, 1}
INVARIANTS
  DecodesAsFresh
  OneOwner
PROPERTIES
  OwnsBytes
  InputUntouched
  ExcludedKept
CHECK_DEADLOCK FALSE
