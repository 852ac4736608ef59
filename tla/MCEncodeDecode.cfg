SPECIFICATION Spec
CONSTANTS
  Type <- MCType
  Schema <- Shapes
  Roots <- MCRoots
  Values <- MapValues
  Sized <- MCSized
  Template = "Record"
  MaxInt <- MCMaxInt
  PutUvarint <- MCPutUvarint
  SizeUvarint <- MCSizeUvarint
  TagLen <- MCTagLen
  ReadUvarint <- MCUvarint
  Fill = 7
  Spare = 1
  Before <- MCBefore
  DataLen = 4
  Bytes = {0, 1}
INVARIANTS
  RoundTrip
  SizeExact
  NoPanicInSize
  WritesInPlace
  AppendsSize
  SameOrderSameBytes
  LikeTheTemplate
  BlocksAreWire
CHECK_DEADLOCK FALSE
