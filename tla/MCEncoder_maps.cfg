SPECIFICATION Spec
CONSTANTS
  Type <- MCType
  Schema <- Shapes
  Roots <- MCRoots
  Values <- MapValues
  Safe = TRUE
  PutUvarint <- MCPutUvarint
  SizeUvarint <- MCSizeUvarint
  TagLen <- MCTagLen
  Fill = 8
  Spare = 1
  Before <- MCBefore
  DataLen = 4
  Bytes = {0, 1}
INVARIANTS
  AppendMatchesMarshal
CHECK_DEADLOCK FALSE
