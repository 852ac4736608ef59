SPECIFICATION Spec
CONSTANTS
  Cont = 8
  LastIdx = 2
  LastMax = 3
  MaxLen = 4
  Half = 128
  Base = 2
INVARIANTS
  RoundTrip
  ReadsAsDefined
  WritesAsAppend
  SignedRoundTrip
  LittleEndian
CHECK_DEADLOCK FALSE
