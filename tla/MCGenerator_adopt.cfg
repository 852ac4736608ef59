SPECIFICATION Spec
CONSTANTS
  Outer = Outer
  Inner = Inner
  Ping = Ping
  Type <- MCType
  Fields <- MCFields
  HasUnion <- MCHasUnion
  Members <- MCMembers
  Method = {"Marshal", "Size"}
  Out = {"goserde_gen.go", "other.go", "sub/gen.go"}
  BadOut = {"sub/gen.go"}
INVARIANTS
  AdoptionRegenerates
