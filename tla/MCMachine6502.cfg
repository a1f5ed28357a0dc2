SPECIFICATION Spec
CONSTANTS
  Callers = {a, b}
  Addresses <- SomeAddresses
  Stores <- SomeStores
  HostChars = {0, 1}
SYMMETRY CallersAlike
INVARIANTS
  TypeOK
  CyclesServed
  ResetHeld
  HostSeesRegisters
  HandsOverToBasic
  TraceTellsAccess
PROPERTY
  ImplementsFlatMemory
