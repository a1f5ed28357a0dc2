SPECIFICATION Spec
CONSTANTS
  Chosen = {"6502", "6503", "6504", "6505", "6510"}
  Addresses <- SomeAddresses
  DataValues <- SomeBytes
  Contents <- SomeContents
  MaxCalls = 2
INVARIANTS
  TypeOK
  PinsHold
  BusesArePins
  RegistersRead
CHECK_DEADLOCK FALSE
