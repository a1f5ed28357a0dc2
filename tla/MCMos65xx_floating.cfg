SPECIFICATION Spec
CONSTANTS
  Chosen = {"6502"}
  Addresses <- SomeAddresses
  DataValues <- SomeBytes
  Contents <- SomeContents
  MaxCalls = 3
INVARIANT
  ReadsWhatHostWrote
CHECK_DEADLOCK FALSE
