SPECIFICATION FairSpec
CONSTANTS
  Inputs <- ShortInputs
  MaxGap = 2
  MaxCalls = 3
INVARIANTS
  TypeOK
  PrintsWhatWasWritten
  AtRest
PROPERTIES
  ImplementsTerminal
  CallsReturn
CHECK_DEADLOCK FALSE
