SPECIFICATION RerunSpec
CONSTANTS
  Inputs <- OneInput
  MaxGap = 2
  MaxCalls = 4
INVARIANT
  PrintsWhatWasWritten
CHECK_DEADLOCK FALSE
