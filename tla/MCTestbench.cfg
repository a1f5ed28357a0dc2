SPECIFICATION Spec
CONSTANTS
  Names = {"Commodore64", "CommodoreVIC20"}
  Words <- SomeWords
  MaxWords = 3
  StackPointers = {253, 1}
  Arguments <- SomeArguments
  InputBytes = {10, 65}
  MaxCalls = 2
INVARIANTS
  KTypeOK
  ReturnsToCaller
  LeavesTheRest
  RunsWhatWasAsked
  NothingLeaks
  RunsToTheEnd
PROPERTY
  ImplementsCalls
CHECK_DEADLOCK FALSE
