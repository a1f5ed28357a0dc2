SPECIFICATION Spec
CONSTANTS
  Chips <- SmallChips
  Pins <- SmallPins
INVARIANTS
  GroupIsSet
  GroupIsComponent
  ComponentAccounted
  ChangesAreQueued
  HostLeavesRoom
PROPERTY
  QueueIsFifo
