SPECIFICATION FairSpec
CONSTANTS
  Chips <- CircuitChips
  Pins <- CircuitPins
INVARIANTS
  TypeOK
  LegsFollowGates
  ChangeOrderFits
PROPERTIES
  RecalcReturns
  ImplementsNetwork
