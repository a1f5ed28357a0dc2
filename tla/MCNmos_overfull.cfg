SPECIFICATION Spec
CONSTANTS
  Chips <- OverfullChips
  Pins <- SelfGatedPins
INVARIANT
  StabilizeSettles
