SPECIFICATION Spec
CONSTANTS
  Chips <- MisledChips
  Pins <- SelfGatedPins
INVARIANT
  StabilizeSettles
