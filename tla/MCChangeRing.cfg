SPECIFICATION Spec
CONSTANTS
  Ids = {1, 2, 3}
  Size = 4
INVARIANT
  TypeOK
PROPERTY
  RingImplementsFifo
