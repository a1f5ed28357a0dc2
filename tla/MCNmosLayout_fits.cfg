SPECIFICATION Spec
CONSTANTS
  Descs <- ManyDescs
  Word = 32
  Asserts = {TRUE, FALSE}
INVARIANTS
  TypeOK
  LayoutIsNetlist
  FailsOnlyOnBadInput
CHECK_DEADLOCK FALSE
