SPECIFICATION BuildSpec
CONSTANTS
  Grammars <- ThreeReductions
  Empty <- CanEmpty
  First <- FirstSet
INVARIANTS
  HigherReplacesLower
CHECK_DEADLOCK FALSE
