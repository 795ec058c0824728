SPECIFICATION FairBuildSpec
CONSTANTS
  Grammars <- SmallGrammars
  Empty <- CanEmpty
  First <- FirstSet
INVARIANTS
  FollowIsLALR
  ConflictsResolved
PROPERTIES
  PropagationEnds
CHECK_DEADLOCK FALSE
