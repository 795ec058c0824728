SPECIFICATION FairSpec
CONSTANTS
  Languages <- SampleLanguages
  NULL = NULL
  Node = {n1, n2, n3, n4, n5, n6, n7, n8}
INVARIANTS
  TypeOK
  StacksInStep
  NodesOwnedOnce
  InputStaysViable
  TokenReportedOnce
  TreesRespectPrecedence
PROPERTIES
  ErrorIsReal
  AddTokenReturns
