SPECIFICATION Spec
CONSTANTS
  Languages <- ChainLanguage
  NULL = NULL
  Node = {n1}
PROPERTIES
  RepairNeedsInput
