CONSTANTS
  Names = {a, b}
  Values <- TokenValues
  MinTokenVal = 256
  Slack = 1
  MaxRules = 2
  MaxBody = 2
SPECIFICATION Spec
INVARIANTS StoreInv BorrowedAlive
PROPERTY ImplementsGrammarPromise
SYMMETRY SameNames
