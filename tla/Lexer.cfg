CONSTANTS
  Infinite = Infinite
  Lexers <- AllLexers
  FlagSets <- FlagChoices
  Compile <- CompileTree
SPECIFICATION Spec
INVARIANTS TypeOK CoordinatesMatchPosition ThreadsStayFew
PROPERTIES ScansAsPromised MatchReturns
CHECK_DEADLOCK FALSE
