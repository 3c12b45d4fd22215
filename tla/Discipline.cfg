CONSTANTS
  IntMax = 7
  Name <- PgmNames
  Exps <- GoodExps
  Stmts <- GoodStmts
  Programs <- TopLevelPrograms
  ReturningStmts <- Returning
  TopLevelStmts <- TopLevel
SPECIFICATION Spec
INVARIANTS OnlyEmptyCallsUnderflow ReturnsFindTheirCaller HaltsClean ContextsBalanced
CONSTRAINT DepthBound
CHECK_DEADLOCK FALSE
