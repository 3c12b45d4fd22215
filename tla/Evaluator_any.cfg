CONSTANTS
  IntMax = 7
  Name <- PgmNames
  Exps <- PgmExps
  Stmts <- PgmStmts
  Programs <- AnyPrograms
SPECIFICATION Spec
INVARIANTS TypeOK NoAliasing
PROPERTY ImplementsCallStack
CONSTRAINT DepthBound
CHECK_DEADLOCK FALSE
