CONSTANTS
  IntMax = 7
  Name <- PgmNames
  Exps <- PgmExps
  Stmts <- PgmStmts
  Programs <- TupleValue
SPECIFICATION Spec
PROPERTY ElementsArePoppedOff
CHECK_DEADLOCK FALSE
