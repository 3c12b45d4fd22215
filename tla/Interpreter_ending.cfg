CONSTANTS
  IntMax = 7
  Name <- PgmNames
  Exps <- PgmExps
  Stmts <- PgmStmts
  Programs <- EndingPrograms
SPECIFICATION HostSpec
INVARIANT MatchesReference
CHECK_DEADLOCK FALSE
PROPERTIES Termination ImplementsEvaluator
