CONSTANTS
  IntMax = 7
  Name <- PgmNames
  Exps <- PooledExps
  Stmts <- PooledStmts
  Programs <- SmallPrograms
  Schema <- MessageFields
  Pooled <- PoolTuple
  Limits <- SomeLimits
SPECIFICATION SeenSpec
INVARIANTS PointersValid OneOwner Contract
PROPERTIES NothingForgotten ImplementsEvaluator
CHECK_DEADLOCK FALSE
