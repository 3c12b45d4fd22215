CONSTANTS
  Value = {"a", "b"}
  Eq <- Same
  Containers <- Words
  MaxLen = 4
SPECIFICATION Spec
INVARIANTS TypeOK CacheIsOptimal ScriptIsAPath ScriptIsShortest ListingShowsBoth
PROPERTIES EntriesAreStable Terminates
CHECK_DEADLOCK FALSE
