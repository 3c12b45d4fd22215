SPECIFICATION Spec
INVARIANTS DefinedAsWritten OnlyCommentsAreUndefined AcceptsDerivations
PROPERTY ReadingEnds
