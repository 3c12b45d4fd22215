CONSTANTS MaxTokens = 4
SPECIFICATION GrammarsSpec
INVARIANT SuccessIsAParse
CHECK_DEADLOCK FALSE
