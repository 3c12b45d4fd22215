CONSTANTS ReadAs <- ReadTexts MaxEdited = 5
SPECIFICATION NotEqualSpec
INVARIANT NotEqualIsAnOperator
CHECK_DEADLOCK FALSE
