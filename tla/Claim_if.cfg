CONSTANTS ReadAs <- ReadTexts MaxEdited = 5
SPECIFICATION ElselessSpec
INVARIANT IfNeedsNoElse
CHECK_DEADLOCK FALSE
