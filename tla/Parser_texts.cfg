CONSTANTS ReadAs <- ReadTexts MaxEdited = 5
SPECIFICATION ParserSpec
INVARIANTS NothingIsLost WrittenIsRead AcceptsTheLanguage EveryNodeIsConverted
CHECK_DEADLOCK FALSE
