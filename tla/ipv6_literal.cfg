SPECIFICATION LocationSpec
CONSTANTS
    V4Texts <- MCV4Texts
    V6Texts <- MCV6Texts
    Names <- MCNames
    PortTexts <- MCPortTexts
    Failed = Failed
INVARIANT BracketedIsV6
CHECK_DEADLOCK FALSE
