CONSTANTS
    Alnum <- MCAlnum
    Headers <- MCPercentHeaders
SPECIFICATION LinkSpec
INVARIANT ReportsGrammarValues
CHECK_DEADLOCK FALSE
