CONSTANTS
    Alnum <- MCAlnum
    Headers <- MCGrammarHeaders
SPECIFICATION LinkSpec
INVARIANT QuoteAbandoned
CHECK_DEADLOCK FALSE
