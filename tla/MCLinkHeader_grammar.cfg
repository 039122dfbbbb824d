CONSTANTS
    Alnum <- MCAlnum
    Headers <- MCGrammarHeaders
SPECIFICATION LinkSpec
INVARIANTS LinkTypeOK 
\* inspect_link returns: a finished scan has no further step.
CHECK_DEADLOCK FALSE
