CONSTANTS
    r1 = r1
    r2 = r2
    r3 = r3
    r4 = r4
    Resources <- MCResources
    DCalc <- MCDCalc
    DiarySizes <- MCWideDiarySizes
    MaxCand <- MCMaxCand

SPECIFICATION Spec

INVARIANT PowerOfTwoCapacity
