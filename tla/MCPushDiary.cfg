CONSTANTS
    r1 = r1
    r2 = r2
    r3 = r3
    r4 = r4
    Resources <- MCResources
    DCalc <- MCDCalc
    DiarySizes <- MCDiarySizes
    MaxCand <- MCMaxCand

SPECIFICATION Spec

INVARIANT TypeOK
INVARIANT DiaryBounded
INVARIANT EntriesDistinct
INVARIANT PowerOfTwoCapacity
 
