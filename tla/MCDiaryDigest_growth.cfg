CONSTANTS
    r1 = r1
    r2 = r2
    r3 = r3
    r4 = r4
    a1 = a1
    NULL = NULL
    Resources <- MCResources
    DCalc <- MCGrowthDCalc
    DiarySizes <- MCGrowthDiarySizes
    MaxCand <- MCMaxCand
    MaskBits = 5
    DataLen0 = 2
    MaxPs <- MCGrowthMaxPs
    Authorities <- MCGrowthAuthorities
    NoAuthority = NULL
    AllocMayFail = TRUE
    Garbage = {0, 31}

SPECIFICATION DigestSpec
INVARIANT DigestTypeOK
INVARIANT StreamSurvivesGrowth
