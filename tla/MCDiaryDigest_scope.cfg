CONSTANTS
    r1 = r1
    r2 = r2
    r3 = r3
    r4 = r4
    a1 = a1
    NULL = NULL
    Resources <- MCResources
    DCalc <- MCDCalc
    DiarySizes <- MCDiarySizes
    MaxCand <- MCMaxCand
    MaskBits = 4
    DataLen0 = 8
    MaxPs <- MCMaxPs
    Authorities <- MCAuthorities
    NoAuthority = NULL
    AllocMayFail = FALSE
    Garbage = {0, 15}

SPECIFICATION DigestSpec
INVARIANT ExportScoped
