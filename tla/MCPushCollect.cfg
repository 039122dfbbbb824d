CONSTANTS
    NULL = NULL
    ReqScheme = "https"
    ReqAuthority = "self"
    ReqHeaders <- MCReqHeaders
    UriParts <- MCUriParts
    Responses <- MCResponses
    Policies = {"none", "default", "head", "fast-load"}
    Alnum <- MCAlnum
    Headers = {}
    Resources <- MCResources
    DCalc <- MCDCalc
    DiarySizes = {0, 1, 3}
    MaxCand = 2
SPECIFICATION CollectSpec
INVARIANTS CollectTypeOK CollectMatchesDesign SuppressedWereSent
