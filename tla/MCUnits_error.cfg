SPECIFICATION FairSpec
CONSTANTS
    Names = {"x", "y"}
    Funcs = {"m", "p", "q"}
    Null = Null
    MaxLabels = 5
    MaxStale = 2
    Texts <- MCTexts
    Expansion <- MCExpansion
    LabelItems = {"gx", "lx", "ax", "{x", "}", "gy", "ly", "{xy"}
    LabelLength = 2
    NestLength = 2
CHECK_DEADLOCK FALSE
INVARIANTS ReturnsVerdict

