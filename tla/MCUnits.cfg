SPECIFICATION FairSpec
CONSTANTS
    Names = {"x", "y"}
    Funcs = {"m", "p", "q"}
    Null = Null
    MaxLabels = 5
    MaxStale = 0
    Texts <- MCTexts
    Expansion <- MCExpansion
    LabelItems = {"gx", "lx", "ax", "{x", "}", "gy", "ly", "{xy"}
    LabelLength = 4
    NestLength = 6
CHECK_DEADLOCK FALSE
INVARIANTS VerdictExact CodeExact InlinesComplete HeadsExact
PROPERTIES Terminates
