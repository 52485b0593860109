SPECIFICATION Spec
CONSTANTS
    Sessions <- MCSessions
    PACK_STACK_SIZE = 2
    Nothing = Nothing
    MaxLength = 2
INVARIANTS
    LayoutExact
    InitExact
