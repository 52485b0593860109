SPECIFICATION Spec
CONSTANTS
    Program <- MCProgram
    Library <- MCLibrary
    Callbacks = {"own_f", "asked"}
    Uses <- MCUses
    Outputs = {"exe", "rdynamic", "dll", "static", "memory"}
    MaxRefs = 3
INVARIANTS ReferencesExact CallbacksExact SlotsExact EntriesCounted
CHECK_DEADLOCK FALSE
