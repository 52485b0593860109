SPECIFICATION Spec
CONSTANTS
    Definitions <- MCDefinitions
    Inputs <- MCInputs
INVARIANTS ExpansionExact
CHECK_DEADLOCK FALSE
