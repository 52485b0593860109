SPECIFICATION Spec
CONSTANTS
    REGN = 4
    SSEN = 3
    SeenRegs = 6
    Calls <- MCCalls
INVARIANTS ParamsExact VaArgsExact
