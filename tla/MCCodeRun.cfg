SPECIFICATION Spec
CONSTANTS
    i1 = i1
    i2 = i2
    d1 = d1
    lbl = lbl
    lbl2 = lbl2
    NB_REGS = 3
    Programs <- AllPrograms
    Inputs <- InputsOf
    Labels = {lbl, lbl2}
    Returned <- ReturnedIn
    Fuel = 60
INVARIANTS SameEffects ArraysKept JumpsResolved StackBalanced
