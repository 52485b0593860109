SPECIFICATION Spec
CONSTANTS
    Slots = {s1, s2, s3, s4, s5}
    Names = {n1, n2}
    Nil = Nil
    Anon = Anon
    MaxBlocks = 2
    MaxInline = 1
SYMMETRY Symmetry
INVARIANTS HeadsExact OnePerScope RedeclaredExact NothingLeft IndInv
PROPERTIES ImplementsScopes
